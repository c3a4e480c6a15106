--------------------------- MODULE MCOneTimeTokens ---------------------------
(* OneTimeTokens with a few codes and requests.                            *)
EXTENDS OneTimeTokens, TLC

Interchangeable == Permutations(Codes) \cup Permutations(Redeemers)
=============================================================================
