------------------------------- MODULE MCSignIn -------------------------------
(* SignIn with flows of two clients that share a redirect URI, one of      *)
(* which has another as well.                                              *)
EXTENDS SignIn, TLC

CONSTANTS portal, shop, f1, f2, f3, u1, u2

MCClientOf == [f \in Flows |-> IF f = f1 THEN portal ELSE shop]
MCRedirectURI == [f \in Flows |-> IF f = f2 THEN u2 ELSE u1]

Interchangeable == Permutations(Codes) \cup Permutations(Redeemers)
                       \cup Permutations(SessionIds)
=============================================================================
