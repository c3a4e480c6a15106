---------------------------- MODULE MCLoginFlow ----------------------------
(* Values for the constants of LoginFlow that a .cfg cannot write.         *)
EXTENDS LoginFlow, TLC

CONSTANTS portal, shop, f1, f2, f3

(* Two logins for one client, and one for the other where there is a third. *)
MCClientOf == [f \in Flows |-> IF f = f2 THEN shop ELSE portal]
OneClient == [f \in Flows |-> portal]

Fresh == Permutations(Slots) \cup Permutations(SessionIds)
             \cup Permutations(Requests)
=============================================================================
