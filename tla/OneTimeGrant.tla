---------------------------- MODULE OneTimeGrant ----------------------------
(***************************************************************************)
(* What an authorization code promises: it can be exchanged for an access  *)
(* token once, in one step, and then or when it is withdrawn it is worth   *)
(* nothing. OneTimeTokens is the code that has to keep this promise.       *)
(***************************************************************************)
EXTENDS Naturals

CONSTANT Codes

VARIABLES
    issued,       \* codes handed out so far
    outstanding,  \* codes that can still be exchanged
    delivered     \* how often each was exchanged (counted up to 2)

vars == <<issued, outstanding, delivered>>

Init ==
    /\ issued = {}
    /\ outstanding = {}
    /\ delivered = [c \in Codes |-> 0]

Issue(c) ==
    /\ c \notin issued
    /\ issued' = issued \cup {c}
    /\ outstanding' \in {outstanding, outstanding \cup {c}}
    /\ UNCHANGED delivered

Exchange(c) ==
    /\ c \in outstanding
    /\ outstanding' = outstanding \ {c}
    /\ delivered' = [delivered EXCEPT ![c] = IF @ = 2 THEN 2 ELSE @ + 1]
    /\ UNCHANGED issued

(* Codes that expire, are presented with another redirect URI, or are lost *)
(* with the process that had them.                                         *)
Withdraw(C) ==
    /\ C \subseteq outstanding
    /\ outstanding' = outstanding \ C
    /\ UNCHANGED <<issued, delivered>>

Next ==
    \/ \E c \in Codes : Issue(c) \/ Exchange(c)
    \/ \E C \in SUBSET Codes : Withdraw(C)

Spec == Init /\ [][Next]_vars
=============================================================================
