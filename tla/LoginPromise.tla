---------------------------- MODULE LoginPromise ----------------------------
(***************************************************************************)
(* What a login promises the client that asked for it. A session is opened *)
(* at most for one flow, never after its login was given up, and its id is *)
(* answered only to the client of that flow. LoginFlow is the code that    *)
(* has to keep this promise.                                               *)
(***************************************************************************)
CONSTANTS Flows, Clients, ClientOf, SessionIds, NoId

VARIABLES
    begun,       \* flows asked for so far
    identified,  \* session ids drawn so far
    loginOf,     \* the flow each was drawn for
    live,        \* sessions that are open
    givenUp,     \* sessions whose login has failed
    answered     \* the answers given to clients

vars == <<begun, identified, loginOf, live, givenUp, answered>>

Init ==
    /\ begun = {} /\ identified = {} /\ live = {} /\ givenUp = {}
    /\ answered = {}
    /\ loginOf \in [SessionIds -> Flows]

Begin(f) ==
    /\ f \notin begun
    /\ begun' = begun \cup {f}
    /\ UNCHANGED <<identified, loginOf, live, givenUp, answered>>

(* A session id is drawn, for a login that may still fail. *)
Identify(s, f) ==
    /\ f \in begun
    /\ s \notin identified
    /\ identified' = identified \cup {s}
    /\ loginOf' = [loginOf EXCEPT ![s] = f]
    /\ UNCHANGED <<begun, live, givenUp, answered>>

Open(s) ==
    /\ s \in identified \ givenUp
    /\ live' = live \cup {s}
    /\ UNCHANGED <<begun, identified, loginOf, givenUp, answered>>

(* A login that is given up may leave its session open, if the failure was *)
(* the store's too, but it is the only way one ends before its logout.     *)
GiveUp(S) ==
    /\ S \subseteq identified
    /\ givenUp' = givenUp \cup S
    /\ live \ S \subseteq live' /\ live' \subseteq live
    /\ UNCHANGED <<begun, identified, loginOf, answered>>

Answer(f, s) ==
    /\ f \in begun
    /\ s \in identified
    /\ ClientOf[loginOf[s]] = ClientOf[f]
    /\ answered' = answered \cup {[flow |-> f, id |-> s, error |-> FALSE]}
    /\ UNCHANGED <<begun, identified, loginOf, live, givenUp>>

Refuse(f, s) ==
    /\ f \in begun
    /\ answered' = answered \cup {[flow |-> f, id |-> s, error |-> TRUE]}
    /\ UNCHANGED <<begun, identified, loginOf, live, givenUp>>

Next ==
    \/ \E f \in Flows : Begin(f)
    \/ \E s \in SessionIds : Open(s)
    \/ \E s \in SessionIds, f \in Flows : Identify(s, f) \/ Answer(f, s)
    \/ \E S \in SUBSET SessionIds : GiveUp(S)
    \/ \E f \in Flows, s \in SessionIds \cup {NoId} : Refuse(f, s)

Spec == Init /\ [][Next]_vars
=============================================================================
