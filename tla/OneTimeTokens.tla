---------------------------- MODULE OneTimeTokens ----------------------------
(***************************************************************************)
(* The store of one-time tokens (app/oot.go) and the token endpoint that   *)
(* redeems them (authorizationCode in routes.go). A token is the code of   *)
(* the authorization code grant. RedeemToken is two calls on a cache, a    *)
(* Get and a Delete, and only logs a Delete that fails.                    *)
(*                                                                         *)
(* Which session a token names and which redirect URI it was made for do   *)
(* not change once it is stored; only whether a request presents the same  *)
(* URI matters here, and either is possible.                               *)
(***************************************************************************)
EXTENDS Naturals

CONSTANTS
    Codes,         \* the ULIDs that will be drawn as tokens
    Redeemers,     \* slots for token requests in flight
    SetMayFail,    \* whether writes to the cache can fail
    DeleteMayFail  \* whether deletes from it can

ASSUME OneTimeTokensAssumption ==
    SetMayFail \in BOOLEAN /\ DeleteMayFail \in BOOLEAN

VARIABLES
    issued,     \* tokens generated so far
    store,      \* tokens present in the cache
    phase,      \* where each request is in authorizationCode
    code,       \* the code it presents
    found,      \* whether it read a token from the cache
    delivered   \* access tokens answered per code (counted up to 2)

vars == <<issued, store, phase, code, found, delivered>>

Init ==
    /\ issued = {} /\ store = {}
    /\ phase = [r \in Redeemers |-> "idle"]
    /\ code \in [Redeemers -> Codes]
    /\ found = [r \in Redeemers |-> FALSE]
    /\ delivered = [c \in Codes |-> 0]

GenerateToken(c) ==
    /\ c \notin issued
    /\ issued' = issued \cup {c}
    /\ \/ store' = store \cup {c}
       \/ SetMayFail /\ store' = store
    /\ UNCHANGED <<phase, code, found, delivered>>

(* RedeemToken's first half: a request may present any code. A miss is     *)
(* nil without an error, so it goes on to the Delete all the same; an      *)
(* error of the cache is answered at once and changes nothing.             *)
GetToken(r, c) ==
    /\ phase[r] = "idle"
    /\ phase' = [phase EXCEPT ![r] = "delete"]
    /\ code' = [code EXCEPT ![r] = c]
    /\ found' = [found EXCEPT ![r] = c \in store]
    /\ UNCHANGED <<issued, store, delivered>>

(* Mutant of DeleteToken: the token is got, not redeemed. *)
KeepToken(r) ==
    /\ phase[r] = "delete"
    /\ phase' = [phase EXCEPT ![r] = "check"]
    /\ UNCHANGED <<issued, store, code, found, delivered>>

DeleteToken(r) ==
    /\ phase[r] = "delete"
    /\ phase' = [phase EXCEPT ![r] = "check"]
    /\ \/ store' = store \ {code[r]}
       \/ DeleteMayFail /\ store' = store
    /\ UNCHANGED <<issued, code, found, delivered>>

(* The token was there and was made for the redirect URI presented. *)
Deliver(r) ==
    /\ phase[r] = "check"
    /\ found[r]
    /\ phase' = [phase EXCEPT ![r] = "idle"]
    /\ delivered' = [delivered EXCEPT ![code[r]] = IF @ = 2 THEN 2 ELSE @ + 1]
    /\ UNCHANGED <<issued, store, code, found>>

(* Mutant of Refuse: a token presented with the wrong URI is put back. *)
RefuseAndRestore(r) ==
    /\ phase[r] = "check"
    /\ phase' = [phase EXCEPT ![r] = "idle"]
    /\ store' = store \cup {code[r]}
    /\ UNCHANGED <<issued, code, found, delivered>>

(* There was none, or it was made for another redirect URI. *)
Refuse(r) ==
    /\ phase[r] = "check"
    /\ phase' = [phase EXCEPT ![r] = "idle"]
    /\ UNCHANGED <<issued, store, code, found, delivered>>

(* The cache drops a token three minutes after it was set. *)
Expire(c) ==
    /\ c \in store
    /\ store' = store \ {c}
    /\ UNCHANGED <<issued, phase, code, found, delivered>>

(* A process stops with the requests R it was handling; if its cache was   *)
(* in memory, that was all of them, and the tokens go with them.           *)
InFlight == {r \in Redeemers : phase[r] # "idle"}

Crash(R) ==
    /\ phase' = [r \in Redeemers |-> IF r \in R THEN "idle" ELSE phase[r]]
    /\ store' = store \/ (R = InFlight /\ store' = {})
    /\ UNCHANGED <<issued, code, found, delivered>>

Next ==
    \/ \E c \in Codes : GenerateToken(c) \/ Expire(c)
    \/ \E r \in Redeemers, c \in Codes : GetToken(r, c)
    \/ \E r \in Redeemers : DeleteToken(r) \/ Deliver(r) \/ Refuse(r)
    \/ \E R \in SUBSET InFlight : Crash(R)

Spec == Init /\ [][Next]_vars

-----------------------------------------------------------------------------
TypeOK ==
    /\ issued \subseteq Codes
    /\ store \subseteq issued
    /\ phase \in [Redeemers -> {"idle", "delete", "check"}]
    /\ code \in [Redeemers -> Codes]
    /\ found \in [Redeemers -> BOOLEAN]
    /\ delivered \in [Codes -> 0 .. 2]

(* What deletes that work are worth when redemptions overlap: once any     *)
(* access token has been answered for a code, no request that begins later *)
(* can read it.                                                            *)
DeliveredIsSpent ==
    ~DeleteMayFail => \A c \in Codes : delivered[c] > 0 => c \notin store

(* A redeemed, refused or expired token, or one a process took with it, is *)
(* never written again: the code                                           *)
(* that generates tokens draws a new ULID each time.                       *)
SpentStaysSpent ==
    [][\A c \in issued \ store : c \notin store']_vars

(* "redeem the token instead of getting it, so it can't be used again".    *)
RedeemedOnce == \A c \in Codes : delivered[c] <= 1

-----------------------------------------------------------------------------
(* A token a request has read stays outstanding until it is answered.      *)
Holds(r, c) == phase[r] # "idle" /\ found[r] /\ code[r] = c

InHand == {c \in Codes : \E r \in Redeemers : Holds(r, c)}

Grant == INSTANCE OneTimeGrant WITH outstanding <- store \cup InHand

(* An access token is answered for a code another request has read too.    *)
ContendedDelivery ==
    \E r \in Redeemers :
        /\ Deliver(r)
        /\ \E q \in Redeemers \ {r} : Holds(q, code[r])

(* With deletes that work, the two calls are as good as one atomic         *)
(* exchange but for one thing: what a request answers while another that   *)
(* read the same code is still on its way.                                 *)
ImplementsGrant ==
    /\ Grant!Init
    /\ [][Grant!Next \/ ContendedDelivery]_(Grant!vars)
=============================================================================
