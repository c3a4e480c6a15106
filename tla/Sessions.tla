------------------------------ MODULE Sessions ------------------------------
(***************************************************************************)
(* The IDAuth sessions: the records a session store keeps, and the HTTP    *)
(* handlers that create, read, change and delete them while other handlers *)
(* do the same (routes.go, user_sessions.go, idauth.go), over each of the  *)
(* three back ends a store can have (session.go).                          *)
(*                                                                         *)
(* A handler works on the *core.Session its bearer middleware fetched.     *)
(* The in-memory cache hands every handler the same pointer, so an         *)
(* assignment to a field is seen by all of them at once; Redis and         *)
(* Postgres decode a private copy, so an assignment is seen only when the  *)
(* handler saves it, and then overwrites whatever was saved meanwhile.     *)
(* View and Write below are that difference.                               *)
(*                                                                         *)
(* A process can stop at any step and be started again. What the store     *)
(* holds survives that, unless it is the in-memory cache.                  *)
(***************************************************************************)
EXTENDS Naturals

CONSTANTS
    SessionIds,    \* the ULIDs that will be drawn, each of them once
    Requests,      \* slots for HTTP requests in flight
    RoleIds,       \* user_role_id values
    RoleLists,     \* the role lists the authorizer may answer with
    Owner,         \* the person code behind each session
    NoSession, NoRole,
    Backend,       \* "memory", "redis" or "postgres"
    CleansUp,      \* EnableSessionStoreCleanup
    RequiresTOS,   \* AuthorizerRequiresTOS
    RequiresRole,  \* SessionRequiresRole
    TermsAnswers,  \* the is_tos_accepted values answered to a terms acceptance
    Timeout        \* SessionTimeout, in seconds

RoleStatus == {"absent", "granted", "blocked"}

NoRoles == [k \in RoleIds |-> "absent"]

ASSUME SessionsAssumption ==
    /\ NoSession \notin SessionIds
    /\ NoRole \notin RoleIds
    /\ RoleLists \subseteq [RoleIds -> RoleStatus]
    /\ NoRoles \in RoleLists
    /\ Backend \in {"memory", "redis", "postgres"}
    /\ CleansUp \in BOOLEAN
    /\ RequiresTOS \in BOOLEAN
    /\ RequiresRole \in BOOLEAN
    /\ TermsAnswers \subseteq BOOLEAN
    /\ Timeout \in Nat \ {0}

SharesPointers == Backend = "memory"
IsCache == Backend # "postgres"

(* The store calls that can fail: a cache kept in the process cannot. *)
StoreMayFail == ~SharesPointers

States == {"req_agreement", "req_role", "authorized"}

(***************************************************************************)
(* idle is the time since LastAccessed, in whole seconds, counted no       *)
(* further than the first value GetSecondsToLive answers negatively for.   *)
(***************************************************************************)
Session == [state : States, tos : BOOLEAN, roles : RoleLists,
            role : RoleIds \cup {NoRole}, idle : 0 .. Timeout + 1]

Blank == [state |-> "req_agreement", tos |-> FALSE, roles |-> NoRoles,
          role |-> NoRole, idle |-> 0]

VARIABLES
    issued,   \* session ids drawn so far
    machine,  \* those drawn for a client_credentials grant
    live,     \* keys present in the store
    stored,   \* what the store holds under a key; in memory, the object of
              \* that session, which its holders keep after its removal
    age,      \* seconds since a cache entry was last set
    pc,       \* the next step of each request
    held,     \* the session a request works on
    copy,     \* its private copy of it (not with the in-memory cache)
    answer,   \* the role list the authorizer answered it with
    pick      \* the role it selects

vars == <<issued, machine, live, stored, age, pc, held, copy, answer, pick>>

Steps == {"idle", "login_audit", "login_undo", "terms_ask", "terms_settle",
          "terms_save", "role_check", "role_apply", "role_save", "role_audit",
          "extend_read", "extend_save", "respond", "logout", "revoke_check",
          "revoke"}

(* The steps from which a request may still save the session it read. *)
Saving == {"terms_ask", "terms_settle", "terms_save", "role_check",
           "role_apply", "role_save", "extend_save"}

-----------------------------------------------------------------------------
(* The state and role a session starts with, and those it gets when its    *)
(* user has accepted the terms.                                            *)

Sole(roles, k) ==
    /\ roles[k] # "absent"
    /\ \A j \in RoleIds \ {k} : roles[j] = "absent"

SoleRoles(roles) == {k \in RoleIds : Sole(roles, k)}

SoleGranted(roles) == {k \in SoleRoles(roles) : roles[k] = "granted"}

RoleIfSole(roles) ==
    IF RequiresRole /\ SoleGranted(roles) # {}
    THEN CHOOSE k \in SoleGranted(roles) : TRUE
    ELSE NoRole

StateAtLogin(accepted, roles) ==
    CASE RequiresTOS /\ ~accepted       -> "req_agreement"
      [] (~RequiresTOS \/ accepted) /\
         (~RequiresRole \/ SoleGranted(roles) # {}) -> "authorized"
      [] OTHER                          -> "req_role"

CreateSessionFromUserData(accepted, roles) ==
    [state |-> StateAtLogin(accepted, roles),
     tos   |-> accepted,
     roles |-> roles,
     role  |-> IF RequiresTOS /\ ~accepted THEN NoRole ELSE RoleIfSole(roles),
     idle  |-> 0]

(* clientCredentials: authorized whatever the terms and the role.          *)
ServiceSession(accepted, roles) ==
    [state |-> "authorized", tos |-> accepted, roles |-> roles,
     role |-> IF SoleGranted(roles) # {}
              THEN CHOOSE k \in SoleGranted(roles) : TRUE ELSE NoRole,
     idle |-> 0]

(* handleUserData on behalf of termsAccept: a sole role authorizes the     *)
(* session, blocked or not.                                                *)
StateAfterTerms(roles) ==
    IF ~RequiresRole \/ SoleRoles(roles) # {} THEN "authorized" ELSE "req_role"

(* Mutant of TakeAnswer: tos_accepted is not taken over. *)
TakeRolesOnly(x, accepted, roles) ==
    [state |-> x.state, tos |-> x.tos, roles |-> roles, role |-> x.role,
     idle |-> 0]

(* The fields the handlers assign, in the order they assign them.          *)
TakeAnswer(x, accepted, roles) ==
    [state |-> x.state, tos |-> accepted, roles |-> roles, role |-> x.role,
     idle |-> 0]

Settle(x, roles) ==
    [state |-> StateAfterTerms(roles), tos |-> x.tos, roles |-> x.roles,
     role |-> RoleIfSole(roles), idle |-> x.idle]

Touch(x) == [x EXCEPT !.idle = 0]

SelectRole(x, k) ==
    [state |-> IF x.state = "req_role" THEN "authorized" ELSE x.state,
     tos |-> x.tos, roles |-> x.roles, role |-> k, idle |-> x.idle]

-----------------------------------------------------------------------------
(* How a request sees and changes its session.                             *)

View(r) == IF SharesPointers THEN stored[held[r]] ELSE copy[r]

Write(r, x) ==
    IF SharesPointers
    THEN stored' = [stored EXCEPT ![held[r]] = x] /\ UNCHANGED copy
    ELSE copy' = [copy EXCEPT ![r] = x] /\ UNCHANGED stored

Goto(r, step) == pc' = [pc EXCEPT ![r] = step]

(* The request has been answered: its slot is free again. *)
Finish(r) ==
    /\ Goto(r, "idle")
    /\ held' = [held EXCEPT ![r] = NoSession]
    /\ copy' = [copy EXCEPT ![r] = Blank]
    /\ answer' = [answer EXCEPT ![r] = NoRoles]
    /\ pick' = [pick EXCEPT ![r] = NoRole]

(* Mutant of Put: the entry is rewritten without its time to live. *)
PutKeepingAge(r) ==
    /\ live' = live \cup {held[r]}
    /\ stored' = [stored EXCEPT ![held[r]] = View(r)]
    /\ UNCHANGED age

(* Update: an upsert, whatever became of the session meanwhile. *)
Put(r) ==
    /\ live' = live \cup {held[r]}
    /\ stored' = [stored EXCEPT ![held[r]] = View(r)]
    /\ age' = [age EXCEPT ![held[r]] = 0]

(* Keys go from the store. *)
Drop(gone) ==
    /\ live' = live \ gone
    /\ stored' = [s \in SessionIds |->
                     IF s \in gone /\ ~SharesPointers THEN Blank ELSE stored[s]]

Remove(r) == \/ Drop({held[r]})
             \/ StoreMayFail /\ UNCHANGED <<live, stored>>

UnchangedStore == UNCHANGED <<issued, machine, live, stored, age>>
UnchangedLocals == UNCHANGED <<held, answer, pick>>

-----------------------------------------------------------------------------
Init ==
    /\ issued = {} /\ machine = {} /\ live = {}
    /\ stored = [s \in SessionIds |-> Blank]
    /\ age = [s \in SessionIds |-> 0]
    /\ pc = [r \in Requests |-> "idle"]
    /\ held = [r \in Requests |-> NoSession]
    /\ copy = [r \in Requests |-> Blank]
    /\ answer = [r \in Requests |-> NoRoles]
    /\ pick = [r \in Requests |-> NoRole]

(* A new session is stored, by a provider's callback or a token request.   *)
(* The store may fail, or do as it is told and its answer be lost.         *)
Create(r, s, x) ==
    /\ pc[r] = "idle"
    /\ s \notin issued
    /\ issued' = issued \cup {s}
    /\ held' = [held EXCEPT ![r] = s]
    /\ \/ live' = live \cup {s} /\ stored' = [stored EXCEPT ![s] = x]
       \/ StoreMayFail /\ UNCHANGED <<live, stored>>
    /\ \/ s \in live' /\ Goto(r, "login_audit")
       \/ StoreMayFail /\ Goto(r, "login_undo")
    /\ UNCHANGED <<age, copy, answer, pick>>

PersonLogin(r, s) ==
    /\ \E accepted \in BOOLEAN, roles \in RoleLists :
          Create(r, s, CreateSessionFromUserData(accepted, roles))
    /\ UNCHANGED machine

ServiceLogin(r, s) ==
    /\ \E accepted \in BOOLEAN, roles \in RoleLists :
          Create(r, s, ServiceSession(accepted, roles))
    /\ machine' = machine \cup {s}

(* An audit event that cannot be saved takes the login back. *)
LoginAudit(r) ==
    /\ pc[r] = "login_audit"
    /\ \/ Finish(r)
       \/ Goto(r, "login_undo") /\ UnchangedLocals /\ UNCHANGED copy
    /\ UnchangedStore

LoginUndo(r) ==
    /\ pc[r] = "login_undo"
    /\ Remove(r)
    /\ Finish(r)
    /\ UNCHANGED <<issued, machine, age>>

(* GetSessionByID: a private copy, or the object the cache keeps.          *)
Fetch(r, s) ==
    /\ s \in live
    /\ copy' = IF SharesPointers THEN copy ELSE [copy EXCEPT ![r] = stored[s]]

(* AuthorizeBearer: the session named by the token, put in the request.    *)
Bearer(r, s, step) ==
    /\ pc[r] = "idle"
    /\ Fetch(r, s)
    /\ Goto(r, step)
    /\ held' = [held EXCEPT ![r] = s]
    /\ UnchangedStore
    /\ UNCHANGED <<answer, pick>>

GetSession(r, s) == Bearer(r, s, "respond")

TermsAccept(r, s) == Bearer(r, s, "terms_ask")

ExtendSession(r, s) == Bearer(r, s, "extend_read")

SignOut(r, s) == Bearer(r, s, "logout")

SetSessionRole(r, s) ==
    /\ RequiresTOS => stored[s].tos                       \* RequireTOSAccepted
    /\ Bearer(r, s, "role_check")

DeleteUserSession(r, s) ==
    /\ stored[s].state = "authorized"                     \* RequireAuthorized
    /\ Bearer(r, s, "revoke_check")

(* The administrator names any session; no session authorizes the call.    *)
AdminDeleteSession(r, s) ==
    /\ pc[r] = "idle"
    /\ s \in issued
    /\ Goto(r, "revoke")
    /\ held' = [held EXCEPT ![r] = s]
    /\ UnchangedStore
    /\ UNCHANGED <<copy, answer, pick>>

-----------------------------------------------------------------------------
(* termsAccept, with the part of handleUserData it runs.                   *)

TermsAsk(r) ==
    /\ pc[r] = "terms_ask"
    /\ \/ Finish(r) /\ UNCHANGED stored            \* the authorizer refuses
       \/ \E accepted \in TermsAnswers, roles \in RoleLists :
             /\ Write(r, TakeAnswer(View(r), accepted, roles))
             /\ answer' = [answer EXCEPT ![r] = roles]
             /\ Goto(r, IF accepted THEN "terms_settle" ELSE "terms_save")
             /\ UNCHANGED <<held, pick>>
    /\ UNCHANGED <<issued, machine, live, age>>

TermsSettle(r) ==
    /\ pc[r] = "terms_settle"
    /\ Write(r, Settle(View(r), answer[r]))
    /\ Goto(r, "terms_save")
    /\ UnchangedLocals
    /\ UNCHANGED <<issued, machine, live, age>>

TermsSave(r) ==
    /\ pc[r] = "terms_save"
    /\ \/ Put(r)
       \/ StoreMayFail /\ UNCHANGED <<live, stored, age>>
    /\ Finish(r)
    /\ UNCHANGED <<issued, machine>>

-----------------------------------------------------------------------------
(* setSessionRole.                                                         *)

(* Mutant of RoleCheck: any role will do. *)
RoleCheckAny(r) ==
    /\ pc[r] = "role_check"
    /\ \/ Finish(r)
       \/ /\ pick' \in {[pick EXCEPT ![r] = k] : k \in RoleIds \cup {NoRole}}
          /\ Goto(r, "role_apply")
          /\ UNCHANGED <<held, copy, answer>>
    /\ UnchangedStore

RoleCheck(r) ==
    /\ pc[r] = "role_check"
    /\ \/ Finish(r)                                \* refused: 400 or 403
       \/ /\ View(r).state \in {"req_role", "authorized"}
          /\ \E k \in RoleIds :
                /\ View(r).roles[k] = "granted"
                /\ pick' = [pick EXCEPT ![r] = k]
          /\ Goto(r, "role_apply")
          /\ UNCHANGED <<held, copy, answer>>
    /\ UnchangedStore

RoleApply(r) ==
    /\ pc[r] = "role_apply"
    /\ Write(r, SelectRole(View(r), pick[r]))
    /\ Goto(r, "role_save")
    /\ UnchangedLocals
    /\ UNCHANGED <<issued, machine, live, age>>

RoleSave(r) ==
    /\ pc[r] = "role_save"
    /\ \/ Put(r) /\ Goto(r, "role_audit") /\ UnchangedLocals /\ UNCHANGED copy
       \/ StoreMayFail /\ Finish(r) /\ UNCHANGED <<live, stored, age>>
    /\ UNCHANGED <<issued, machine>>

(* The role is changed whether or not its audit event is saved.            *)
RoleAudit(r) ==
    /\ pc[r] = "role_audit"
    /\ \/ Goto(r, "respond") /\ UnchangedLocals /\ UNCHANGED copy
       \/ Finish(r)
    /\ UnchangedStore

-----------------------------------------------------------------------------
(* extendSession: the session is read once more, then saved.               *)

(* Mutant of ExtendRead: a session not found is not an error. *)
ExtendReadAnyway(r) ==
    /\ pc[r] = "extend_read"
    /\ Write(r, Touch(stored[held[r]]))
    /\ Goto(r, "extend_save")
    /\ UnchangedLocals
    /\ UNCHANGED <<issued, machine, live, age>>

(* Mutant of ExtendRead: the session the middleware fetched will do. *)
ExtendReadFetched(r) ==
    /\ pc[r] = "extend_read"
    /\ \/ /\ held[r] \in live
          /\ Write(r, Touch(View(r)))
          /\ Goto(r, "extend_save")
          /\ UnchangedLocals
       \/ /\ held[r] \notin live
          /\ Finish(r)
          /\ UNCHANGED stored
    /\ UNCHANGED <<issued, machine, live, age>>

ExtendRead(r) ==
    /\ pc[r] = "extend_read"
    /\ \/ /\ held[r] \in live
          /\ Write(r, Touch(stored[held[r]]))
          /\ Goto(r, "extend_save")
          /\ UnchangedLocals
       \/ /\ held[r] \notin live
          /\ Finish(r)
          /\ UNCHANGED stored
    /\ UNCHANGED <<issued, machine, live, age>>

ExtendSave(r) ==
    /\ pc[r] = "extend_save"
    /\ \/ Put(r) /\ Goto(r, "respond") /\ UnchangedLocals /\ UNCHANGED copy
       \/ /\ StoreMayFail
          /\ IF IsCache THEN Goto(r, "respond") /\ UnchangedLocals /\ UNCHANGED copy
                        ELSE Finish(r)
          /\ UNCHANGED <<live, stored, age>>
    /\ UNCHANGED <<issued, machine>>

(* Mutant of Respond: reading a session is an access that keeps it alive.  *)
RespondRefreshing(r) ==
    /\ pc[r] = "respond"
    /\ stored' = [stored EXCEPT ![held[r]].idle = 0]
    /\ age' = [age EXCEPT ![held[r]] = 0]
    /\ Finish(r)
    /\ UNCHANGED <<issued, machine, live>>

(* sessionToResponse: a session past its time is deleted instead.          *)
Respond(r) ==
    /\ pc[r] = "respond"
    /\ \/ /\ View(r).idle > Timeout
          /\ Goto(r, "logout")
          /\ UnchangedLocals
          /\ UNCHANGED copy
       \/ /\ View(r).idle <= Timeout
          /\ Finish(r)
    /\ UnchangedStore

(* deleteSession.                                                          *)
Logout(r) ==
    /\ pc[r] = "logout"
    /\ Remove(r)
    /\ Finish(r)
    /\ UNCHANGED <<issued, machine, age>>

-----------------------------------------------------------------------------
(* deleteUserSession: the session to delete must be found among those of   *)
(* the caller. The cache back ends list none and dereference nil.          *)

(* GetUserSessions. *)
SessionsLike(s) == IF IsCache THEN {} ELSE {t \in live : Owner[t] = Owner[s]}

RevokeCheck(r) ==
    /\ pc[r] = "revoke_check"
    /\ \/ Finish(r)
       \/ /\ \E s \in SessionsLike(held[r]) : held' = [held EXCEPT ![r] = s]
          /\ copy' = [copy EXCEPT ![r] = Blank]
          /\ Goto(r, "revoke")
          /\ UNCHANGED <<answer, pick>>
    /\ UnchangedStore

(* DeleteUserSession does nothing on a cache, and reports success.         *)
Revoke(r) ==
    /\ pc[r] = "revoke"
    /\ IF IsCache THEN UNCHANGED <<live, stored>> ELSE Remove(r)
    /\ Finish(r)
    /\ UNCHANGED <<issued, machine, age>>

-----------------------------------------------------------------------------
Older(x) == [x EXCEPT !.idle = IF @ > Timeout THEN @ ELSE @ + 1]

(* A cache entry lapses Timeout after it was last set. *)
Lapsing == {s \in live : IsCache /\ age[s] + 1 >= Timeout}

(* One second passes. *)
Tick ==
    /\ live' = live \ Lapsing
    /\ age' = [s \in SessionIds |->
                  IF IsCache /\ s \in live \ Lapsing THEN age[s] + 1 ELSE 0]
    /\ stored' = [s \in SessionIds |->
                     IF s \in (IF SharesPointers THEN issued ELSE live \ Lapsing)
                     THEN Older(stored[s]) ELSE Blank]
    /\ copy' = [r \in Requests |->
                   IF SharesPointers \/ held[r] = NoSession
                   THEN copy[r] ELSE Older(copy[r])]
    /\ UNCHANGED <<issued, machine, pc, held, answer, pick>>

(* delete_expired_sessions in the database. *)
Expired == {s \in live : stored[s].idle >= Timeout}

(* The cron job. A cache needs none. *)
DeleteExpiredSessions ==
    /\ ~IsCache /\ CleansUp
    /\ Drop(Expired)
    /\ UNCHANGED <<issued, machine, age, pc, held, copy, answer, pick>>

-----------------------------------------------------------------------------
(* A process stops with the requests R it was handling. Over Redis and     *)
(* Postgres other processes go on; the in-memory cache is that of the one  *)
(* there is, and the objects in it are out of reach afterwards.            *)
InFlight == {r \in Requests : pc[r] # "idle"}

Reset(f, R, v) == [r \in Requests |-> IF r \in R THEN v ELSE f[r]]

Crash(R) ==
    /\ SharesPointers => R = InFlight
    /\ pc' = Reset(pc, R, "idle")
    /\ held' = Reset(held, R, NoSession)
    /\ copy' = Reset(copy, R, Blank)
    /\ answer' = Reset(answer, R, NoRoles)
    /\ pick' = Reset(pick, R, NoRole)
    /\ live' = IF SharesPointers THEN {} ELSE live
    /\ UNCHANGED <<issued, machine, stored, age>>

-----------------------------------------------------------------------------
Arrive(r, s) ==
    \/ PersonLogin(r, s) \/ ServiceLogin(r, s)
    \/ GetSession(r, s) \/ TermsAccept(r, s) \/ ExtendSession(r, s)
    \/ SignOut(r, s) \/ SetSessionRole(r, s) \/ DeleteUserSession(r, s)
    \/ AdminDeleteSession(r, s)

Proceed(r) ==
    \/ LoginAudit(r) \/ LoginUndo(r)
    \/ TermsAsk(r) \/ TermsSettle(r) \/ TermsSave(r)
    \/ RoleCheck(r) \/ RoleApply(r) \/ RoleSave(r) \/ RoleAudit(r)
    \/ ExtendRead(r) \/ ExtendSave(r)
    \/ Respond(r) \/ Logout(r) \/ RevokeCheck(r) \/ Revoke(r)

Next ==
    \/ \E r \in Requests, s \in SessionIds : Arrive(r, s)
    \/ \E r \in Requests : Proceed(r)
    \/ Tick
    \/ DeleteExpiredSessions
    \/ \E R \in SUBSET InFlight : Crash(R)

Spec == Init /\ [][Next]_vars

(* A handler that has begun runs on, the clock runs, the cron job is run.  *)
Fairness ==
    /\ \A r \in Requests : WF_vars(Proceed(r))
    /\ WF_vars(Tick)
    /\ WF_vars(DeleteExpiredSessions)

FairSpec == Spec /\ Fairness

-----------------------------------------------------------------------------
TypeOK ==
    /\ issued \subseteq SessionIds
    /\ machine \subseteq issued
    /\ live \subseteq issued
    /\ stored \in [SessionIds -> Session]
    /\ age \in [SessionIds -> 0 .. Timeout]
    /\ pc \in [Requests -> Steps]
    /\ held \in [Requests -> issued \cup {NoSession}]
    /\ copy \in [Requests -> Session]
    /\ answer \in [Requests -> RoleLists]
    /\ pick \in [Requests -> RoleIds \cup {NoRole}]
    /\ \A r \in Requests : held[r] = NoSession <=> pc[r] = "idle"
    /\ \A r \in Requests : pc[r] = "role_apply" => pick[r] # NoRole

(* Where the terms must be accepted, a person's session gets past          *)
(* "req_agreement" only with the terms accepted, however termsAccept,      *)
(* setSessionRole and keep-alive requests overwrite one another. It needs  *)
(* an authorizer that confirms the acceptance it is told of.               *)
AgreementFirst ==
    \A s \in live \ machine :
        RequiresTOS /\ stored[s].state # "req_agreement" => stored[s].tos

(* A store that copies sessions never holds one whose current role is      *)
(* missing from its role list or blocked there: setSessionRole checks the  *)
(* role against one list and termsAccept replaces the list, but each saves *)
(* a session that is consistent in itself. It too needs an authorizer that *)
(* confirms the acceptance: termsAccept settles the role anew only then.   *)
RoleGranted ==
    ~SharesPointers =>
        \A s \in live : stored[s].role # NoRole =>
                            stored[s].roles[stored[s].role] = "granted"

Savers(s) == {r \in Requests : held[r] = s /\ pc[r] \in Saving}

(* A session that is gone comes back only through a request that read it   *)
(* before it went, and no request joins those: when they are through,      *)
(* sign-out, expiry and revocation are final.                              *)
GoneStaysGone ==
    [][\A s \in issued \ live :
          /\ Savers(s) = {} => s \notin live'
          /\ Savers(s)' \subseteq Savers(s)]_vars

(* An acceptance of the terms that the store holds is taken back in two    *)
(* ways only: the authorizer answers a termsAccept that there is none, or  *)
(* a request saves the session as it was before the acceptance. Requests   *)
(* of that kind do not grow in number: none that reads the session later,  *)
(* a keep-alive that began before included, ever saves it unaccepted.      *)
Unaware(s) == {r \in Requests : held[r] = s /\ pc[r] \in Saving /\ ~View(r).tos}

Denied(r) == pc[r] = "terms_ask" /\ pc'[r] = "terms_save"

AcceptanceKept ==
    [][\A s \in live :
          \/ ~stored[s].tos
          \/ \E r \in Requests : held[r] = s /\ Denied(r)
          \/ /\ Unaware(s) = {} /\ s \in live' => stored'[s].tos
             /\ Unaware(s)' \subseteq Unaware(s)]_vars

(* Redis loses a session only to a request that deletes it, or after       *)
(* Timeout seconds without an access the session records, the second that  *)
(* is passing included, although the time an entry has left is counted     *)
(* from its last save and a save may be of a copy read long before.        *)
KeptWhileUsed ==
    [][\A s \in live \ live' :
          \/ Backend # "redis"
          \/ \E r \in Requests : /\ held[r] = s
                                 /\ pc[r] \in {"logout", "revoke", "login_undo"}
          \/ stored[s].idle >= Timeout - 1]_vars

(* RequireAuthorized "ensures the session is fully authorized": where a    *)
(* role is required, an authorized session of a person has one.            *)
AuthorizedHasRole ==
    \A s \in live \ machine :
        RequiresRole /\ stored[s].state = "authorized" => stored[s].role # NoRole

(* Extend may ignore that the cache could not be written, as the session   *)
(* "will be loaded automatically if not in cache": a keep-alive that goes  *)
(* on to answer leaves the session there to be read.                       *)
LoadedAutomatically ==
    [][\A r \in Requests :
          IsCache /\ pc[r] = "extend_save" /\ pc'[r] = "respond"
              => held[r] \in live']_vars

(* A session no request saves does not stay: reading it, however often,    *)
(* does not keep it alive.                                                 *)
UnsavedSessionsGo ==
    \A s \in SessionIds :
        []<>(\/ s \notin live
             \/ \E r \in Requests : held[r] = s /\ pc[r] \in Saving)
=============================================================================
