------------------------------ MODULE LoginFlow ------------------------------
(***************************************************************************)
(* The login of one browser: /authorize, the provider's callback and the   *)
(* provider's logout callback (routes.go), the correlation that ties them  *)
(* together (app/correlation.go) and the answer to the calling client      *)
(* (RedirectToCaller in idauth.go).                                        *)
(*                                                                         *)
(* A correlation is a cache entry; the browser's cookie holds its key, its *)
(* slot. The requests of one browser overlap: a page reloaded, a second    *)
(* tab, a provider that calls back twice. As with sessions, an in-memory   *)
(* cache hands all of them one object per slot and Redis a copy each.      *)
(*                                                                         *)
(* A flow is one /authorize request; it stands for the redirect URI, the   *)
(* state, the nonce and the PKCE challenge that came with it. Any piece of *)
(* a registered redirect URI is allowed in one (validRedirectURI), even    *)
(* ":8080/auth-done", which is no URL: such a flow is Unparsable.          *)
(*                                                                         *)
(* A process can stop, and take with it the requests it was handling and   *)
(* what it held in memory. The provider objects the browsers of a process  *)
(* share are left out: they keep nothing that a login's outcome rests on.  *)
(***************************************************************************)
EXTENDS Naturals

CONSTANTS
    Flows,           \* the /authorize requests the browser will make
    Clients,
    ClientOf,        \* the client each flow belongs to
    Unparsable,      \* the flows whose redirect URI does not parse
    Slots,           \* ULIDs drawn for correlations
    SessionIds,      \* ULIDs drawn for sessions
    Requests,        \* slots for HTTP requests in flight
    NoSlot, NoId,
    Keep,            \* a response that leaves the cookie alone
    SharesPointers,  \* the cache hands out pointers, or copies
    CacheMayFail,    \* correlation and token caches can fail
    StoreMayFail,    \* the session store can fail
    AuditMayFail,    \* the audit service, or its answer, can be lost
    MayCrash,        \* a process can stop and be started again
    RequiresTOS,     \* AuthorizerRequiresTOS
    SignsOut         \* the provider asks for RequiresSignoutCallback

ASSUME LoginFlowAssumption ==
    /\ ClientOf \in [Flows -> Clients]
    /\ Unparsable \subseteq Flows
    /\ Slots \cap Flows = {} /\ Slots \cap SessionIds = {}
    /\ Flows \cap SessionIds = {}
    /\ NoSlot \notin Slots /\ Keep \notin Slots \cup {NoSlot}
    /\ NoId \notin SessionIds
    /\ MayCrash \in BOOLEAN
    /\ SharesPointers \in BOOLEAN /\ CacheMayFail \in BOOLEAN
    /\ SharesPointers => ~CacheMayFail
    /\ StoreMayFail \in BOOLEAN /\ AuditMayFail \in BOOLEAN
    /\ RequiresTOS \in BOOLEAN /\ SignsOut \in BOOLEAN
    /\ Flows # {}

Correlation == [client : Clients, flow : Flows, id : SessionIds \cup {NoId},
                error : BOOLEAN, tos : BOOLEAN]

(* The correlation an /authorize request asks for. *)
NewCorrelation(f) == [client |-> ClientOf[f], flow |-> f, id |-> NoId,
                      error |-> FALSE, tos |-> FALSE]

Blank == NewCorrelation(CHOOSE f \in Flows : TRUE)

VARIABLES
    cookie,    \* the slot in the browser's cookie
    drawn,     \* slots, flows and session ids used so far
    present,   \* slots in the cache
    slot,      \* what the cache holds in a slot; with pointers, its object
    live,      \* sessions in the session store
    begunFor,  \* the flow whose callback drew a session id
    owing,     \* sessions whose user has yet to accept the terms
    pc,        \* the next step of each request
    carried,   \* the cookie it came with
    at,        \* the slot whose object it works on
    cor,       \* or its copy of the correlation
    base,      \* what a Set has read and is about to write back
    found,     \* whether it read anything
    sid,       \* the id of the session it creates
    accepted,  \* whether the authorizer said the terms are accepted
    failed,    \* whether Create failed
    setCookie, \* the cookie its response will set
    outcome,   \* what became of the login of each session
    answers    \* the redirects sent to callers

requestVars == <<pc, carried, at, cor, base, found, sid, accepted, failed,
                 setCookie>>
vars == <<cookie, drawn, present, slot, live, begunFor, owing, requestVars,
          outcome, answers>>

Answer == [flow : Flows, id : SessionIds \cup {NoId}, error : BOOLEAN,
           tos : BOOLEAN]

Steps == {"idle", "authorize_set", "authorize", "draw", "exchange", "ask",
          "set_read", "set", "create", "terms", "tos_read", "tos_set", "audit",
          "undo", "done", "redirect", "forget"}

(* The steps of handleUserData, once it knows the user. *)
LoggingIn == {"set_read", "set", "create", "terms", "tos_read", "tos_set",
              "audit", "undo"}

(* A login in the audit log, one given up, one a process has lost.         *)
Outcomes == {"open", "audited", "failed", "lost"}

-----------------------------------------------------------------------------
View(r) == IF SharesPointers THEN slot[at[r]] ELSE cor[r]

Write(r, c) ==
    IF SharesPointers
    THEN slot' = [slot EXCEPT ![at[r]] = c] /\ UNCHANGED cor
    ELSE cor' = [cor EXCEPT ![r] = c] /\ UNCHANGED slot

Goto(r, step) == pc' = [pc EXCEPT ![r] = step]

(* The login of session s, if it has one, has come to this. *)
Conclude(s, o) ==
    outcome' = IF s = NoId THEN outcome ELSE [outcome EXCEPT ![s] = o]

(* Mutant of WithError: the error code is not set. *)
WithoutError(c) == c

WithError(c) == [c EXCEPT !.error = TRUE]

(* Mutant of WithTOSTarget: the TOS redirect URI is not kept. *)
WithoutTOSTarget(c) == c

WithTOSTarget(c) == [c EXCEPT !.tos = TRUE]

(* An answer to the redirect URI, or to the terms page made from it.       *)
Reachable(c) == c.tos \/ c.flow \notin Unparsable

(* getFromCookie: the slot the request's cookie names, if it is cached.    *)
ReadSlot(r, k) ==
    /\ found' = [found EXCEPT ![r] = k \in present]
    /\ base' = IF k \in present /\ ~SharesPointers
               THEN [base EXCEPT ![r] = slot[k]] ELSE base

Base(r) == IF SharesPointers THEN slot[carried[r]] ELSE base[r]

(* Mutant of Reusable: for a correlation of any client. *)
ReusableByAnyClient(r, c) == found[r]

(* The slot is reused for a correlation of the same client only.           *)
Reusable(r, c) == found[r] /\ Base(r).client = c.client

(* A correlation without a session id is a new /authorize request: it      *)
(* resets the slot. One with an id hands over that id and its error code.  *)
Merge(old, c) ==
    [client |-> old.client,
     flow   |-> IF c.id = NoId THEN c.flow ELSE old.flow,
     id     |-> c.id,
     error  |-> IF c.id = NoId THEN FALSE ELSE c.error,
     tos    |-> IF c.id = NoId THEN FALSE ELSE old.tos]

(* Set's second half: correlation c is stored, in slot k.                  *)
StoreIn(r, c, k) ==
    /\ present' = present \cup {k}
    /\ setCookie' = [setCookie EXCEPT ![r] = k]
    /\ \/ /\ Reusable(r, c)
          /\ k = carried[r]
          /\ slot' = [slot EXCEPT ![k] = Merge(Base(r), c)]
          /\ UNCHANGED drawn
       \/ /\ ~Reusable(r, c)
          /\ k \notin drawn
          /\ drawn' = drawn \cup {k}
          /\ slot' = [slot EXCEPT ![k] = [c EXCEPT !.id = NoId, !.error = FALSE,
                                                   !.tos = FALSE]]

(* What a Set has read is not looked at after it. *)
PutAside(r) ==
    /\ base' = [base EXCEPT ![r] = Blank]
    /\ found' = [found EXCEPT ![r] = FALSE]

(* The response is sent, and the slot of the request is free again.        *)
Finish(r, jar) ==
    /\ Goto(r, "idle")
    /\ cookie' = IF jar = Keep THEN cookie ELSE jar
    /\ carried' = [carried EXCEPT ![r] = NoSlot]
    /\ at' = [at EXCEPT ![r] = NoSlot]
    /\ cor' = [cor EXCEPT ![r] = Blank]
    /\ base' = [base EXCEPT ![r] = Blank]
    /\ found' = [found EXCEPT ![r] = FALSE]
    /\ sid' = [sid EXCEPT ![r] = NoId]
    /\ accepted' = [accepted EXCEPT ![r] = FALSE]
    /\ failed' = [failed EXCEPT ![r] = FALSE]
    /\ setCookie' = [setCookie EXCEPT ![r] = Keep]

-----------------------------------------------------------------------------
Init ==
    /\ cookie = NoSlot
    /\ drawn = {} /\ present = {} /\ live = {} /\ owing = {} /\ answers = {}
    /\ slot = [k \in Slots |-> Blank]
    /\ begunFor = [s \in SessionIds |-> Blank.flow]
    /\ pc = [r \in Requests |-> "idle"]
    /\ carried = [r \in Requests |-> NoSlot]
    /\ at = [r \in Requests |-> NoSlot]
    /\ cor = [r \in Requests |-> Blank]
    /\ base = [r \in Requests |-> Blank]
    /\ found = [r \in Requests |-> FALSE]
    /\ sid = [r \in Requests |-> NoId]
    /\ accepted = [r \in Requests |-> FALSE]
    /\ failed = [r \in Requests |-> FALSE]
    /\ setCookie = [r \in Requests |-> Keep]
    /\ outcome = [s \in SessionIds |-> "open"]

-----------------------------------------------------------------------------
(* authorize: the requested correlation is Set, then the provider asked.   *)

Authorize(r, f) ==
    /\ pc[r] = "idle"
    /\ f \notin drawn
    /\ drawn' = drawn \cup {f}
    /\ carried' = [carried EXCEPT ![r] = cookie]
    /\ cor' = [cor EXCEPT ![r] = NewCorrelation(f)]
    /\ ReadSlot(r, cookie)
    /\ Goto(r, "authorize_set")
    /\ UNCHANGED <<cookie, present, slot, live, begunFor, owing, at, sid,
                   accepted, failed, setCookie, outcome, answers>>

AuthorizeSet(r) ==
    /\ pc[r] = "authorize_set"
    /\ \/ \E k \in Slots :
             /\ StoreIn(r, cor[r], k)
             /\ at' = [at EXCEPT ![r] = k]
             /\ cor' = [cor EXCEPT ![r] = IF SharesPointers THEN Blank ELSE slot'[k]]
             /\ PutAside(r)
             /\ Goto(r, "authorize")
             /\ UNCHANGED <<cookie, carried, sid, accepted, failed>>
       \/ /\ CacheMayFail
          /\ Finish(r, Keep)
          /\ UNCHANGED <<drawn, present, slot>>
    /\ UNCHANGED <<live, begunFor, owing, outcome, answers>>

(* The response is a redirect to the provider, or an error page. Neither   *)
(* kind of provider returns an error.                                      *)
SendToProvider(r) == Finish(r, setCookie[r])

(* A correlation that has a session by now is redirected at once; else the *)
(* browser is sent to the provider.                                        *)
ProviderAuthorize(r) ==
    /\ pc[r] = "authorize"
    /\ IF View(r).id # NoId
       THEN /\ Goto(r, "redirect")
            /\ UNCHANGED <<cookie, carried, at, cor, base, found, sid,
                           accepted, failed, setCookie>>
       ELSE SendToProvider(r)
    /\ UNCHANGED <<drawn, present, slot, live, begunFor, owing, outcome,
                   answers>>

-----------------------------------------------------------------------------
(* callback and oidcLogoutCallback: the correlation is read by cookie; one *)
(* that has a session already is redirected. A callback with an error      *)
(* parameter, or for an unknown provider, is redirected with an error.     *)

Arrive(r) ==
    /\ pc[r] = "idle"
    /\ cookie \in present
    /\ carried' = [carried EXCEPT ![r] = cookie]
    /\ at' = [at EXCEPT ![r] = cookie]

Callback(r) ==
    /\ Arrive(r)
    /\ LET c == slot[cookie]
       IN  \/ /\ Goto(r, IF c.id # NoId THEN "redirect" ELSE "draw")
              /\ cor' = [cor EXCEPT ![r] = IF SharesPointers THEN Blank ELSE c]
              /\ UNCHANGED slot
           \/ /\ c.id = NoId
              /\ Goto(r, "redirect")
              /\ cor' = [cor EXCEPT ![r] = IF SharesPointers THEN Blank
                                           ELSE WithError(c)]
              /\ slot' = IF SharesPointers
                         THEN [slot EXCEPT ![cookie] = WithError(c)] ELSE slot
    /\ UNCHANGED <<cookie, drawn, present, live, begunFor, owing, base, found,
                   sid, accepted, failed, setCookie, outcome, answers>>

(* Mutant of LogoutCallback: the session id is not looked at. *)
LogoutCallbackUnchecked(r) ==
    /\ Arrive(r)
    /\ Goto(r, "redirect")
    /\ cor' = [cor EXCEPT ![r] = IF SharesPointers THEN Blank ELSE slot[cookie]]
    /\ UNCHANGED <<cookie, drawn, present, slot, live, begunFor, owing, base,
                   found, sid, accepted, failed, setCookie, outcome,
                   answers>>

LogoutCallback(r) ==
    /\ Arrive(r)
    /\ slot[cookie].id # NoId
    /\ Goto(r, "redirect")
    /\ cor' = [cor EXCEPT ![r] = IF SharesPointers THEN Blank ELSE slot[cookie]]
    /\ UNCHANGED <<cookie, drawn, present, slot, live, begunFor, owing, base,
                   found, sid, accepted, failed, setCookie, outcome, answers>>

DrawSessionId(r) ==
    /\ pc[r] = "draw"
    /\ \E s \in SessionIds \ drawn :
          /\ drawn' = drawn \cup {s}
          /\ begunFor' = [begunFor EXCEPT ![s] = View(r).flow]
          /\ Write(r, [View(r) EXCEPT !.id = s])
    /\ Goto(r, "exchange")
    /\ UNCHANGED <<cookie, present, live, owing, carried, at, base, found, sid,
                   accepted, failed, setCookie, outcome, answers>>

(* The response is not one of the provider, or for another client.         *)
ProviderRefuses(r) ==
    /\ Write(r, WithError(View(r)))
    /\ Goto(r, "redirect")

(* The script maps the claims to a user, or denies it or fails. *)
MapClaims(r) ==
    \/ Goto(r, "ask") /\ UNCHANGED <<slot, cor>>
    \/ Goto(r, "redirect") /\ Write(r, WithError(View(r)))

(* The provider exchanges the code for an identity token. *)
ProviderCallback(r) ==
    /\ pc[r] = "exchange"
    /\ ProviderRefuses(r) \/ MapClaims(r)
    /\ UNCHANGED <<cookie, drawn, present, live, begunFor, owing, carried, at,
                   base, found, sid, accepted, failed, setCookie, outcome,
                   answers>>

(* The authorizer knows the user, and whether the terms are accepted where *)
(* that matters, or answers an error.                                      *)
GetUserData(r) ==
    /\ pc[r] = "ask"
    /\ \/ /\ Write(r, WithError(View(r)))
          /\ Goto(r, "redirect")
          /\ UNCHANGED <<sid, accepted>>
       \/ /\ accepted' \in {[accepted EXCEPT ![r] = b] :
                              b \in {TRUE, ~RequiresTOS}}
          /\ sid' = [sid EXCEPT ![r] = View(r).id]
          /\ Goto(r, "set_read")
          /\ UNCHANGED <<slot, cor>>
    /\ UNCHANGED <<cookie, drawn, present, live, begunFor, owing, carried, at,
                   base, found, failed, setCookie, outcome, answers>>

-----------------------------------------------------------------------------
(* handleUserData, from here on: the correlation is Set, the session       *)
(* Created, the correlation Set once more if the terms are due, and the    *)
(* login audited. A Set that fails ends it without an error code.          *)

SetRead(r) ==
    /\ pc[r] \in {"set_read", "tos_read"}
    /\ ReadSlot(r, carried[r])
    /\ Goto(r, IF pc[r] = "set_read" THEN "set" ELSE "tos_set")
    /\ UNCHANGED <<cookie, drawn, present, slot, live, begunFor, owing, carried,
                   at, cor, sid, accepted, failed, setCookie, outcome, answers>>

Set(r) ==
    /\ pc[r] \in {"set", "tos_set"}
    /\ \/ /\ \E k \in Slots : StoreIn(r, View(r), k)
          /\ Goto(r, IF pc[r] = "set" THEN "create" ELSE "audit")
          /\ UNCHANGED outcome
       \/ /\ CacheMayFail
          /\ Goto(r, "redirect")
          /\ Conclude(sid[r], "failed")
          /\ UNCHANGED <<drawn, present, slot, setCookie>>
    /\ PutAside(r)
    /\ UNCHANGED <<cookie, live, begunFor, owing, carried, at, cor, sid,
                   accepted, failed, answers>>

(* A session without an id gets a new one. *)
NewSessionIds(r) == IF sid[r] # NoId THEN {sid[r]} ELSE SessionIds \ drawn

(* A failure, which may be no more than a lost answer, is remembered, and  *)
(* the login undone after its audit event.                                 *)
CreateSession(r) ==
    /\ pc[r] = "create"
    /\ \E s \in NewSessionIds(r) :
          /\ drawn' = drawn \cup {s}
          /\ sid' = [sid EXCEPT ![r] = s]
          /\ begunFor' = IF sid[r] # NoId THEN begunFor
                         ELSE [begunFor EXCEPT ![s] = View(r).flow]
          /\ \/ live' = live \cup {s}
             \/ StoreMayFail /\ UNCHANGED live
          /\ \/ s \in live' /\ UNCHANGED failed
             \/ StoreMayFail /\ failed' = [failed EXCEPT ![r] = TRUE]
          /\ IF RequiresTOS /\ ~accepted[r]
             THEN owing' = owing \cup {s} /\ Goto(r, "terms")
             ELSE UNCHANGED owing /\ Goto(r, "audit")
    /\ UNCHANGED <<cookie, present, slot, carried, at, cor, base, found,
                   accepted, setCookie, outcome, answers>>

(* The terms page lies next to the redirect URI. From one that is no URL   *)
(* it cannot be made: that ends handleUserData, with the session created,  *)
(* no audit event, nothing undone and no error code.                       *)
BuildTOSRedirect(r) ==
    /\ pc[r] = "terms"
    /\ IF View(r).flow \in Unparsable
       THEN /\ Conclude(sid[r], "failed")
            /\ Goto(r, "redirect")
            /\ UNCHANGED <<slot, cor>>
       ELSE /\ Write(r, WithTOSTarget(View(r)))
            /\ Goto(r, "tos_read")
            /\ UNCHANGED outcome
    /\ UNCHANGED <<cookie, drawn, present, live, begunFor, owing, carried, at,
                   base, found, sid, accepted, failed, setCookie, answers>>

(* SaveEvent: the event is in the log if the service took it. The caller   *)
(* sees an error also when only the service's answer is lost.              *)
SaveEvent(r) ==
    \/ /\ Goto(r, IF failed[r] THEN "undo" ELSE "done")
       /\ IF failed[r] THEN UNCHANGED outcome ELSE Conclude(sid[r], "audited")
    \/ /\ AuditMayFail
       /\ Goto(r, "undo")
       /\ \/ UNCHANGED outcome
          \/ ~failed[r] /\ Conclude(sid[r], "audited")

(* Mutant of Audit: what the audit service says is not looked at. *)
AuditRegardless(r) ==
    /\ pc[r] = "audit"
    /\ Goto(r, IF failed[r] THEN "undo" ELSE "done")
    /\ \/ UNCHANGED outcome
       \/ ~failed[r] /\ Conclude(sid[r], "audited")
    /\ UNCHANGED <<cookie, drawn, present, slot, live, begunFor, owing, carried,
                   at, cor, base, found, sid, accepted, failed, setCookie,
                   answers>>

(* A login that was not stored or cannot be audited is taken back.         *)
Audit(r) ==
    /\ pc[r] = "audit"
    /\ SaveEvent(r)
    /\ UNCHANGED <<cookie, drawn, present, slot, live, begunFor, owing, carried,
                   at, cor, base, found, sid, accepted, failed, setCookie,
                   answers>>

(* Mutant of Undo: the caller is not told. *)
UndoSilently(r) ==
    /\ pc[r] = "undo"
    /\ live' = live \ {sid[r]}
    /\ Conclude(sid[r], "failed")
    /\ Goto(r, "redirect")
    /\ UNCHANGED <<cookie, drawn, present, slot, begunFor, owing, carried, at,
                   cor, base, found, sid, accepted, failed, setCookie,
                   answers>>

(* Mutant of Undo: the session stays. *)
UndoNothing(r) ==
    /\ pc[r] = "undo"
    /\ Write(r, WithError(View(r)))
    /\ Goto(r, "redirect")
    /\ Conclude(sid[r], "failed")
    /\ UNCHANGED <<cookie, drawn, present, live, begunFor, owing, carried, at,
                   base, found, sid, accepted, failed, setCookie, answers>>

Undo(r) ==
    /\ pc[r] = "undo"
    /\ \/ live' = live \ {sid[r]}
       \/ StoreMayFail /\ live' = live
    /\ Conclude(sid[r], "failed")
    /\ Write(r, WithError(View(r)))
    /\ Goto(r, "redirect")
    /\ UNCHANGED <<cookie, drawn, present, begunFor, owing, carried, at, base,
                   found, sid, accepted, failed, setCookie, answers>>

(* The browser is sent to the provider's sign-out, or to the caller. A     *)
(* provider that has no sign-out URL to offer answers an error instead,    *)
(* which leaves everything as the redirect does.                           *)
LoggedIn(r) ==
    /\ pc[r] = "done"
    /\ IF SignsOut
       THEN Finish(r, setCookie[r])
       ELSE /\ Goto(r, "redirect")
            /\ UNCHANGED <<cookie, carried, at, cor, base, found, sid,
                           accepted, failed, setCookie>>
    /\ UNCHANGED <<drawn, present, slot, live, begunFor, owing, outcome,
                   answers>>

-----------------------------------------------------------------------------
(* RedirectToCaller: the answer, with a code for the session or an error,  *)
(* then the correlation and the cookie are deleted. A destination that is  *)
(* no URL, or a code that cannot be generated, ends it before that; only   *)
(* the callback of an unknown provider, which has no session, deletes the  *)
(* correlation also then.                                                  *)

Redirect(r) ==
    /\ pc[r] = "redirect"
    /\ \/ /\ \/ /\ Reachable(View(r))
                /\ answers' = answers \cup
                      {[flow |-> View(r).flow, id |-> View(r).id,
                        error |-> View(r).error, tos |-> View(r).tos]}
             \/ /\ ~Reachable(View(r)) /\ View(r).error /\ View(r).id = NoId
                /\ UNCHANGED answers
          /\ Goto(r, "forget")
          /\ UNCHANGED <<cookie, carried, at, cor, base, found, sid, accepted,
                         failed, setCookie>>
       \/ /\ ~Reachable(View(r)) \/ (CacheMayFail /\ ~View(r).error)
          /\ Finish(r, setCookie[r])
          /\ UNCHANGED answers
    /\ UNCHANGED <<drawn, present, slot, live, begunFor, owing, outcome>>

(* Mutant of Forget: correlation and cookie are left to lapse. *)
ForgetNothing(r) ==
    /\ pc[r] = "forget"
    /\ Finish(r, setCookie[r])
    /\ UNCHANGED <<drawn, present, slot, live, begunFor, owing, outcome,
                   answers>>

Forget(r) ==
    /\ pc[r] = "forget"
    /\ \/ present' = present \ {carried[r]}
          /\ Finish(r, IF carried[r] = NoSlot THEN setCookie[r] ELSE NoSlot)
       \/ CacheMayFail /\ UNCHANGED present /\ Finish(r, setCookie[r])
    /\ UNCHANGED <<drawn, slot, live, begunFor, owing, outcome, answers>>

(* The cache drops a correlation twenty minutes after it was set. *)
Lapse(k) ==
    /\ k \in present
    /\ present' = present \ {k}
    /\ UNCHANGED <<cookie, drawn, slot, live, begunFor, owing, requestVars,
                   outcome, answers>>

-----------------------------------------------------------------------------
(* A process stops with the requests R it was handling, and another takes  *)
(* its place: all of them where what it holds in memory is the cache. A    *)
(* store that cannot fail is in that memory too.                           *)
InFlight == {r \in Requests : pc[r] # "idle"}

Reset(f, R, v) == [r \in Requests |-> IF r \in R THEN v ELSE f[r]]

InMemoryStore == SharesPointers /\ ~StoreMayFail

(* The logins that end with the process. *)
LostWith(R) ==
    {s \in SessionIds : \E r \in R : sid[r] = s /\ pc[r] \in LoggingIn}
        \cup (IF InMemoryStore THEN live ELSE {})

Crash(R) ==
    /\ MayCrash
    /\ SharesPointers => R = InFlight
    /\ pc' = Reset(pc, R, "idle")
    /\ carried' = Reset(carried, R, NoSlot)
    /\ at' = Reset(at, R, NoSlot)
    /\ cor' = Reset(cor, R, Blank)
    /\ base' = Reset(base, R, Blank)
    /\ found' = Reset(found, R, FALSE)
    /\ sid' = Reset(sid, R, NoId)
    /\ accepted' = Reset(accepted, R, FALSE)
    /\ failed' = Reset(failed, R, FALSE)
    /\ setCookie' = Reset(setCookie, R, Keep)
    /\ present' = IF SharesPointers THEN {} ELSE present
    /\ live' = IF InMemoryStore THEN {} ELSE live
    /\ outcome' = [s \in SessionIds |->
                      IF s \in LostWith(R) THEN "lost" ELSE outcome[s]]
    /\ UNCHANGED <<cookie, drawn, slot, begunFor, owing, answers>>

-----------------------------------------------------------------------------
Proceed(r) ==
    \/ AuthorizeSet(r) \/ ProviderAuthorize(r)
    \/ DrawSessionId(r) \/ ProviderCallback(r) \/ GetUserData(r)
    \/ SetRead(r) \/ Set(r)
    \/ CreateSession(r) \/ BuildTOSRedirect(r)
    \/ Audit(r) \/ Undo(r) \/ LoggedIn(r)
    \/ Redirect(r) \/ Forget(r)

Next ==
    \/ \E r \in Requests, f \in Flows : Authorize(r, f)
    \/ \E r \in Requests : Callback(r) \/ LogoutCallback(r) \/ Proceed(r)
    \/ \E k \in Slots : Lapse(k)
    \/ \E R \in SUBSET InFlight : Crash(R)

Spec == Init /\ [][Next]_vars

-----------------------------------------------------------------------------
TypeOK ==
    /\ cookie \in Slots \cup {NoSlot}
    /\ drawn \subseteq Slots \cup Flows \cup SessionIds
    /\ present \subseteq Slots
    /\ slot \in [Slots -> Correlation]
    /\ \A k \in Slots : slot[k].client = ClientOf[slot[k].flow]
    /\ live \subseteq SessionIds
    /\ begunFor \in [SessionIds -> Flows]
    /\ owing \subseteq SessionIds
    /\ pc \in [Requests -> Steps]
    /\ carried \in [Requests -> Slots \cup {NoSlot}]
    /\ at \in [Requests -> Slots \cup {NoSlot}]
    /\ cor \in [Requests -> Correlation]
    /\ base \in [Requests -> Correlation]
    /\ found \in [Requests -> BOOLEAN]
    /\ sid \in [Requests -> SessionIds \cup {NoId}]
    /\ accepted \in [Requests -> BOOLEAN]
    /\ failed \in [Requests -> BOOLEAN]
    /\ setCookie \in [Requests -> Slots \cup {NoSlot, Keep}]
    /\ outcome \in [SessionIds -> Outcomes]
    /\ answers \subseteq Answer

(* A code never reaches another client than the one whose /authorize the   *)
(* login began with, however the requests of the browser overlap, also     *)
(* when they reuse one cookie for both clients: Set starts a new slot for  *)
(* a new client, and no other step moves an id between slots.              *)
ClientIsolation ==
    \A a \in answers : ~a.error /\ a.id # NoId
        => ClientOf[begunFor[a.id]] = ClientOf[a.flow]

(* From a cache of copies no overlap of requests gives a caller an empty   *)
(* code: only a correlation with a session or an error is redirected.      *)
NoEmptyCode ==
    ~SharesPointers => \A a \in answers : a.error \/ a.id # NoId

(* "the abandoned flow cannot bleed its State, Nonce, PKCE or partial      *)
(* session into the new one": the session in a slot was begun by the flow  *)
(* the slot is for. True of the in-memory cache, where the callback of the *)
(* abandoned flow finds its own session id reset.                          *)
NoBleed ==
    \A k \in present :
        slot[k].id # NoId => begunFor[slot[k].id] = slot[k].flow

Ended(O) == {s \in SessionIds : outcome[s] \in O}

(* From a cache of copies a code is for a session that is there, unless    *)
(* its login is still on its way, in the other tab, or came to grief after *)
(* the correlation was told of it: there handleUserData gave up and the    *)
(* caller was told nothing, or the process stopped.                        *)
CodeAccountedFor ==
    ~SharesPointers => \A a \in answers : ~a.error =>
        \/ a.id \in live
        \/ \E r \in Requests : sid[r] = a.id /\ pc[r] \in LoggingIn
        \/ a.id \in Ended({"failed", "lost"})

(* Seen from the clients, it is one login after the other, whatever the    *)
(* tabs, the failures and the crashes in between.                          *)
Told(a) == [flow |-> a.flow, id |-> a.id, error |-> a.error]

Promise == INSTANCE LoginPromise WITH
    begun <- drawn \cap Flows,
    identified <- drawn \cap SessionIds,
    loginOf <- begunFor,
    givenUp <- Ended({"failed", "lost"}),
    answered <- {Told(a) : a \in answers}

ImplementsPromise == Promise!Spec

(* The user owes the terms, and the redirect URI, of this flow or of one   *)
(* of the same client that shares its cookie, is no URL to make the terms  *)
(* page from.                                                              *)
NoTermsPage(s) ==
    /\ s \in owing \cap Ended({"failed"})
    /\ \E f \in Unparsable \cap drawn : ClientOf[f] = ClientOf[begunFor[s]]

(* Where caches and store answer, a session nobody is still working on is  *)
(* one the audit log knows of: a login the audit did not take is undone.   *)
(* There is one way around it, where no terms page can be made.            *)
AuditedLogins ==
    \A s \in live :
        \/ outcome[s] = "audited"
        \/ \E r \in Requests : sid[r] = s /\ pc[r] \in LoggingIn
        \/ NoTermsPage(s)

(* What follows is about requests that do not overlap.                     *)

(* A code is answered for a session that exists, or did until the process  *)
(* stopped.                                                                *)
CodeNamesSession ==
    \A a \in answers : ~a.error => a.id \in live \cup Ended({"lost"})

(* A login answered with an error leaves no session behind. Over copies    *)
(* that is so however requests overlap, if the session store answers.      *)
FailedLoginLeavesNothing == \A a \in answers : a.error => a.id \notin live

(* A flow is answered with a code once, by the callback or, where the      *)
(* provider signs out first, by its logout callback: the correlation is    *)
(* gone then, and the cookie with it.                                      *)
AnsweredOnce ==
    [][\A r \in Requests :
          pc[r] = "redirect" /\ pc'[r] = "forget" /\ ~View(r).error =>
              \A a \in answers : a.flow = View(r).flow => a.error]_vars

(* "TOSTargetURI is the computed TOS redirect URI, used for redirecting to *)
(* TOS page if required": a user who owes an acceptance is sent there.     *)
TermsRedirect ==
    \A a \in answers : ~a.error /\ a.id \in owing => a.tos
=============================================================================
