------------------------- MODULE LoginPromiseProofs -------------------------
(***************************************************************************)
(* What the clients are told, where the cache holds copies: any number of  *)
(* requests overlap, and the caches, the store, the audit service and the  *)
(* processes all may fail.                                                 *)
(***************************************************************************)
EXTENDS LoginFlowProofs

LEMMA NoIdNotLive == Inv => NoId \notin live
BY LoginFlowAssumption DEF Inv, Typed

(* The steps between the draw of a session id and the end of its login.    *)
Pending == {"exchange", "ask"} \cup LoggingIn

(* What one request does leaves the others' copies alone. *)
Step(r) ==
    \/ \E f \in Flows : Authorize(r, f)
    \/ Callback(r) \/ LogoutCallback(r)
    \/ Proceed(r)

LEMMA OthersKept ==
    ASSUME ~SharesPointers, Inv, NEW r \in Requests, Step(r),
           NEW q \in Requests \ {r}
    PROVE  /\ pc'[q] = pc[q] /\ cor'[q] = cor[q] /\ base'[q] = base[q]
           /\ found'[q] = found[q] /\ sid'[q] = sid[q]
           /\ failed'[q] = failed[q]
<1> USE DEF Goto, Write, Finish, ReadSlot, PutAside, Arrive, Inv, Typed, Records
<1>1. CASE (\E f \in Flows : Authorize(r, f)) \/ Callback(r) \/ LogoutCallback(r)
  BY <1>1 DEF Authorize, Callback, LogoutCallback
<1>2. CASE AuthorizeSet(r) \/ ProviderAuthorize(r)
  BY <1>2 DEF AuthorizeSet, ProviderAuthorize, SendToProvider
<1>3. CASE DrawSessionId(r) \/ ProviderCallback(r) \/ GetUserData(r)
  BY <1>3 DEF DrawSessionId, ProviderCallback, ProviderRefuses, MapClaims,
              GetUserData
<1>4. CASE SetRead(r) \/ Set(r)
  BY <1>4 DEF SetRead, Set
<1>5. CASE CreateSession(r) \/ BuildTOSRedirect(r)
  BY <1>5 DEF CreateSession, BuildTOSRedirect
<1>6. CASE Audit(r) \/ Undo(r) \/ LoggedIn(r)
  BY <1>6 DEF Audit, SaveEvent, Undo, LoggedIn
<1>7. CASE Redirect(r) \/ Forget(r)
  BY <1>7 DEF Redirect, Forget
<1> QED
  BY <1>1, <1>2, <1>3, <1>4, <1>5, <1>6, <1>7 DEF Step, Proceed

-----------------------------------------------------------------------------
(* What a step of a request does, over a cache of copies: where it goes,   *)
(* the correlation it holds then, and what it leaves for others to see.    *)
Holds(r, step, c) == pc'[r] = step /\ cor'[r] = c

SameBase(r) == base'[r] = base[r] /\ found'[r] = found[r]

Over(r) == Holds(r, "idle", Blank) /\ base'[r] = Blank /\ ~found'[r]

storeVars == <<live, outcome, begunFor, answers>>
cacheVars == <<drawn, present, slot>>

LEMMA OwnCopy ==
    ASSUME ~SharesPointers, Inv, NEW r \in Requests
    PROVE  /\ View(r) = cor[r] /\ cor[r] \in Matched
           /\ \A c : Write(r, c) => cor'[r] = c /\ slot' = slot
           /\ \A step : Goto(r, step) => pc'[r] = step
           /\ UNCHANGED cor => cor'[r] = cor[r]
           /\ UNCHANGED sid => sid'[r] = sid[r]
           /\ UNCHANGED failed => failed'[r] = failed[r]
           /\ UNCHANGED <<base, found>> => SameBase(r)
           /\ PutAside(r) => base'[r] = Blank /\ ~found'[r]
           /\ \A jar : Finish(r, jar) => Over(r)
<1>1. View(r) = cor[r] /\ cor[r] \in Matched
  BY DEF View, Inv, Records
<1>2. /\ \A c : Write(r, c) => cor'[r] = c /\ slot' = slot
      /\ \A step : Goto(r, step) => pc'[r] = step
  BY DEF Write, Goto, Inv, Typed, Records
<1>3. PutAside(r) => base'[r] = Blank /\ ~found'[r]
  BY DEF PutAside, Inv, Typed, Records
<1>4. \A jar : Finish(r, jar) => Over(r)
  BY <1>2 DEF Finish, Over, Holds, Inv, Typed, Records
<1> QED
  BY <1>1, <1>2, <1>3, <1>4 DEF SameBase

LEMMA Marked ==
    ASSUME NEW c \in Matched
    PROVE  /\ WithError(c).error /\ WithError(c).id = c.id
           /\ WithError(c).flow = c.flow
           /\ WithTOSTarget(c).error = c.error /\ WithTOSTarget(c).id = c.id
           /\ WithTOSTarget(c).flow = c.flow
           /\ \A s \in SessionIds : /\ [c EXCEPT !.id = s].id = s
                                   /\ [c EXCEPT !.id = s].flow = c.flow
                                   /\ [c EXCEPT !.id = s].error = c.error
BY DEF WithError, WithTOSTarget, Matched, Correlation

LEMMA AuthorizeDoes ==
    ASSUME ~SharesPointers, Inv, NEW r \in Requests, NEW f \in Flows,
           Authorize(r, f)
    PROVE  /\ Holds(r, "authorize_set", NewCorrelation(f))
           /\ pc[r] = "idle" /\ f \notin drawn /\ drawn' = drawn \cup {f}
           /\ found'[r] => cookie \in present /\ base'[r] = slot[cookie]
           /\ base'[r] = base[r] \/ (cookie \in present /\ base'[r] = slot[cookie])
           /\ UNCHANGED <<present, slot>> /\ UNCHANGED storeVars
<1>1. Holds(r, "authorize_set", NewCorrelation(f))
  BY OwnCopy DEF Authorize, Holds, Inv, Records
<1>2. /\ found'[r] => cookie \in present /\ base'[r] = slot[cookie]
      /\ base'[r] = base[r] \/ (cookie \in present /\ base'[r] = slot[cookie])
  BY DEF Authorize, ReadSlot, Inv, Typed, Records
<1> QED
  BY <1>1, <1>2 DEF Authorize, storeVars

LEMMA AuthorizeSetDoes ==
    ASSUME ~SharesPointers, Inv, NEW r \in Requests, AuthorizeSet(r)
    PROVE  /\ \/ \E k \in Slots :
                    /\ StoreIn(r, cor[r], k)
                    /\ Holds(r, "authorize", slot'[k])
                    /\ base'[r] = Blank /\ ~found'[r]
              \/ Over(r) /\ UNCHANGED cacheVars
           /\ pc[r] = "authorize_set"
           /\ UNCHANGED storeVars
<1>1. ASSUME NEW k \in Slots,
             cor' = [cor EXCEPT ![r] = IF SharesPointers THEN Blank ELSE slot'[k]]
      PROVE  cor'[r] = slot'[k]
  BY <1>1 DEF Inv, Records
<1> QED
  BY <1>1, OwnCopy DEF AuthorizeSet, Holds, storeVars, cacheVars

LEMMA ProviderAuthorizeDoes ==
    ASSUME ~SharesPointers, Inv, NEW r \in Requests, ProviderAuthorize(r)
    PROVE  /\ \/ cor[r].id # NoId /\ Holds(r, "redirect", cor[r]) /\ SameBase(r)
              \/ Over(r)
           /\ pc[r] = "authorize"
           /\ UNCHANGED cacheVars /\ UNCHANGED storeVars
BY OwnCopy DEF ProviderAuthorize, SendToProvider, Holds, storeVars, cacheVars

LEMMA CallbackDoes ==
    ASSUME ~SharesPointers, Inv, NEW r \in Requests,
           Callback(r) \/ LogoutCallback(r)
    PROVE  /\ \/ slot[cookie].id # NoId /\ Holds(r, "redirect", slot[cookie])
              \/ slot[cookie].id = NoId /\ Holds(r, "draw", slot[cookie])
              \/ slot[cookie].id = NoId /\ Holds(r, "redirect", WithError(slot[cookie]))
           /\ pc[r] = "idle"
           /\ cookie \in present /\ cookie \in Slots /\ slot[cookie] \in Matched
           /\ SameBase(r)
           /\ UNCHANGED cacheVars /\ UNCHANGED storeVars
<1>1. cookie \in present /\ cookie \in Slots /\ slot[cookie] \in Matched
  BY DEF Callback, LogoutCallback, Arrive, Inv, Typed, Records
<1>2. SameBase(r) /\ UNCHANGED cacheVars /\ UNCHANGED storeVars
  BY OwnCopy DEF Callback, LogoutCallback, cacheVars, storeVars
<1>3. \A c : cor' = [cor EXCEPT ![r] = IF SharesPointers THEN Blank ELSE c]
                => cor'[r] = c
  BY DEF Inv, Records
<1> QED
  BY <1>1, <1>2, <1>3, OwnCopy DEF Callback, LogoutCallback, Arrive, Holds

LEMMA DrawSessionIdDoes ==
    ASSUME ~SharesPointers, Inv, NEW r \in Requests, DrawSessionId(r)
    PROVE  /\ \E s \in SessionIds \ drawn :
                 /\ cor'[r].id = s /\ cor'[r].flow = cor[r].flow
                 /\ cor'[r].error = cor[r].error
                 /\ drawn' = drawn \cup {s}
                 /\ begunFor' = [begunFor EXCEPT ![s] = cor[r].flow]
           /\ pc[r] = "draw" /\ pc'[r] = "exchange" /\ SameBase(r)
           /\ UNCHANGED <<present, slot, live, outcome, answers>>
<1>1. PICK s \in SessionIds \ drawn :
         /\ cor'[r] = [cor[r] EXCEPT !.id = s]
         /\ drawn' = drawn \cup {s}
         /\ begunFor' = [begunFor EXCEPT ![s] = cor[r].flow]
         /\ UNCHANGED slot
  BY OwnCopy DEF DrawSessionId
<1>2. /\ cor'[r].id = s /\ cor'[r].flow = cor[r].flow
      /\ cor'[r].error = cor[r].error
  BY <1>1, OwnCopy, Marked
<1> QED
  BY <1>1, <1>2, OwnCopy DEF DrawSessionId

LEMMA ProviderCallbackDoes ==
    ASSUME ~SharesPointers, Inv, NEW r \in Requests, ProviderCallback(r)
    PROVE  /\ \/ Holds(r, "redirect", WithError(cor[r]))
              \/ Holds(r, "ask", cor[r])
           /\ pc[r] = "exchange" /\ SameBase(r)
           /\ UNCHANGED cacheVars /\ UNCHANGED storeVars
BY OwnCopy DEF ProviderCallback, ProviderRefuses, MapClaims, Holds, cacheVars,
               storeVars

LEMMA GetUserDataDoes ==
    ASSUME ~SharesPointers, Inv, NEW r \in Requests, GetUserData(r)
    PROVE  /\ \/ Holds(r, "redirect", WithError(cor[r]))
              \/ Holds(r, "set_read", cor[r]) /\ sid'[r] = cor[r].id
           /\ pc[r] = "ask" /\ SameBase(r)
           /\ UNCHANGED cacheVars /\ UNCHANGED storeVars
<1>1. sid' = [sid EXCEPT ![r] = View(r).id] => sid'[r] = cor[r].id
  BY OwnCopy DEF Inv, Typed
<1> QED
  BY <1>1, OwnCopy DEF GetUserData, Holds, cacheVars, storeVars

LEMMA SetReadDoes ==
    ASSUME ~SharesPointers, Inv, NEW r \in Requests, SetRead(r)
    PROVE  /\ \/ pc[r] = "set_read" /\ Holds(r, "set", cor[r])
              \/ pc[r] = "tos_read" /\ Holds(r, "tos_set", cor[r])
           /\ found'[r] => carried[r] \in present /\ base'[r] = slot[carried[r]]
           /\ \/ base'[r] = base[r]
              \/ carried[r] \in present /\ base'[r] = slot[carried[r]]
           /\ sid'[r] = sid[r] /\ failed'[r] = failed[r]
           /\ UNCHANGED cacheVars /\ UNCHANGED storeVars
<1>1. /\ found'[r] => carried[r] \in present /\ base'[r] = slot[carried[r]]
      /\ \/ base'[r] = base[r]
         \/ carried[r] \in present /\ base'[r] = slot[carried[r]]
  BY DEF SetRead, ReadSlot, Inv, Typed, Records
<1> QED
  BY <1>1, OwnCopy DEF SetRead, Holds, cacheVars, storeVars

LEMMA SetDoes ==
    ASSUME ~SharesPointers, Inv, NEW r \in Requests, Set(r)
    PROVE  /\ \/ /\ \E k \in Slots : StoreIn(r, cor[r], k)
                 /\ \/ pc[r] = "set" /\ Holds(r, "create", cor[r])
                    \/ pc[r] = "tos_set" /\ Holds(r, "audit", cor[r])
                 /\ UNCHANGED outcome
              \/ /\ pc[r] \in {"set", "tos_set"} /\ Holds(r, "redirect", cor[r])
                 /\ Conclude(sid[r], "failed")
                 /\ UNCHANGED cacheVars
           /\ base'[r] = Blank /\ ~found'[r]
           /\ sid'[r] = sid[r] /\ failed'[r] = failed[r]
           /\ UNCHANGED <<live, begunFor, answers>>
BY OwnCopy DEF Set, Holds, cacheVars

(* A session that was given an id when the login began keeps it. *)
LEMMA CreateSessionDoes ==
    ASSUME ~SharesPointers, Inv, NEW r \in Requests, CreateSession(r),
           sid[r] # NoId
    PROVE  /\ \/ Holds(r, "terms", cor[r])
              \/ Holds(r, "audit", cor[r])
           /\ pc[r] = "create" /\ sid'[r] = sid[r] /\ sid[r] \in SessionIds
           /\ drawn' = drawn \cup {sid[r]}
           /\ live' = live \cup {sid[r]} \/ live' = live
           /\ sid[r] \in live' \/ failed'[r]
           /\ SameBase(r)
           /\ UNCHANGED <<present, slot, begunFor, outcome, answers>>
<1>1. NewSessionIds(r) = {sid[r]} /\ sid[r] \in SessionIds
  BY DEF NewSessionIds, Inv, Typed
<1>2. /\ sid' = [sid EXCEPT ![r] = sid[r]] => sid'[r] = sid[r]
      /\ failed' = [failed EXCEPT ![r] = TRUE] => failed'[r]
  BY DEF Inv, Typed
<1>3. \/ Holds(r, "terms", cor[r])
      \/ Holds(r, "audit", cor[r])
  BY OwnCopy DEF CreateSession, Holds
<1> QED
  BY <1>1, <1>2, <1>3, OwnCopy DEF CreateSession

LEMMA BuildTOSRedirectDoes ==
    ASSUME ~SharesPointers, Inv, NEW r \in Requests, BuildTOSRedirect(r)
    PROVE  /\ \/ /\ Holds(r, "tos_read", WithTOSTarget(cor[r]))
                 /\ UNCHANGED outcome
              \/ /\ Holds(r, "redirect", cor[r])
                 /\ Conclude(sid[r], "failed")
           /\ pc[r] = "terms" /\ SameBase(r)
           /\ sid'[r] = sid[r] /\ failed'[r] = failed[r]
           /\ UNCHANGED cacheVars /\ UNCHANGED <<live, begunFor, answers>>
BY OwnCopy DEF BuildTOSRedirect, Holds, cacheVars

LEMMA AuditDoes ==
    ASSUME ~SharesPointers, Inv, NEW r \in Requests, Audit(r)
    PROVE  /\ \/ Holds(r, "done", cor[r]) /\ ~failed[r]
              \/ Holds(r, "undo", cor[r])
           /\ UNCHANGED outcome \/ (~failed[r] /\ Conclude(sid[r], "audited"))
           /\ pc[r] = "audit" /\ sid'[r] = sid[r] /\ failed'[r] = failed[r]
           /\ SameBase(r)
           /\ UNCHANGED cacheVars /\ UNCHANGED <<live, begunFor, answers>>
BY OwnCopy DEF Audit, SaveEvent, Holds, cacheVars

LEMMA UndoDoes ==
    ASSUME ~SharesPointers, Inv, NEW r \in Requests, Undo(r)
    PROVE  /\ Holds(r, "redirect", WithError(cor[r]))
           /\ live' = live \ {sid[r]} \/ (StoreMayFail /\ live' = live)
           /\ Conclude(sid[r], "failed")
           /\ pc[r] = "undo" /\ SameBase(r)
           /\ UNCHANGED cacheVars /\ UNCHANGED <<begunFor, answers>>
BY OwnCopy DEF Undo, Holds, cacheVars

LEMMA LoggedInDoes ==
    ASSUME ~SharesPointers, Inv, NEW r \in Requests, LoggedIn(r)
    PROVE  /\ Over(r) \/ (Holds(r, "redirect", cor[r]) /\ SameBase(r))
           /\ pc[r] = "done"
           /\ UNCHANGED cacheVars /\ UNCHANGED storeVars
BY OwnCopy DEF LoggedIn, Holds, cacheVars, storeVars

LEMMA RedirectDoes ==
    ASSUME ~SharesPointers, Inv, NEW r \in Requests, Redirect(r)
    PROVE  /\ \/ /\ Holds(r, "forget", cor[r]) /\ SameBase(r)
                 /\ answers' = answers \cup
                      {[flow |-> cor[r].flow, id |-> cor[r].id,
                        error |-> cor[r].error, tos |-> cor[r].tos]}
              \/ /\ Holds(r, "forget", cor[r]) /\ SameBase(r)
                 /\ UNCHANGED answers
              \/ Over(r) /\ UNCHANGED answers
           /\ pc[r] = "redirect"
           /\ UNCHANGED cacheVars /\ UNCHANGED <<live, outcome, begunFor>>
BY OwnCopy DEF Redirect, Holds, cacheVars

LEMMA ForgetDoes ==
    ASSUME ~SharesPointers, Inv, NEW r \in Requests, Forget(r)
    PROVE  /\ Over(r) /\ pc[r] = "forget"
           /\ present' \subseteq present
           /\ UNCHANGED <<drawn, slot>> /\ UNCHANGED storeVars
BY OwnCopy DEF Forget, storeVars

(* A Set hands the id of its correlation over to the slot, or none; the    *)
(* flow of the slot stays, or is that of the correlation.                  *)
LEMMA StoreInDoes ==
    ASSUME ~SharesPointers, Inv, NEW r \in Requests, NEW k \in Slots,
           StoreIn(r, cor[r], k)
    PROVE  /\ slot'[k] \in Matched
           /\ slot'[k].id \in {NoId, cor[r].id}
           /\ slot'[k].error => cor[r].error
           /\ \/ slot'[k].flow = cor[r].flow
              \/ found[r] /\ slot'[k].flow = base[r].flow
           /\ \A j \in Slots \ {k} : slot'[j] = slot[j]
           /\ present' = present \cup {k}
           /\ drawn \subseteq drawn' /\ drawn' \subseteq drawn \cup {k}
<1>1. cor[r] \in Matched /\ base[r] \in Matched
  BY DEF Inv, Records
<1>2. CASE Reusable(r, cor[r])
  <2>1. Base(r) = base[r] /\ found[r] /\ base[r].client = cor[r].client
    BY <1>2 DEF Reusable, Base
  <2>2. /\ Merge(base[r], cor[r]) \in Matched
        /\ Merge(base[r], cor[r]).id = cor[r].id
        /\ Merge(base[r], cor[r]).error => cor[r].error
        /\ Merge(base[r], cor[r]).flow \in {cor[r].flow, base[r].flow}
    BY <1>1, <2>1, MergeIsMatched DEF Merge
  <2> QED
    BY <1>2, <2>1, <2>2 DEF StoreIn, Inv, Records
<1>3. CASE ~Reusable(r, cor[r])
  <2> DEFINE new == [cor[r] EXCEPT !.id = NoId, !.error = FALSE, !.tos = FALSE]
  <2>1. new \in Matched /\ new.id = NoId /\ new.flow = cor[r].flow /\ ~new.error
    BY <1>1, ClearedIsMatched DEF Matched, Correlation
  <2>2. /\ slot' = [slot EXCEPT ![k] = new]
        /\ drawn' = drawn \cup {k} /\ present' = present \cup {k}
    BY <1>3 DEF StoreIn
  <2> HIDE DEF new
  <2> QED
    BY <2>1, <2>2 DEF Inv, Records
<1> QED
  BY <1>2, <1>3

-----------------------------------------------------------------------------
(* The invariant of the requests. A request works on a copy of its own:    *)
(* the id it drew is there until it answers, it is the id of the session   *)
(* it creates, and only a correlation with an id or an error is answered.  *)
OwnLogin ==
    \A r \in Requests :
        /\ pc[r] \in Pending \cup {"done"} => cor[r].id # NoId
        /\ pc[r] \in LoggingIn => sid[r] = cor[r].id
        /\ pc[r] = "redirect" => cor[r].error \/ cor[r].id # NoId
        /\ pc[r] = "authorize_set" => cor[r].id = NoId

(* No two requests work on one login. *)
Distinct ==
    \A q, r \in Requests :
        q # r /\ pc[q] \in Pending /\ pc[r] \in Pending
            => cor[q].id # cor[r].id

(* Nothing is decided of a login a request works on, or of one not begun.  *)
Undecided ==
    /\ \A r \in Requests : pc[r] \in Pending =>
          cor[r].id \notin Ended({"failed", "lost"})
    /\ \A s \in SessionIds \ drawn : outcome[s] = "open"

(* A login that is audited has its session, or has been told it failed.    *)
Created ==
    \A r \in Requests :
        pc[r] \in {"terms", "tos_read", "tos_set", "audit"}
            => failed[r] \/ sid[r] \in live

LEMMA OwnLoginKept ==
    ASSUME ~SharesPointers, Inv, OwnLogin, NEW r \in Requests, Step(r)
    PROVE  OwnLogin'
<1> USE DEF LoggingIn, Pending, Holds, Over
<1>1. SUFFICES /\ pc'[r] \in Pending \cup {"done"} => cor'[r].id # NoId
               /\ pc'[r] \in LoggingIn => sid'[r] = cor'[r].id
               /\ pc'[r] = "redirect" => cor'[r].error \/ cor'[r].id # NoId
               /\ pc'[r] = "authorize_set" => cor'[r].id = NoId
  BY OthersKept DEF OwnLogin
<1>2. cor[r] \in Matched
  BY OwnCopy
<1>3. CASE \E f \in Flows : Authorize(r, f)
  BY <1>3, AuthorizeDoes, NewIsMatched
<1>4. CASE Callback(r) \/ LogoutCallback(r)
  BY <1>4, CallbackDoes, Marked
<1>5. CASE AuthorizeSet(r) \/ ProviderAuthorize(r)
  BY <1>5, AuthorizeSetDoes, ProviderAuthorizeDoes
<1>6. CASE DrawSessionId(r)
  BY <1>2, <1>6, DrawSessionIdDoes, Marked, LoginFlowAssumption
<1>7. CASE ProviderCallback(r) \/ GetUserData(r)
  BY <1>2, <1>7, ProviderCallbackDoes, GetUserDataDoes, Marked DEF OwnLogin
<1>8. CASE SetRead(r) \/ Set(r)
  BY <1>8, SetReadDoes, SetDoes DEF OwnLogin
<1>9. CASE CreateSession(r)
  <2>1. sid[r] = cor[r].id /\ sid[r] # NoId
    BY <1>9 DEF OwnLogin, CreateSession
  <2> QED
    BY <1>2, <1>9, <2>1, CreateSessionDoes, Marked
<1>10. CASE BuildTOSRedirect(r) \/ Audit(r) \/ Undo(r) \/ LoggedIn(r)
  BY <1>2, <1>10, BuildTOSRedirectDoes, AuditDoes, UndoDoes, LoggedInDoes, Marked
  DEF OwnLogin
<1>11. CASE Redirect(r) \/ Forget(r)
  BY <1>11, RedirectDoes, ForgetDoes
<1> QED
  BY <1>3, <1>4, <1>5, <1>6, <1>7, <1>8, <1>9, <1>10, <1>11 DEF Step, Proceed

(* The login of a request stays the same until it ends, and a new one has  *)
(* an id nobody has.                                                       *)
LEMMA PendingId ==
    ASSUME ~SharesPointers, Inv, OwnLogin, NEW r \in Requests, Step(r),
           pc'[r] \in Pending
    PROVE  \/ pc[r] \in Pending /\ cor'[r].id = cor[r].id
           \/ /\ cor'[r].id \in SessionIds \ drawn
              /\ DrawSessionId(r)
<1> USE DEF LoggingIn, Pending, Holds, Over
<1>1. cor[r] \in Matched
  BY OwnCopy
<1>2. CASE (\E f \in Flows : Authorize(r, f)) \/ AuthorizeSet(r)
           \/ Callback(r) \/ LogoutCallback(r) \/ ProviderAuthorize(r)
  BY <1>2, AuthorizeDoes, CallbackDoes, AuthorizeSetDoes, ProviderAuthorizeDoes
<1>3. CASE DrawSessionId(r)
  BY <1>1, <1>3, DrawSessionIdDoes, Marked
<1>4. CASE ProviderCallback(r) \/ GetUserData(r) \/ SetRead(r) \/ Set(r)
  BY <1>4, ProviderCallbackDoes, GetUserDataDoes, SetReadDoes, SetDoes
<1>5. CASE CreateSession(r)
  <2>1. sid[r] # NoId
    BY <1>5 DEF OwnLogin, CreateSession
  <2> QED
    BY <1>1, <1>5, <2>1, CreateSessionDoes, Marked
<1>6. CASE BuildTOSRedirect(r) \/ Audit(r) \/ Undo(r) \/ LoggedIn(r)
           \/ Redirect(r) \/ Forget(r)
  BY <1>1, <1>6, BuildTOSRedirectDoes, AuditDoes, UndoDoes, LoggedInDoes,
     RedirectDoes, ForgetDoes, Marked
<1> QED
  BY <1>2, <1>3, <1>4, <1>5, <1>6 DEF Step, Proceed

LEMMA DistinctKept ==
    ASSUME ~SharesPointers, Inv, Honest, OwnLogin, Distinct,
           NEW r \in Requests, Step(r)
    PROVE  Distinct'
<1>1. \A q \in Requests \ {r} : pc'[q] = pc[q] /\ cor'[q] = cor[q]
  BY OthersKept
<1>2. \A q \in Requests : pc[q] \in Pending => cor[q].id \in drawn
  BY DEF OwnLogin, Honest, Owned
<1>3. ASSUME NEW q \in Requests \ {r}, pc'[q] \in Pending, pc'[r] \in Pending
      PROVE  cor'[q].id # cor'[r].id
  BY <1>1, <1>2, <1>3, PendingId DEF Distinct
<1> QED
  BY <1>1, <1>3 DEF Distinct

(* A step decides at most the login of its own request, and a login that   *)
(* has failed is left. Only a failed login loses its session.              *)
LEMMA DecidesOwn ==
    ASSUME ~SharesPointers, Inv, OwnLogin, NEW r \in Requests, Step(r)
    PROVE  /\ drawn \subseteq drawn'
           /\ \A s \in SessionIds :
                 \/ outcome'[s] = outcome[s]
                 \/ /\ pc[r] \in LoggingIn /\ s = cor[r].id
                    /\ \/ outcome'[s] = "audited"
                       \/ outcome'[s] = "failed" /\ pc'[r] \notin Pending
           /\ \A s \in live \ live' :
                 /\ pc[r] \in LoggingIn /\ s = cor[r].id
                 /\ outcome'[s] = "failed"
<1> USE DEF LoggingIn, Pending, Holds, Over, storeVars, cacheVars
<1>1. CASE (\E f \in Flows : Authorize(r, f)) \/ Callback(r) \/ LogoutCallback(r)
           \/ ProviderAuthorize(r)
  BY <1>1, AuthorizeDoes, CallbackDoes, ProviderAuthorizeDoes
<1>2. CASE AuthorizeSet(r) \/ DrawSessionId(r) \/ ProviderCallback(r)
           \/ GetUserData(r) \/ SetRead(r)
  BY <1>2, AuthorizeSetDoes, StoreInDoes, DrawSessionIdDoes,
     ProviderCallbackDoes, GetUserDataDoes, SetReadDoes
<1>3. ASSUME NEW o \in {"audited", "failed"}, Conclude(sid[r], o),
             pc[r] \in LoggingIn, NEW s \in SessionIds
      PROVE  /\ outcome'[s] = outcome[s] \/ (s = cor[r].id /\ outcome'[s] = o)
             /\ s = sid[r] => outcome'[s] = o
  BY <1>3, LoginFlowAssumption DEF Conclude, OwnLogin, Inv, Typed
<1>4. CASE Set(r)
  BY <1>3, <1>4, SetDoes, StoreInDoes
<1>5. CASE CreateSession(r)
  <2>1. sid[r] # NoId
    BY <1>5 DEF OwnLogin, CreateSession
  <2> QED
    BY <1>5, <2>1, CreateSessionDoes
<1>6. CASE Audit(r)
  BY <1>3, <1>6, AuditDoes
<1>7. CASE Undo(r)
  <2>1. sid[r] = cor[r].id
    BY <1>7, UndoDoes DEF OwnLogin
  <2>2. live \subseteq SessionIds
    BY DEF Inv, Typed
  <2> QED
    BY <1>3, <1>7, <2>1, <2>2, UndoDoes
<1>8. CASE LoggedIn(r) \/ Redirect(r) \/ Forget(r)
  BY <1>8, LoggedInDoes, RedirectDoes, ForgetDoes
<1>9. CASE BuildTOSRedirect(r)
  BY <1>3, <1>9, BuildTOSRedirectDoes
<1> QED
  BY <1>1, <1>2, <1>4, <1>5, <1>6, <1>7, <1>8, <1>9 DEF Step, Proceed

LEMMA UndecidedKept ==
    ASSUME ~SharesPointers, Inv, Honest, OwnLogin, Distinct, Undecided,
           NEW r \in Requests, Step(r)
    PROVE  Undecided'
<1>1. \A q \in Requests \ {r} : pc'[q] = pc[q] /\ cor'[q] = cor[q]
  BY OthersKept
<1>2. \A q \in Requests : pc[q] \in Pending =>
         cor[q].id \in drawn /\ cor[q].id \in SessionIds
  BY DEF OwnLogin, Honest, Owned, Matched, Correlation
<1>3. ASSUME NEW q \in Requests \ {r}, pc'[q] \in Pending
      PROVE  cor'[q].id \notin Ended({"failed", "lost"})'
  <2>1. pc[q] \in Pending /\ cor'[q].id = cor[q].id
    BY <1>1, <1>3
  <2>2. outcome'[cor[q].id] = outcome[cor[q].id]
    BY <1>2, <2>1, DecidesOwn DEF Distinct, Pending
  <2> QED
    BY <1>2, <2>1, <2>2 DEF Undecided, Ended
<1>4. ASSUME pc'[r] \in Pending
      PROVE  cor'[r].id \notin Ended({"failed", "lost"})'
  <2>1. CASE pc[r] \in Pending /\ cor'[r].id = cor[r].id
    BY <1>2, <1>4, <2>1, DecidesOwn DEF Undecided, Ended
  <2>2. CASE cor'[r].id \in SessionIds \ drawn
    <3>1. outcome'[cor'[r].id] = "open"
      BY <1>2, <2>2, DecidesOwn DEF Undecided, Pending
    <3> QED
      BY <3>1 DEF Ended
  <2> QED
    BY <1>4, <2>1, <2>2, PendingId
<1>5. \A s \in SessionIds \ drawn' : outcome'[s] = "open"
  BY <1>2, DecidesOwn DEF Undecided, Pending
<1> QED
  BY <1>3, <1>4, <1>5 DEF Undecided

LEMMA CreatedKept ==
    ASSUME ~SharesPointers, Inv, OwnLogin, Distinct, Created,
           NEW r \in Requests, Step(r)
    PROVE  Created'
<1> USE DEF LoggingIn, Pending, Holds, Over, cacheVars, storeVars
<1> DEFINE AfterCreate == {"terms", "tos_read", "tos_set", "audit"}
<1>1. ASSUME NEW q \in Requests \ {r}, pc'[q] \in AfterCreate
      PROVE  failed'[q] \/ sid'[q] \in live'
  <2>1. /\ pc[q] = pc'[q] /\ sid'[q] = sid[q] /\ failed'[q] = failed[q]
        /\ sid[q] = cor[q].id
    BY <1>1, OthersKept DEF OwnLogin
  <2>2. sid[q] \in live => sid[q] \in live'
    BY <1>1, <2>1, DecidesOwn DEF Distinct
  <2> QED
    BY <1>1, <2>1, <2>2 DEF Created
<1>2. ASSUME pc'[r] \in AfterCreate
      PROVE  failed'[r] \/ sid'[r] \in live'
  <2>1. SetRead(r) \/ Set(r) \/ CreateSession(r) \/ BuildTOSRedirect(r)
    BY <1>2, AuthorizeDoes, CallbackDoes, AuthorizeSetDoes, ProviderAuthorizeDoes,
       DrawSessionIdDoes, ProviderCallbackDoes, GetUserDataDoes, AuditDoes,
       UndoDoes, LoggedInDoes, RedirectDoes, ForgetDoes
    DEF Step, Proceed
  <2>2. CASE SetRead(r) \/ Set(r) \/ BuildTOSRedirect(r)
    BY <1>2, <2>2, SetReadDoes, SetDoes, BuildTOSRedirectDoes DEF Created
  <2>3. CASE CreateSession(r)
    <3>1. sid[r] # NoId
      BY <2>3 DEF OwnLogin, CreateSession
    <3> QED
      BY <2>3, <3>1, CreateSessionDoes
  <2> QED
    BY <2>1, <2>2, <2>3
<1> QED
  BY <1>1, <1>2 DEF Created

-----------------------------------------------------------------------------
(* Where a step looks, and where it stores. *)
LEMMA CreateSessionKeepsSlots ==
    ASSUME ~SharesPointers, Inv, NEW r \in Requests, CreateSession(r)
    PROVE  UNCHANGED <<slot, base, found, answers, present>>
BY OwnCopy DEF CreateSession

LEMMA StoresAtSet ==
    ASSUME ~SharesPointers, Inv, NEW r \in Requests, Step(r), slot' # slot
    PROVE  /\ \E k \in Slots : StoreIn(r, cor[r], k)
           /\ pc[r] \in {"authorize_set", "set", "tos_set"}
BY AuthorizeDoes, CallbackDoes, AuthorizeSetDoes, ProviderAuthorizeDoes,
   DrawSessionIdDoes, ProviderCallbackDoes, GetUserDataDoes, SetReadDoes,
   SetDoes, CreateSessionKeepsSlots, BuildTOSRedirectDoes, AuditDoes, UndoDoes,
   LoggedInDoes, RedirectDoes, ForgetDoes
DEF Step, Proceed, cacheVars

LEMMA CachesAtSet ==
    ASSUME ~SharesPointers, Inv, NEW r \in Requests, Step(r)
    PROVE  \/ slot' = slot /\ present' \subseteq present
           \/ \E k \in Slots : StoreIn(r, cor[r], k) /\ pc[r] # "idle"
BY AuthorizeDoes, CallbackDoes, AuthorizeSetDoes, ProviderAuthorizeDoes,
   DrawSessionIdDoes, ProviderCallbackDoes, GetUserDataDoes, SetReadDoes,
   SetDoes, CreateSessionKeepsSlots, BuildTOSRedirectDoes, AuditDoes, UndoDoes,
   LoggedInDoes, RedirectDoes, ForgetDoes
DEF Step, Proceed, cacheVars

LEMMA ReadsBase ==
    ASSUME ~SharesPointers, Inv, NEW r \in Requests, Step(r)
    PROVE  \/ SameBase(r)
           \/ base'[r] = Blank /\ ~found'[r]
           \/ ~found'[r] /\ base'[r] = base[r]
           \/ \E k \in present : base'[r] = slot[k]
<1> USE DEF Over, Holds
<1>1. CASE (\E f \in Flows : Authorize(r, f)) \/ SetRead(r)
  BY <1>1, AuthorizeDoes, SetReadDoes
<1>2. CASE Callback(r) \/ LogoutCallback(r) \/ AuthorizeSet(r)
           \/ ProviderAuthorize(r) \/ DrawSessionId(r) \/ ProviderCallback(r)
  BY <1>2, CallbackDoes, AuthorizeSetDoes, ProviderAuthorizeDoes,
     DrawSessionIdDoes, ProviderCallbackDoes
<1>3. CASE GetUserData(r) \/ Set(r) \/ CreateSession(r) \/ Audit(r) \/ Undo(r)
           \/ LoggedIn(r) \/ Redirect(r) \/ Forget(r)
  BY <1>3, GetUserDataDoes, SetDoes, CreateSessionKeepsSlots, AuditDoes, UndoDoes,
     LoggedInDoes, RedirectDoes, ForgetDoes DEF SameBase
<1>4. CASE BuildTOSRedirect(r)
  BY <1>4, BuildTOSRedirectDoes
<1> QED
  BY <1>1, <1>2, <1>3, <1>4 DEF Step, Proceed

LEMMA AnswersAtRedirect ==
    ASSUME ~SharesPointers, Inv, NEW r \in Requests, Step(r)
    PROVE  answers' = answers \/ Redirect(r)
BY AuthorizeDoes, CallbackDoes, AuthorizeSetDoes, ProviderAuthorizeDoes,
   DrawSessionIdDoes, ProviderCallbackDoes, GetUserDataDoes, SetReadDoes,
   SetDoes, CreateSessionKeepsSlots, BuildTOSRedirectDoes, AuditDoes, UndoDoes,
   LoggedInDoes, ForgetDoes
DEF Step, Proceed, storeVars

-----------------------------------------------------------------------------
(* What the cache, the requests and the clients know of. A login can be    *)
(* accounted for when its session is open, when a request still works on   *)
(* it, and when it has come to grief.                                      *)
Accounted ==
    {NoId} \cup live \cup Ended({"failed", "lost"})
        \cup {sid[r] : r \in {q \in Requests : pc[q] \in LoggingIn}}

(* Only the request that has drawn an id knows it before its login is      *)
(* under way; when that comes to nothing, the client is told an error.     *)
Known ==
    /\ \A k \in Slots : slot[k].id \in Accounted
    /\ \A r \in Requests : base[r].id \in Accounted
    /\ \A r \in Requests : pc[r] \notin {"exchange", "ask"} =>
          cor[r].error \/ cor[r].id \in Accounted
    /\ \A a \in answers : a.error \/ a.id \in Accounted \ {NoId}

LEMMA AccountedStays ==
    ASSUME ~SharesPointers, Inv, Honest, OwnLogin, Distinct, Undecided, Created,
           NEW r \in Requests, Step(r), NEW s, s \in Accounted
    PROVE  s \in Accounted'
<1> USE DEF LoggingIn, Pending, Holds, Over, cacheVars, storeVars
<1>1. \A q \in Requests \ {r} : pc'[q] = pc[q] /\ sid'[q] = sid[q]
  BY OthersKept
<1>2. live \subseteq SessionIds /\ sid[r] \in SessionIds \cup {NoId}
  BY DEF Inv, Typed
<1>3. CASE s = NoId
  BY <1>3 DEF Accounted
<1>4. CASE s \in live
  BY <1>2, <1>4, DecidesOwn DEF Accounted, Ended
<1>5. CASE s \in Ended({"failed", "lost"})
  <2>1. pc[r] \in LoggingIn => s # cor[r].id
    BY <1>5 DEF Undecided
  <2>2. outcome'[s] = outcome[s] /\ s \in SessionIds
    BY <1>5, <2>1, DecidesOwn DEF Ended
  <2> QED
    BY <1>5, <2>2 DEF Accounted, Ended
<1>6. CASE \E q \in Requests \ {r} : sid[q] = s /\ pc[q] \in LoggingIn
  BY <1>1, <1>6 DEF Accounted
<1>7. CASE s # NoId /\ sid[r] = s /\ pc[r] \in LoggingIn
  <2>1. s \in SessionIds
    BY <1>2, <1>7
  <2>2. CASE pc'[r] \in LoggingIn /\ sid'[r] = s
    BY <2>2 DEF Accounted
  <2>3. CASE outcome'[s] = "failed"
    BY <2>1, <2>3 DEF Accounted, Ended
  <2>4. CASE s \in live'
    BY <2>4 DEF Accounted
  <2>5. SetRead(r) \/ Set(r) \/ CreateSession(r) \/ BuildTOSRedirect(r)
        \/ Audit(r) \/ Undo(r)
    BY <1>7, AuthorizeDoes, CallbackDoes, AuthorizeSetDoes, ProviderAuthorizeDoes,
       DrawSessionIdDoes, ProviderCallbackDoes, GetUserDataDoes, LoggedInDoes,
       RedirectDoes, ForgetDoes
    DEF Step, Proceed
  <2>6. Conclude(sid[r], "failed") => outcome'[s] = "failed"
    BY <1>7, <2>1 DEF Conclude, Inv, Typed
  <2>7. CASE SetRead(r) \/ Set(r) \/ BuildTOSRedirect(r)
    BY <1>7, <2>2, <2>3, <2>6, <2>7, SetReadDoes, SetDoes, BuildTOSRedirectDoes
  <2>8. CASE CreateSession(r)
    BY <1>7, <2>2, <2>8, CreateSessionDoes
  <2>9. CASE Audit(r)
    BY <1>7, <2>2, <2>4, <2>9, AuditDoes DEF Created
  <2>10. CASE Undo(r)
    BY <2>3, <2>6, <2>10, UndoDoes
  <2> QED
    BY <2>5, <2>7, <2>8, <2>9, <2>10
<1> QED
  BY <1>3, <1>4, <1>5, <1>6, <1>7 DEF Accounted

LEMMA NoIdAccounted == NoId \in Accounted /\ NoId \in Accounted'
BY DEF Accounted

(* What a request may read next: what it knew, what was in the cache, or   *)
(* nothing; what it stores is what it knew.                                *)
LEMMA KnownKept ==
    ASSUME ~SharesPointers, Inv, Honest, OwnLogin, Distinct, Undecided, Created,
           Known, NEW r \in Requests, Step(r)
    PROVE  Known'
<1> USE DEF LoggingIn, Pending, Holds, Over, SameBase, cacheVars, storeVars
<1>1. \A s : s \in Accounted => s \in Accounted'
  BY AccountedStays
<1>2. \A q \in Requests \ {r} :
         pc'[q] = pc[q] /\ cor'[q] = cor[q] /\ base'[q] = base[q]
  BY OthersKept
<1>3. Blank.id = NoId /\ cor[r] \in Matched
  BY BlankIsMatched, OwnCopy
<1>4. pc[r] \in LoggingIn => cor[r].id \in Accounted
  BY DEF OwnLogin, Accounted
<1>5. slot' = slot \/ \E k \in Slots : StoreIn(r, cor[r], k)
  BY StoresAtSet
<1>6. \A k \in Slots : slot'[k].id \in Accounted'
  <2>1. CASE slot' = slot
    BY <1>1, <2>1 DEF Known
  <2>2. ASSUME NEW k \in Slots, StoreIn(r, cor[r], k), slot' # slot
        PROVE  \A j \in Slots : slot'[j].id \in Accounted'
    <3>1. pc[r] \in LoggingIn \/ pc[r] = "authorize_set"
      BY <2>2, StoresAtSet
    <3>2. cor[r].id \in Accounted
      BY <1>4, <3>1, NoIdAccounted DEF OwnLogin
    <3> QED
      BY <1>1, <2>2, <3>2, StoreInDoes, NoIdAccounted DEF Known
  <2> QED
    BY <1>5, <2>1, <2>2
<1>7. base'[r].id \in Accounted'
  <2>1. \/ base'[r] = base[r] \/ base'[r] = Blank
        \/ \E k \in Slots : base'[r] = slot[k]
    BY ReadsBase DEF Inv, Typed
  <2> QED
    BY <1>1, <1>3, <2>1, NoIdAccounted DEF Known
<1>8. ASSUME pc'[r] \notin {"exchange", "ask"}
      PROVE  cor'[r].error \/ cor'[r].id \in Accounted'
  <2>1. CASE (\E f \in Flows : Authorize(r, f)) \/ Callback(r) \/ LogoutCallback(r)
    BY <1>1, <2>1, AuthorizeDoes, CallbackDoes, NewIsMatched, NoIdAccounted,
       Marked DEF Known
  <2>2. CASE AuthorizeSet(r)
    BY <1>3, <1>6, <2>2, AuthorizeSetDoes, NoIdAccounted
  <2>3. CASE ProviderAuthorize(r) \/ LoggedIn(r) \/ Redirect(r) \/ Forget(r)
    BY <1>1, <1>3, <2>3, ProviderAuthorizeDoes, LoggedInDoes, RedirectDoes,
       ForgetDoes, NoIdAccounted DEF Known
  <2>4. CASE DrawSessionId(r) \/ ProviderCallback(r)
    BY <1>3, <1>8, <2>4, DrawSessionIdDoes, ProviderCallbackDoes, Marked
  <2>5. CASE GetUserData(r)
    BY <1>3, <2>5, GetUserDataDoes, Marked DEF Accounted
  <2>6. CASE SetRead(r) \/ Set(r) \/ BuildTOSRedirect(r) \/ Audit(r) \/ Undo(r)
    BY <1>1, <1>3, <1>4, <2>6, SetReadDoes, SetDoes, BuildTOSRedirectDoes,
       AuditDoes, UndoDoes, Marked
  <2>7. CASE CreateSession(r)
    <3>1. sid[r] # NoId /\ pc[r] = "create"
      BY <2>7 DEF OwnLogin, CreateSession
    <3> QED
      BY <1>1, <1>3, <1>4, <2>7, <3>1, CreateSessionDoes, Marked
  <2> QED
    BY <2>1, <2>2, <2>3, <2>4, <2>5, <2>6, <2>7 DEF Step, Proceed
<1>9. \A a \in answers' : a.error \/ a.id \in Accounted' \ {NoId}
  <2>1. CASE answers' = answers
    BY <1>1, <2>1 DEF Known
  <2>2. CASE Redirect(r)
    <3>1. cor[r].error \/ cor[r].id \in Accounted \ {NoId}
      BY <2>2, RedirectDoes DEF Known, OwnLogin
    <3> QED
      BY <1>1, <2>2, <3>1, RedirectDoes DEF Known
  <2> QED
    BY <2>1, <2>2, AnswersAtRedirect
<1> QED
  BY <1>1, <1>2, <1>6, <1>7, <1>8, <1>9 DEF Known

(* Flows in the cache have been asked for, and so have those of a request. *)
Begun ==
    /\ \A k \in present : slot[k].flow \in drawn
    /\ \A r \in Requests : found[r] => base[r].flow \in drawn
    /\ \A r \in Requests : pc[r] # "idle" => cor[r].flow \in drawn

LEMMA KeepsFlow ==
    ASSUME ~SharesPointers, Inv, OwnLogin, Begun, NEW r \in Requests, Step(r)
    PROVE  /\ drawn \subseteq drawn'
           /\ \/ pc[r] # "idle" /\ cor'[r].flow = cor[r].flow
              \/ \E k \in present' : cor'[r] = slot'[k]
              \/ \E k \in present : cor'[r].flow = slot[k].flow
              \/ \E f \in Flows : f \in drawn' /\ cor'[r] = NewCorrelation(f)
              \/ pc'[r] = "idle"
<1> USE DEF Holds, Over, cacheVars
<1>1. drawn \subseteq drawn'
  BY DecidesOwn
<1>2. cor[r] \in Matched
  BY OwnCopy
<1>3. CASE \E f \in Flows : Authorize(r, f)
  BY <1>1, <1>3, AuthorizeDoes
<1>4. CASE Callback(r) \/ LogoutCallback(r)
  BY <1>1, <1>4, CallbackDoes, Marked
<1>5. CASE AuthorizeSet(r)
  BY <1>1, <1>5, AuthorizeSetDoes, StoreInDoes
<1>6. CASE ProviderAuthorize(r) \/ DrawSessionId(r) \/ ProviderCallback(r)
           \/ GetUserData(r) \/ SetRead(r) \/ Set(r)
  BY <1>1, <1>2, <1>6, ProviderAuthorizeDoes, DrawSessionIdDoes,
     ProviderCallbackDoes, GetUserDataDoes, SetReadDoes, SetDoes, Marked
<1>7. CASE CreateSession(r)
  <2>1. sid[r] # NoId /\ pc[r] = "create"
    BY <1>7 DEF OwnLogin, CreateSession, LoggingIn, Pending
  <2> QED
    BY <1>1, <1>2, <1>7, <2>1, CreateSessionDoes, Marked
<1>8. CASE BuildTOSRedirect(r) \/ Audit(r) \/ Undo(r) \/ LoggedIn(r)
           \/ Redirect(r) \/ Forget(r)
  BY <1>1, <1>2, <1>8, BuildTOSRedirectDoes, AuditDoes, UndoDoes, LoggedInDoes,
     RedirectDoes, ForgetDoes, Marked
<1> QED
  BY <1>3, <1>4, <1>5, <1>6, <1>7, <1>8 DEF Step, Proceed

LEMMA BegunKept ==
    ASSUME ~SharesPointers, Inv, OwnLogin, Begun, NEW r \in Requests, Step(r)
    PROVE  Begun'
<1>1. /\ drawn \subseteq drawn' /\ Blank.flow \in Flows
      /\ present \subseteq Slots
  BY KeepsFlow, BlankIsMatched DEF Matched, Correlation, Inv, Typed
<1>2. \A k \in present' : slot'[k].flow \in drawn'
  <2>1. CASE slot' = slot /\ present' \subseteq present
    BY <1>1, <2>1 DEF Begun
  <2>2. ASSUME NEW k \in Slots, StoreIn(r, cor[r], k), pc[r] # "idle"
        PROVE  \A j \in present' : slot'[j].flow \in drawn'
    BY <1>1, <2>2, StoreInDoes DEF Begun
  <2> QED
    BY <2>1, <2>2, CachesAtSet
<1>3. found'[r] => base'[r].flow \in drawn'
  BY <1>1, ReadsBase DEF Begun, SameBase
<1>4. pc'[r] # "idle" => cor'[r].flow \in drawn'
  <2>1. \A f \in Flows : NewCorrelation(f).flow = f
    BY DEF NewCorrelation
  <2>2. CASE pc[r] # "idle" /\ cor'[r].flow = cor[r].flow
    BY <1>1, <2>2 DEF Begun
  <2>3. CASE \E k \in present' : cor'[r] = slot'[k]
    BY <1>2, <2>3
  <2>4. CASE \E k \in present : cor'[r].flow = slot[k].flow
    BY <1>1, <2>4 DEF Begun
  <2>5. CASE \E f \in Flows : f \in drawn' /\ cor'[r] = NewCorrelation(f)
    BY <2>1, <2>5
  <2> QED
    BY <2>2, <2>3, <2>4, <2>5, KeepsFlow
<1>5. \A q \in Requests \ {r} : /\ pc'[q] = pc[q] /\ cor'[q] = cor[q]
                               /\ base'[q] = base[q] /\ found'[q] = found[q]
  BY OthersKept
<1> QED
  BY <1>1, <1>2, <1>3, <1>4, <1>5 DEF Begun

-----------------------------------------------------------------------------
(* A process that stops takes copies with it, and no session: the logins   *)
(* of its requests are lost, and nobody else worked on them.               *)
Copies ==
    /\ Inv /\ Honest
    /\ OwnLogin /\ Distinct /\ Undecided /\ Created /\ Known /\ Begun

LEMMA CrashLeaves ==
    ASSUME ~SharesPointers, Inv, NEW R \in SUBSET InFlight, Crash(R)
    PROVE  /\ \A r \in R : /\ pc'[r] = "idle" /\ cor'[r] = Blank
                           /\ base'[r] = Blank /\ ~found'[r]
           /\ \A r \in Requests \ R :
                 /\ pc'[r] = pc[r] /\ cor'[r] = cor[r] /\ base'[r] = base[r]
                 /\ found'[r] = found[r] /\ sid'[r] = sid[r]
                 /\ failed'[r] = failed[r]
           /\ \A s \in SessionIds :
                 \/ outcome'[s] = outcome[s]
                 \/ /\ outcome'[s] = "lost"
                    /\ \E r \in R : sid[r] = s /\ pc[r] \in LoggingIn
           /\ \A r \in R : pc[r] \in LoggingIn /\ sid[r] \in SessionIds
                              => outcome'[sid[r]] = "lost"
           /\ R \subseteq Requests
           /\ UNCHANGED <<drawn, present, slot, live, begunFor, answers>>
<1> USE DEF Crash, Reset, InMemoryStore
<1>1. R \subseteq Requests
  BY DEF InFlight
<1>2. LostWith(R) =
         {s \in SessionIds : \E r \in R : sid[r] = s /\ pc[r] \in LoggingIn}
  BY DEF LostWith
<1>3. /\ \A s \in SessionIds :
            \/ outcome'[s] = outcome[s]
            \/ outcome'[s] = "lost" /\ s \in LostWith(R)
      /\ \A s \in LostWith(R) : outcome'[s] = "lost"
  BY <1>2
<1>4. \A r \in R : /\ pc'[r] = "idle" /\ cor'[r] = Blank
                   /\ base'[r] = Blank /\ ~found'[r]
  BY <1>1
<1>5. \A r \in Requests \ R :
         /\ pc'[r] = pc[r] /\ cor'[r] = cor[r] /\ base'[r] = base[r]
         /\ found'[r] = found[r] /\ sid'[r] = sid[r] /\ failed'[r] = failed[r]
  OBVIOUS
<1> QED
  BY <1>1, <1>2, <1>3, <1>4, <1>5

LEMMA CrashKeeps ==
    ASSUME ~SharesPointers, Copies, NEW R \in SUBSET InFlight, Crash(R)
    PROVE  /\ OwnLogin' /\ Distinct' /\ Undecided' /\ Created' /\ Known' /\ Begun'
<1> USE CrashLeaves DEF Copies
<1>1. Blank.id = NoId /\ "idle" \notin Pending \cup {"done"} \cup LoggingIn
  BY BlankIsMatched DEF Pending, LoggingIn
<1>2. OwnLogin' /\ Distinct'
  BY <1>1 DEF OwnLogin, Distinct
<1>3. Created'
  BY DEF Created
<1>4. Begun'
  BY DEF Begun
<1>5. \A r \in Requests : pc[r] \in Pending =>
         cor[r].id \in drawn /\ cor[r].id \in SessionIds
  BY DEF OwnLogin, Honest, Owned, Matched, Correlation
<1>6. \A r \in Requests : pc[r] \in LoggingIn => pc[r] \in Pending /\ sid[r] = cor[r].id
  BY DEF OwnLogin, Pending
<1>7. Undecided'
  <2>1. ASSUME NEW q \in Requests, pc'[q] \in Pending
        PROVE  cor'[q].id \notin Ended({"failed", "lost"})'
    <3>1. q \notin R /\ pc[q] \in Pending /\ cor'[q].id = cor[q].id
      BY <1>1, <2>1
    <3>2. outcome'[cor[q].id] = outcome[cor[q].id]
      BY <1>5, <1>6, <3>1 DEF Distinct
    <3> QED
      BY <1>5, <3>1, <3>2 DEF Undecided, Ended
  <2>2. ASSUME NEW s \in SessionIds \ drawn'
        PROVE  outcome'[s] = "open"
    BY <1>5, <1>6, <2>2 DEF Undecided
  <2> QED
    BY <2>1, <2>2 DEF Undecided
<1>8. Accounted \subseteq Accounted'
  <2>1. Ended({"failed", "lost"}) \subseteq Ended({"failed", "lost"})'
    BY DEF Ended
  <2>2. ASSUME NEW r \in Requests, pc[r] \in LoggingIn
        PROVE  sid[r] \in Accounted'
    <3>1. sid[r] \in SessionIds
      BY <1>5, <1>6, <2>2
    <3>2. CASE r \in R
      BY <2>2, <3>1, <3>2 DEF Accounted, Ended
    <3>3. CASE r \notin R
      BY <2>2, <3>3 DEF Accounted
    <3> QED
      BY <3>2, <3>3
  <2> QED
    BY <2>1, <2>2 DEF Accounted
<1>9. Known'
  <2>1. \A r \in Requests : /\ base'[r].id \in Accounted'
                            /\ pc'[r] \notin {"exchange", "ask"} =>
                                  cor'[r].error \/ cor'[r].id \in Accounted'
    BY <1>1, <1>8, NoIdAccounted DEF Known
  <2> QED
    BY <1>8, <2>1 DEF Known
<1> QED
  BY <1>2, <1>3, <1>4, <1>7, <1>9

LEMMA InitCopies == Init => Copies
<1> SUFFICES ASSUME Init PROVE Copies
  OBVIOUS
<1>1. Inv /\ Honest
  BY InitInv, InitHonest
<1>2. \A r \in Requests : pc[r] = "idle" /\ cor[r] = Blank /\ ~found[r]
  BY DEF Init
<1>3. /\ OwnLogin /\ Distinct /\ Undecided /\ Created /\ Begun
  BY <1>2 DEF Init, OwnLogin, Distinct, Undecided, Created, Begun, Pending,
              LoggingIn, Ended
<1>4. Known
  BY NoIdAccounted, BlankIsMatched DEF Init, Known
<1> QED
  BY <1>1, <1>3, <1>4 DEF Copies

(* Every step is one of a request, or leaves them alone. *)
LEMMA NextCopies ==
    ASSUME ~SharesPointers, Copies, [Next]_vars
    PROVE  Copies'
<1>1. Inv' /\ Honest'
  BY NextInv, NextHonest DEF Copies
<1>2. ASSUME NEW r \in Requests, Step(r)
      PROVE  Copies'
  BY <1>1, <1>2, OwnLoginKept, DistinctKept, UndecidedKept, CreatedKept,
     KnownKept, BegunKept DEF Copies
<1>3. ASSUME NEW R \in SUBSET InFlight, Crash(R)
      PROVE  Copies'
  BY <1>1, <1>3, CrashKeeps DEF Copies
<1>4. CASE /\ UNCHANGED <<drawn, slot, live, pc, cor, base, found, sid, failed>>
           /\ UNCHANGED <<outcome, answers>>
           /\ present' \subseteq present
  <2>1. OwnLogin' /\ Distinct' /\ Undecided' /\ Created'
    BY <1>4 DEF Copies, OwnLogin, Distinct, Undecided, Created, Ended
  <2>2. Known' /\ Begun'
    BY <1>4 DEF Copies, Known, Begun, Accounted, Ended
  <2> QED
    BY <1>1, <2>1, <2>2 DEF Copies
<1>5. ASSUME NEW k \in Slots, Lapse(k)
      PROVE  Copies'
  BY <1>4, <1>5 DEF Lapse, requestVars
<1>6. CASE UNCHANGED vars
  BY <1>4, <1>6 DEF vars, requestVars
<1> QED
  BY <1>2, <1>3, <1>5, <1>6 DEF Next, Step

-----------------------------------------------------------------------------
LEMMA AlwaysCopies ==
    ASSUME ~SharesPointers
    PROVE  Spec => []Copies
<1>1. Copies /\ [Next]_vars => Copies'
  BY NextCopies
<1> QED
  BY InitCopies, <1>1, PTL DEF Spec

(* From a cache of copies no caller gets an empty code, however many       *)
(* requests of a browser overlap and whatever fails: the redirect sees the *)
(* copy its own handler has drawn an id for, or has marked.                *)
THEOREM NoCallerGetsEmptyCode == Spec => []NoEmptyCode
<1>1. CASE SharesPointers
  <2>1. NoEmptyCode
    BY <1>1 DEF NoEmptyCode
  <2> QED
    BY <2>1, PTL
<1>2. CASE ~SharesPointers
  <2>1. Copies => NoEmptyCode
    BY DEF Copies, Known, NoEmptyCode
  <2> QED
    BY <1>2, <2>1, AlwaysCopies, PTL
<1> QED
  BY <1>1, <1>2

(* From a cache of copies every code is accounted for: its session is      *)
(* open, its login still on its way, or it has come to grief after the     *)
(* cache was told of it. No request answers for a login that another one   *)
(* takes back without a trace.                                             *)
THEOREM CodesAccountedFor == Spec => []CodeAccountedFor
<1>1. CASE SharesPointers
  <2>1. CodeAccountedFor
    BY <1>1 DEF CodeAccountedFor
  <2> QED
    BY <2>1, PTL
<1>2. CASE ~SharesPointers
  <2>1. Copies => CodeAccountedFor
    BY DEF Copies, Known, Accounted, CodeAccountedFor
  <2> QED
    BY <1>2, <2>1, AlwaysCopies, PTL
<1> QED
  BY <1>1, <1>2

-----------------------------------------------------------------------------
(* What is left of a login that failed, where the store answers. Only a    *)
(* correlation about to be answered has an error; the session of that      *)
(* login was never opened or is deleted, and no request can open it still. *)
Unopened == {"exchange", "ask", "set_read", "set", "create"}

Refused ==
    {a.id : a \in {b \in answers : b.error}}
        \cup {cor[r].id : r \in {q \in Requests : cor[q].error}}

Errors ==
    /\ \A k \in Slots : ~slot[k].error
    /\ \A r \in Requests : ~base[r].error
    /\ \A r \in Requests : cor[r].error => pc[r] \in {"redirect", "forget"}

TakenBack ==
    /\ live \subseteq drawn
    /\ \A r \in Requests : pc[r] \in Unopened => cor[r].id \notin live
    /\ \A s \in Refused \ {NoId} :
          /\ s \in drawn \ live
          /\ \A q \in Requests : pc[q] \in Pending => cor[q].id # s

LEMMA ErrorsKept ==
    ASSUME ~SharesPointers, Inv, OwnLogin, Errors, NEW r \in Requests, Step(r)
    PROVE  Errors'
<1> USE DEF Holds, Over, SameBase
<1>1. ~Blank.error /\ \A f \in Flows : ~NewCorrelation(f).error
  BY DEF Blank, NewCorrelation
<1>2. \A k \in Slots : ~slot'[k].error
  BY StoresAtSet, StoreInDoes DEF Errors
<1>3. ~base'[r].error
  <2>1. \/ base'[r] = base[r] \/ base'[r] = Blank
        \/ \E k \in Slots : base'[r] = slot[k]
    BY ReadsBase DEF Inv, Typed
  <2> QED
    BY <1>1, <2>1 DEF Errors
<1>4. cor'[r].error => pc'[r] \in {"redirect", "forget"}
  <2>1. cor[r] \in Matched
    BY OwnCopy
  <2>2. CASE (\E f \in Flows : Authorize(r, f)) \/ Callback(r) \/ LogoutCallback(r)
    BY <1>1, <2>2, AuthorizeDoes, CallbackDoes DEF Errors
  <2>3. CASE AuthorizeSet(r) \/ ProviderAuthorize(r) \/ LoggedIn(r) \/ Redirect(r)
             \/ Forget(r)
    BY <1>1, <1>2, <2>3, AuthorizeSetDoes, ProviderAuthorizeDoes, LoggedInDoes,
       RedirectDoes, ForgetDoes
  <2>4. CASE DrawSessionId(r) \/ ProviderCallback(r) \/ GetUserData(r) \/ SetRead(r)
             \/ Set(r) \/ Audit(r) \/ Undo(r)
    BY <2>4, DrawSessionIdDoes, ProviderCallbackDoes, GetUserDataDoes, SetReadDoes,
       SetDoes, AuditDoes, UndoDoes DEF Errors
  <2>6. CASE BuildTOSRedirect(r)
    BY <2>1, <2>6, BuildTOSRedirectDoes, Marked DEF Errors
  <2>5. CASE CreateSession(r)
    <3>1. sid[r] # NoId /\ pc[r] = "create"
      BY <2>5 DEF OwnLogin, CreateSession, LoggingIn, Pending
    <3> QED
      BY <2>1, <2>5, <3>1, CreateSessionDoes, Marked DEF Errors
  <2> QED
    BY <2>2, <2>3, <2>4, <2>5, <2>6 DEF Step, Proceed
<1>5. \A q \in Requests \ {r} :
         pc'[q] = pc[q] /\ cor'[q] = cor[q] /\ base'[q] = base[q]
  BY OthersKept
<1> QED
  BY <1>2, <1>3, <1>4, <1>5 DEF Errors

(* A step opens at most the session of its own login, once; it does not go *)
(* back to before that.                                                    *)
LEMMA OpensOwn ==
    ASSUME ~SharesPointers, Inv, OwnLogin, NEW r \in Requests, Step(r)
    PROVE  /\ \/ live' \subseteq live
              \/ /\ pc[r] = "create" /\ pc'[r] \in {"terms", "audit"}
                 /\ live' \subseteq live \cup {cor[r].id} /\ cor[r].id \in drawn'
           /\ pc'[r] \in Unopened => pc[r] \in Unopened \/ DrawSessionId(r)
<1> USE DEF Holds, Over, cacheVars, storeVars, Unopened
<1>1. CASE CreateSession(r)
  <2>1. sid[r] # NoId /\ sid[r] = cor[r].id
    BY <1>1 DEF OwnLogin, CreateSession, LoggingIn, Pending
  <2> QED
    BY <1>1, <2>1, CreateSessionDoes
<1>2. CASE (\E f \in Flows : Authorize(r, f)) \/ Callback(r) \/ LogoutCallback(r)
           \/ AuthorizeSet(r) \/ ProviderAuthorize(r) \/ DrawSessionId(r)
  BY <1>2, AuthorizeDoes, CallbackDoes, AuthorizeSetDoes, ProviderAuthorizeDoes,
     DrawSessionIdDoes
<1>3. CASE ProviderCallback(r) \/ GetUserData(r) \/ SetRead(r) \/ Set(r)
  BY <1>3, ProviderCallbackDoes, GetUserDataDoes, SetReadDoes, SetDoes
<1>4. CASE BuildTOSRedirect(r) \/ Audit(r) \/ Undo(r) \/ LoggedIn(r)
           \/ Redirect(r) \/ Forget(r)
  BY <1>4, BuildTOSRedirectDoes, AuditDoes, UndoDoes, LoggedInDoes, RedirectDoes,
     ForgetDoes
<1> QED
  BY <1>1, <1>2, <1>3, <1>4 DEF Step, Proceed

(* A step refuses at most its own login, which it leaves without a session. *)
LEMMA RefusesOwn ==
    ASSUME ~SharesPointers, ~StoreMayFail, Inv, OwnLogin, Errors, TakenBack,
           NEW r \in Requests, Step(r), NEW s \in Refused' \ Refused, s # NoId
    PROVE  pc[r] \in Pending /\ s = cor[r].id /\ s \notin live'
           /\ pc'[r] = "redirect"
<1> USE DEF Holds, Over, cacheVars, storeVars, Unopened, Pending, LoggingIn
<1>1. \A q \in Requests \ {r} : cor'[q] = cor[q]
  BY OthersKept
<1>2. cor[r] \in Matched
  BY OwnCopy
<1>3. answers' \subseteq answers \/ Redirect(r)
  BY AnswersAtRedirect
<1>4. s = cor'[r].id /\ cor'[r].error /\ ~Redirect(r)
  <2>1. CASE Redirect(r)
    <3>1. /\ \A a \in answers' \ answers : a.id = cor[r].id /\ a.error = cor[r].error
          /\ cor'[r] = cor[r] \/ (cor'[r] = Blank /\ ~Blank.error)
      BY <2>1, RedirectDoes DEF Blank, NewCorrelation
    <3> QED
      BY <1>1, <3>1 DEF Refused
  <2>2. CASE ~Redirect(r)
    BY <1>1, <1>3, <2>2 DEF Refused
  <2> QED
    BY <2>1, <2>2
<1>5. ~cor[r].error \/ cor'[r].id # cor[r].id
  BY <1>4 DEF Refused
<1>6. pc'[r] = "redirect" \/ pc'[r] = "forget"
  BY <1>4, ErrorsKept DEF Errors
<1>7. CASE ProviderCallback(r) \/ GetUserData(r)
  <2>1. cor'[r] \in {cor[r], WithError(cor[r])} /\ live' = live
    BY <1>7, ProviderCallbackDoes, GetUserDataDoes
  <2> QED
    BY <1>2, <1>4, <1>5, <1>6, <1>7, <2>1, ProviderCallbackDoes, GetUserDataDoes,
       Marked DEF TakenBack
<1>8. CASE Undo(r)
  BY <1>2, <1>4, <1>8, UndoDoes, Marked DEF OwnLogin
<1>9. CASE (\E f \in Flows : Authorize(r, f)) \/ Callback(r) \/ LogoutCallback(r)
           \/ AuthorizeSet(r) \/ ProviderAuthorize(r) \/ DrawSessionId(r)
  BY <1>4, <1>5, <1>6, <1>9, AuthorizeDoes, CallbackDoes, AuthorizeSetDoes,
     ProviderAuthorizeDoes, DrawSessionIdDoes, Marked, BlankIsMatched DEF Errors
<1>10. CASE SetRead(r) \/ Set(r) \/ BuildTOSRedirect(r) \/ Audit(r)
            \/ LoggedIn(r) \/ Forget(r)
  BY <1>2, <1>4, <1>5, <1>10, SetReadDoes, SetDoes, BuildTOSRedirectDoes, AuditDoes,
     LoggedInDoes, ForgetDoes, BlankIsMatched, Marked
<1>11. CASE CreateSession(r)
  <2>1. sid[r] # NoId
    BY <1>11 DEF OwnLogin, CreateSession
  <2> QED
    BY <1>6, <1>11, <2>1, CreateSessionDoes
<1> QED
  BY <1>4, <1>7, <1>8, <1>9, <1>10, <1>11 DEF Step, Proceed

LEMMA TakenBackKept ==
    ASSUME ~SharesPointers, ~StoreMayFail, Inv, Honest, OwnLogin, Distinct, Errors,
           TakenBack, NEW r \in Requests, Step(r)
    PROVE  TakenBack'
<1>1. \A q \in Requests \ {r} : pc'[q] = pc[q] /\ cor'[q] = cor[q]
  BY OthersKept
<1>2. drawn \subseteq drawn'
  BY DecidesOwn
<1>3. \A q \in Requests : pc[q] \in Pending => cor[q].id \in drawn
  BY DEF OwnLogin, Honest, Owned
<1>4. Unopened \subseteq Pending /\ "redirect" \notin Pending
  BY DEF Unopened, Pending, LoggingIn
<1>5. live' \subseteq drawn'
  BY <1>2, OpensOwn DEF TakenBack
<1>6. ASSUME NEW q \in Requests \ {r}, pc'[q] \in Unopened
      PROVE  cor'[q].id \notin live'
  BY <1>1, <1>4, <1>6, OpensOwn DEF TakenBack, Distinct, Unopened
<1>7. ASSUME pc'[r] \in Unopened
      PROVE  cor'[r].id \notin live'
  <2>1. live' \subseteq live
    BY <1>7, OpensOwn DEF Unopened
  <2>2. CASE DrawSessionId(r)
    BY <2>1, <2>2, DrawSessionIdDoes DEF TakenBack
  <2>3. CASE pc[r] \in Unopened /\ cor'[r].id = cor[r].id
    BY <2>1, <2>3 DEF TakenBack
  <2> QED
    BY <1>4, <1>7, <2>2, <2>3, PendingId, OpensOwn
<1>8. ASSUME NEW s \in Refused, s # NoId
      PROVE  /\ s \in drawn' \ live'
             /\ \A q \in Requests : pc'[q] \in Pending => cor'[q].id # s
  <2>1. s \in drawn \ live /\ \A q \in Requests : pc[q] \in Pending => cor[q].id # s
    BY <1>8 DEF TakenBack
  <2>2. s \notin live'
    BY <1>4, <2>1, OpensOwn DEF Unopened
  <2>3. pc'[r] \in Pending => cor'[r].id # s
    BY <2>1, PendingId
  <2> QED
    BY <1>1, <1>2, <2>1, <2>2, <2>3
<1>9. ASSUME NEW s \in Refused' \ Refused, s # NoId
      PROVE  /\ s \in drawn' \ live'
             /\ \A q \in Requests : pc'[q] \in Pending => cor'[q].id # s
  BY <1>1, <1>2, <1>3, <1>4, <1>9, RefusesOwn DEF Distinct
<1> QED
  BY <1>1, <1>5, <1>6, <1>7, <1>8, <1>9 DEF TakenBack

LEMMA CrashTakesBack ==
    ASSUME ~SharesPointers, Inv, Errors, TakenBack,
           NEW R \in SUBSET InFlight, Crash(R)
    PROVE  Errors' /\ TakenBack'
<1> USE CrashLeaves
<1>1. ~Blank.error /\ "idle" \notin Pending \cup Unopened
  BY DEF Blank, NewCorrelation, Pending, Unopened, LoggingIn
<1>2. Errors'
  BY <1>1 DEF Errors
<1>3. Refused' \subseteq Refused
  BY <1>1 DEF Refused
<1> QED
  BY <1>1, <1>2, <1>3 DEF TakenBack

(* However requests over copies overlap, and whatever else fails, a login  *)
(* that was answered with an error has no session.                         *)
LEMMA AlwaysTakenBack ==
    ASSUME ~SharesPointers, ~StoreMayFail
    PROVE  Spec => []FailedLoginLeavesNothing
<1>1. Init => Errors /\ TakenBack
  <2> SUFFICES ASSUME Init PROVE Errors /\ TakenBack
    OBVIOUS
  <2>1. ~Blank.error /\ "idle" \notin Pending \cup Unopened
    BY DEF Blank, NewCorrelation, Pending, Unopened, LoggingIn
  <2> QED
    BY <2>1 DEF Init, Errors, TakenBack, Refused
<1>2. Copies /\ Errors /\ TakenBack /\ [Next]_vars => (Errors /\ TakenBack)'
  <2> SUFFICES ASSUME Copies, Errors, TakenBack, [Next]_vars
               PROVE  Errors' /\ TakenBack'
    OBVIOUS
  <2>1. ASSUME NEW r \in Requests, Step(r)
        PROVE  Errors' /\ TakenBack'
    BY <2>1, ErrorsKept, TakenBackKept DEF Copies
  <2>2. ASSUME NEW R \in SUBSET InFlight, Crash(R)
        PROVE  Errors' /\ TakenBack'
    BY <2>2, CrashTakesBack DEF Copies
  <2>3. CASE UNCHANGED <<drawn, slot, live, pc, cor, base, answers>>
    BY <2>3 DEF Errors, TakenBack, Refused
  <2>4. CASE (\E k \in Slots : Lapse(k)) \/ UNCHANGED vars
    BY <2>3, <2>4 DEF Lapse, vars, requestVars
  <2> QED
    BY <2>1, <2>2, <2>4 DEF Next, Step
<1>3. Inv /\ TakenBack => FailedLoginLeavesNothing
  BY NoIdNotLive DEF TakenBack, Refused, FailedLoginLeavesNothing
<1>4. Copies => Inv
  BY DEF Copies
<1> QED
  BY <1>1, <1>2, <1>3, <1>4, AlwaysCopies, PTL DEF Spec

-----------------------------------------------------------------------------
(* The refinement. What a client sees is when a flow begins, an id is      *)
(* drawn, a session opened, a login given up and an answer sent; the rest  *)
(* of the code's steps leave the promise as it is.                         *)
GivenUp == Ended({"failed", "lost"})

LEMMA SlotsApart ==
    ASSUME NEW k \in Slots
    PROVE  /\ (drawn \cup {k}) \cap Flows = drawn \cap Flows
           /\ (drawn \cup {k}) \cap SessionIds = drawn \cap SessionIds
BY LoginFlowAssumption

LEMMA Unseen ==
    ASSUME drawn' \cap Flows = drawn \cap Flows,
           drawn' \cap SessionIds = drawn \cap SessionIds,
           UNCHANGED <<begunFor, live, answers>>, GivenUp' = GivenUp
    PROVE  UNCHANGED Promise!vars
BY DEF Promise!vars, GivenUp

LEMMA UnseenOutcome ==
    ASSUME UNCHANGED cacheVars, UNCHANGED storeVars
    PROVE  UNCHANGED Promise!vars
BY Unseen DEF cacheVars, storeVars, GivenUp, Ended

LEMMA UnseenStore ==
    ASSUME ~SharesPointers, Inv, NEW r \in Requests, NEW k \in Slots,
           StoreIn(r, cor[r], k), UNCHANGED storeVars
    PROVE  UNCHANGED Promise!vars
<1>1. drawn' = drawn \/ drawn' = drawn \cup {k}
  BY DEF StoreIn
<1> QED
  BY <1>1, SlotsApart, Unseen DEF storeVars, GivenUp, Ended

LEMMA AuthorizeBegins ==
    ASSUME ~SharesPointers, Inv, NEW r \in Requests, NEW f \in Flows,
           Authorize(r, f)
    PROVE  Promise!Begin(f)
<1>1. /\ f \notin drawn /\ drawn' = drawn \cup {f} /\ UNCHANGED storeVars
  BY AuthorizeDoes
<1>2. f \notin SessionIds
  BY LoginFlowAssumption
<1> QED
  BY <1>1, <1>2 DEF Promise!Begin, storeVars, Ended

LEMMA DrawSessionIdIdentifies ==
    ASSUME ~SharesPointers, Copies, NEW r \in Requests, DrawSessionId(r)
    PROVE  Promise!Next
<1>1. Inv /\ cor[r].flow \in drawn /\ cor[r].flow \in Flows
  BY OwnCopy, DrawSessionIdDoes DEF Copies, Begun, Matched, Correlation
<1>2. PICK s \in SessionIds \ drawn :
         /\ drawn' = drawn \cup {s}
         /\ begunFor' = [begunFor EXCEPT ![s] = cor[r].flow]
         /\ UNCHANGED <<live, outcome, answers>>
  BY <1>1, DrawSessionIdDoes
<1>3. s \notin Flows
  BY LoginFlowAssumption
<1>4. Promise!Identify(s, cor[r].flow)
  BY <1>1, <1>2, <1>3 DEF Promise!Identify, Ended
<1> QED
  BY <1>1, <1>2, <1>4 DEF Promise!Next

LEMMA CreateSessionOpens ==
    ASSUME ~SharesPointers, Copies, NEW r \in Requests, CreateSession(r)
    PROVE  [Promise!Next]_(Promise!vars)
<1> USE DEF LoggingIn, Pending
<1>1. Inv /\ pc[r] = "create" /\ sid[r] = cor[r].id /\ sid[r] # NoId
  BY DEF Copies, OwnLogin, CreateSession
<1>2. /\ sid[r] \in SessionIds /\ drawn' = drawn \cup {sid[r]}
      /\ live' = live \cup {sid[r]} \/ live' = live
      /\ UNCHANGED <<begunFor, outcome, answers>>
  BY <1>1, CreateSessionDoes
<1>3. sid[r] \in drawn /\ sid[r] \notin GivenUp
  BY <1>1 DEF Copies, Undecided, Honest, Owned, GivenUp
<1>4. drawn' = drawn
  BY <1>2, <1>3
<1>5. CASE live' = live
  BY <1>2, <1>4, <1>5, Unseen DEF GivenUp, Ended
<1>6. CASE live' = live \cup {sid[r]}
  <2>1. Promise!Open(sid[r])
    BY <1>2, <1>3, <1>4, <1>6 DEF Promise!Open, GivenUp, Ended
  <2> QED
    BY <1>2, <2>1 DEF Promise!Next
<1> QED
  BY <1>2, <1>5, <1>6

(* A failed login takes no session but its own. *)
LEMMA FailureGivesUp ==
    ASSUME ~SharesPointers, Copies, NEW r \in Requests, pc[r] \in LoggingIn,
           Conclude(sid[r], "failed"),
           live' = live \/ live' = live \ {sid[r]},
           UNCHANGED <<drawn, begunFor, answers>>
    PROVE  Promise!Next
<1>1. sid[r] = cor[r].id /\ sid[r] # NoId /\ sid[r] \in SessionIds
  BY DEF Copies, OwnLogin, Pending, Inv, Typed
<1>2. sid[r] \in drawn
  BY <1>1 DEF Copies, Honest, Owned
<1>3. outcome' = [outcome EXCEPT ![sid[r]] = "failed"]
  BY <1>1 DEF Conclude
<1>4. GivenUp' = GivenUp \cup {sid[r]}
  BY <1>1, <1>3 DEF GivenUp, Ended, Copies, Inv, Typed
<1>5. Promise!GiveUp({sid[r]})
  BY <1>1, <1>2, <1>4 DEF Promise!GiveUp, GivenUp
<1> QED
  BY <1>1, <1>5 DEF Promise!Next

LEMMA AuditUnseen ==
    ASSUME ~SharesPointers, Copies, NEW r \in Requests, Audit(r)
    PROVE  UNCHANGED Promise!vars
<1>1. /\ Inv /\ pc[r] = "audit" /\ sid[r] = cor[r].id
      /\ sid[r] # NoId /\ sid[r] \in SessionIds /\ sid[r] \notin GivenUp
  BY AuditDoes DEF Copies, OwnLogin, Undecided, Pending, LoggingIn, Inv, Typed,
                   GivenUp
<1>2. /\ UNCHANGED <<drawn, live, begunFor, answers>>
      /\ outcome' = outcome \/ outcome' = [outcome EXCEPT ![sid[r]] = "audited"]
  BY <1>1, AuditDoes DEF Conclude, cacheVars
<1>3. GivenUp' = GivenUp
  BY <1>1, <1>2 DEF GivenUp, Ended, Inv, Typed
<1> QED
  BY <1>2, <1>3, Unseen

(* An answer is for a flow that was asked for; with a code, for a session  *)
(* of the client that asked.                                               *)
LEMMA RedirectAnswers ==
    ASSUME ~SharesPointers, Copies, NEW r \in Requests, Redirect(r)
    PROVE  [Promise!Next]_(Promise!vars)
<1>1. /\ Inv /\ pc[r] = "redirect" /\ UNCHANGED cacheVars
      /\ UNCHANGED <<live, outcome, begunFor>>
  BY RedirectDoes DEF Copies
<1>2. CASE UNCHANGED answers
  BY <1>1, <1>2, UnseenOutcome DEF storeVars
<1>3. CASE answers' = answers \cup
                {[flow |-> cor[r].flow, id |-> cor[r].id,
                  error |-> cor[r].error, tos |-> cor[r].tos]}
  <2> DEFINE f == cor[r].flow
             s == cor[r].id
             new == [flow |-> f, id |-> s, error |-> cor[r].error,
                     tos |-> cor[r].tos]
             told == [flow |-> f, id |-> s, error |-> cor[r].error]
  <2>1. /\ f \in Flows /\ f \in drawn /\ cor[r].error \in BOOLEAN
        /\ s \in SessionIds \cup {NoId}
    BY <1>1, OwnCopy DEF Copies, Begun, Matched, Correlation
  <2>2. {Told(a) : a \in answers'} = {Told(a) : a \in answers} \cup {told}
    <3>1. Told(new) = told
      BY DEF Told
    <3>2. answers' = answers \cup {new}
      BY <1>3
    <3> HIDE DEF new, told
    <3> QED
      BY <3>1, <3>2
  <2>3. /\ drawn' = drawn /\ GivenUp' = GivenUp
        /\ UNCHANGED <<live, begunFor>>
    BY <1>1 DEF cacheVars, GivenUp, Ended
  <2>4. CASE cor[r].error = TRUE
    <3>1. Promise!Refuse(f, s)
      BY <2>1, <2>2, <2>3, <2>4 DEF Promise!Refuse, GivenUp
    <3> QED
      BY <2>1, <3>1 DEF Promise!Next
  <2>5. CASE cor[r].error = FALSE
    <3>1. /\ s # NoId /\ s \in drawn
          /\ ClientOf[begunFor[s]] = ClientOf[f]
      BY <1>1, <2>5 DEF Copies, OwnLogin, Honest, Owned, Matched
    <3>2. Promise!Answer(f, s)
      BY <2>1, <2>2, <2>3, <2>5, <3>1 DEF Promise!Answer, GivenUp
    <3> QED
      BY <2>1, <3>1, <3>2 DEF Promise!Next
  <2> QED
    BY <2>1, <2>4, <2>5
<1> QED
  BY <1>2, <1>3, RedirectDoes DEF Copies

LEMMA CrashGivesUp ==
    ASSUME ~SharesPointers, Copies, NEW R \in SUBSET InFlight, Crash(R)
    PROVE  Promise!Next
<1> DEFINE lost == LostWith(R)
<1>1. /\ lost \subseteq SessionIds /\ UNCHANGED <<drawn, live, begunFor, answers>>
      /\ \A s \in SessionIds : outcome'[s] = IF s \in lost THEN "lost" ELSE outcome[s]
  BY DEF Crash, InMemoryStore, LostWith
<1>2. lost \subseteq drawn
  BY DEF Copies, LostWith, InMemoryStore, OwnLogin, Honest, Owned, Pending, InFlight,
         Inv, Typed
<1>3. GivenUp' = GivenUp \cup lost
  BY <1>1 DEF GivenUp, Ended
<1>4. Promise!GiveUp(lost)
  BY <1>1, <1>2, <1>3 DEF Promise!GiveUp, GivenUp
<1> QED
  BY <1>1, <1>4 DEF Promise!Next

LEMMA StepKeepsPromise ==
    ASSUME ~SharesPointers, Copies, NEW r \in Requests, Step(r)
    PROVE  [Promise!Next]_(Promise!vars)
<1> USE DEF storeVars, cacheVars
<1>0. Inv
  BY DEF Copies
<1>1. CASE \E f \in Flows : Authorize(r, f)
  BY <1>0, <1>1, AuthorizeBegins DEF Promise!Next
<1>2. CASE Callback(r) \/ LogoutCallback(r) \/ ProviderAuthorize(r)
           \/ ProviderCallback(r) \/ GetUserData(r) \/ SetRead(r) \/ LoggedIn(r)
  BY <1>0, <1>2, CallbackDoes, ProviderAuthorizeDoes, ProviderCallbackDoes,
     GetUserDataDoes, SetReadDoes, LoggedInDoes, UnseenOutcome
<1>3. CASE AuthorizeSet(r)
  BY <1>0, <1>3, AuthorizeSetDoes, UnseenStore, UnseenOutcome
<1>4. CASE DrawSessionId(r)
  BY <1>4, DrawSessionIdIdentifies
<1>5. CASE Set(r)
  <2>1. CASE \E k \in Slots : StoreIn(r, cor[r], k) /\ UNCHANGED storeVars
    BY <1>0, <2>1, UnseenStore
  <2>2. CASE /\ pc[r] \in LoggingIn /\ Conclude(sid[r], "failed")
             /\ UNCHANGED cacheVars /\ UNCHANGED <<live, begunFor, answers>>
    BY <2>2, FailureGivesUp
  <2> QED
    BY <1>0, <1>5, <2>1, <2>2, SetDoes DEF LoggingIn
<1>6. CASE CreateSession(r)
  BY <1>6, CreateSessionOpens
<1>7. CASE Audit(r)
  BY <1>7, AuditUnseen
<1>8. CASE Undo(r)
  BY <1>0, <1>8, UndoDoes, FailureGivesUp DEF LoggingIn
<1>9. CASE Redirect(r)
  BY <1>9, RedirectAnswers
<1>10. CASE Forget(r)
  BY <1>0, <1>10, ForgetDoes, Unseen DEF GivenUp, Ended
<1>11. CASE BuildTOSRedirect(r)
  BY <1>0, <1>11, BuildTOSRedirectDoes, UnseenOutcome, FailureGivesUp DEF LoggingIn
<1> QED
  BY <1>1, <1>2, <1>3, <1>4, <1>5, <1>6, <1>7, <1>8, <1>9, <1>10, <1>11
  DEF Step, Proceed

LEMMA NextKeepsPromise ==
    ASSUME ~SharesPointers, Copies, [Next]_vars
    PROVE  [Promise!Next]_(Promise!vars)
<1>1. ASSUME NEW r \in Requests, Step(r)
      PROVE  [Promise!Next]_(Promise!vars)
  BY <1>1, StepKeepsPromise
<1>2. ASSUME NEW R \in SUBSET InFlight, Crash(R)
      PROVE  [Promise!Next]_(Promise!vars)
  BY <1>2, CrashGivesUp
<1>3. CASE UNCHANGED <<drawn, begunFor, live, outcome, answers>>
  BY <1>3, Unseen DEF GivenUp, Ended
<1>4. CASE \E k \in Slots : Lapse(k)
  BY <1>3, <1>4 DEF Lapse
<1> QED
  BY <1>1, <1>2, <1>3, <1>4 DEF Next, Step, vars

(* Over a cache of copies the login keeps what it promises its clients: a  *)
(* session is opened at most for the flow it was drawn for and never after *)
(* its login was given up, only a login that was given up loses its        *)
(* session, and an answer goes to a flow that asked, with a code only of   *)
(* that flow's client. For any number of tabs, flows and clients, and      *)
(* whatever of the caches, the store, the audit and the processes fails.   *)
THEOREM KeepsPromise ==
    ASSUME ~SharesPointers
    PROVE  Spec => ImplementsPromise
<1>1. Init => Promise!Init
  <2> SUFFICES ASSUME Init PROVE Promise!Init
    OBVIOUS
  <2>1. begunFor \in [SessionIds -> Flows]
    BY InitInv DEF Inv, Typed
  <2> QED
    BY <2>1 DEF Init, Promise!Init, Ended
<1>2. Copies /\ [Next]_vars => [Promise!Next]_(Promise!vars)
  BY NextKeepsPromise
<1> QED
  BY <1>1, <1>2, AlwaysCopies, PTL DEF Spec, ImplementsPromise, Promise!Spec
=============================================================================
