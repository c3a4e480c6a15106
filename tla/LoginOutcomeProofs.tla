------------------------- MODULE LoginOutcomeProofs -------------------------
(***************************************************************************)
(* What becomes of a login, and what the audit log and the client learn of *)
(* it, for the most part where the caches answer and the requests of a     *)
(* browser do not overlap.                                                 *)
(***************************************************************************)
EXTENDS LoginPromiseProofs

(* Over the objects of one cache. A slot that was drawn keeps its client,  *)
(* whoever works on it, and its flow has been asked for; a request under   *)
(* way works on such a slot, for a session of that client.                 *)
Asked ==
    /\ present \subseteq drawn
    /\ \A k \in Slots \cap drawn : slot[k].flow \in drawn
    /\ \A r \in Requests :
          /\ pc[r] \notin {"idle", "authorize_set"} => at[r] \in drawn
          /\ pc[r] = "authorize_set" => cor[r].flow \in drawn
          /\ found[r] => carried[r] \in drawn
          /\ pc[r] \in LoggingIn /\ sid[r] # NoId =>
                /\ sid[r] \in drawn
                /\ ClientOf[begunFor[sid[r]]] = slot[at[r]].client

(* What a step leaves of the slots, whoever takes it. *)
Steady ==
    /\ Grows
    /\ present' \subseteq drawn'
    /\ \A k \in Slots \cap drawn : slot'[k].client = slot[k].client
    /\ \A k \in Slots \cap drawn' : slot'[k].flow \in drawn'

LEMMA SameSlots ==
    ASSUME Asked, Grows, UNCHANGED slot, present' \subseteq present,
           Slots \cap drawn' = Slots \cap drawn
    PROVE  Steady
BY DEF Asked, Grows, Steady

LEMMA WriteSteady ==
    ASSUME SharesPointers, Inv, Asked, NEW r \in Requests,
           pc[r] \notin {"idle", "authorize_set"}, NEW c, Write(r, c),
           c.client = View(r).client, c.flow = View(r).flow, Grows,
           UNCHANGED present, Slots \cap drawn' = Slots \cap drawn
    PROVE  Steady
<1>1. at[r] \in Slots /\ View(r) = slot[at[r]]
  BY DEF View, Inv, Located
<1>2. \A k \in Slots : slot'[k].client = slot[k].client /\ slot'[k].flow = slot[k].flow
  BY <1>1 DEF Write, Inv, Records
<1> QED
  BY <1>2 DEF Asked, Grows, Steady

LEMMA StoreInSteady ==
    ASSUME SharesPointers, Inv, Asked, NEW r \in Requests, NEW c \in Matched,
           c.flow \in drawn, NEW k \in Slots, StoreIn(r, c, k),
           UNCHANGED begunFor
    PROVE  Steady /\ k \in drawn'
<1>1. CASE Reusable(r, c)
  <2>1. /\ k = carried[r] /\ k \in drawn /\ drawn' = drawn
        /\ slot' = [slot EXCEPT ![k] = Merge(slot[k], c)]
    BY <1>1 DEF StoreIn, Reusable, Base, Asked
  <2>2. /\ Merge(slot[k], c).client = slot[k].client
        /\ Merge(slot[k], c).flow \in {c.flow, slot[k].flow}
    BY DEF Merge
  <2>3. slot'[k] = Merge(slot[k], c) /\ \A j \in Slots \ {k} : slot'[j] = slot[j]
    BY <2>1 DEF Inv, Records
  <2> QED
    BY <2>1, <2>2, <2>3 DEF StoreIn, Asked, Grows, Steady
<1>2. CASE ~Reusable(r, c)
  <2> DEFINE new == [c EXCEPT !.id = NoId, !.error = FALSE, !.tos = FALSE]
  <2>1. new.flow = c.flow
    BY DEF Matched, Correlation
  <2>2. /\ drawn' = drawn \cup {k} /\ k \notin drawn
        /\ slot' = [slot EXCEPT ![k] = new]
    BY <1>2 DEF StoreIn
  <2> HIDE DEF new
  <2>3. slot'[k] = new /\ \A j \in Slots \ {k} : slot'[j] = slot[j]
    BY <2>2 DEF Inv, Records
  <2> QED
    BY <2>1, <2>2, <2>3 DEF StoreIn, Asked, Grows, Steady
<1> QED
  BY <1>1, <1>2

LEMMA StepSteady ==
    ASSUME SharesPointers, Inv, Asked, NEW r \in Requests, Step(r)
    PROVE  Steady
<1>1. CASE \/ \E f \in Flows : Authorize(r, f)
           \/ LogoutCallback(r) \/ ProviderAuthorize(r) \/ SetRead(r) \/ Audit(r)
           \/ LoggedIn(r) \/ Redirect(r) \/ Forget(r)
  <2>1. /\ drawn' = drawn \/ \E f \in Flows : drawn' = drawn \cup {f}
        /\ present' \subseteq present /\ UNCHANGED <<slot, begunFor>>
    BY <1>1 DEF Authorize, LogoutCallback, ProviderAuthorize, SetRead, Audit,
                LoggedIn, Redirect, Forget
  <2>2. Grows /\ Slots \cap drawn' = Slots \cap drawn
    BY <2>1, SameGrows, LoginFlowAssumption
  <2> QED
    BY <2>1, <2>2, SameSlots
<1>2. CASE AuthorizeSet(r)
  <2>1. CASE \E k \in Slots : StoreIn(r, cor[r], k)
    BY <1>2, <2>1, StoreInSteady DEF AuthorizeSet, Asked, Inv, Records
  <2>2. CASE UNCHANGED <<drawn, present, slot>>
    BY <1>2, <2>2, SameGrows, SameSlots DEF AuthorizeSet
  <2> QED
    BY <1>2, <2>1, <2>2 DEF AuthorizeSet
<1>3. CASE Callback(r)
  <2>1. /\ cookie \in Slots /\ UNCHANGED <<drawn, present, begunFor>>
        /\ UNCHANGED slot \/ slot' = [slot EXCEPT ![cookie] = WithError(slot[cookie])]
    BY <1>3 DEF Callback, Arrive, Inv, Typed
  <2>2. \A k \in Slots : slot'[k].client = slot[k].client /\ slot'[k].flow = slot[k].flow
    BY <2>1, ErrorIsMatched DEF Inv, Records
  <2> QED
    BY <2>1, <2>2, SameGrows DEF Asked, Steady
<1>4. CASE DrawSessionId(r)
  <2>1. PICK s \in SessionIds \ drawn :
           /\ drawn' = drawn \cup {s}
           /\ begunFor' = [begunFor EXCEPT ![s] = View(r).flow]
           /\ Write(r, [View(r) EXCEPT !.id = s])
    BY <1>4 DEF DrawSessionId
  <2>2. Grows /\ Slots \cap drawn' = Slots \cap drawn
    BY <2>1, DrawsGrows, LoginFlowAssumption
  <2>3. View(r) \in Matched /\ pc[r] = "draw"
    BY <1>4, ViewIsMatched DEF DrawSessionId, Inv, Located
  <2>4. /\ [View(r) EXCEPT !.id = s].client = View(r).client
        /\ [View(r) EXCEPT !.id = s].flow = View(r).flow
    BY <2>3, DrawnIsMatched, Marked
  <2> QED
    BY <1>4, <2>1, <2>2, <2>3, <2>4, WriteSteady DEF DrawSessionId
<1>5. CASE ProviderCallback(r) \/ GetUserData(r) \/ BuildTOSRedirect(r) \/ Undo(r)
  <2>1. /\ pc[r] \notin {"idle", "authorize_set"}
        /\ UNCHANGED <<drawn, present, begunFor>>
        /\ \/ UNCHANGED slot
           \/ Write(r, WithError(View(r))) \/ Write(r, WithTOSTarget(View(r)))
    BY <1>5 DEF ProviderCallback, ProviderRefuses, MapClaims, GetUserData,
                BuildTOSRedirect, Undo
  <2>2. View(r) \in Matched
    BY <2>1, ViewIsMatched DEF Inv, Located
  <2>3. /\ WithError(View(r)).client = View(r).client
        /\ WithTOSTarget(View(r)).client = View(r).client
        /\ WithError(View(r)).flow = View(r).flow
        /\ WithTOSTarget(View(r)).flow = View(r).flow
    BY <2>2 DEF WithError, WithTOSTarget, Matched, Correlation
  <2> QED
    BY <2>1, <2>3, SameGrows, SameSlots, WriteSteady
<1>6. CASE Set(r)
  <2>1. CASE \E k \in Slots : StoreIn(r, View(r), k)
    <3>1. View(r) \in Matched /\ View(r).flow \in drawn
      BY <1>6, ViewIsMatched DEF Set, View, Inv, Located, Asked
    <3> QED
      BY <1>6, <2>1, <3>1, StoreInSteady DEF Set
  <2>2. CASE UNCHANGED <<drawn, present, slot>>
    BY <1>6, <2>2, SameGrows, SameSlots DEF Set
  <2> QED
    BY <1>6, <2>1, <2>2 DEF Set
<1>7. CASE CreateSession(r)
  <2>1. PICK s \in NewSessionIds(r) :
           /\ drawn' = drawn \cup {s}
           /\ begunFor' = IF sid[r] # NoId THEN begunFor
                          ELSE [begunFor EXCEPT ![s] = View(r).flow]
    BY <1>7 DEF CreateSession
  <2>2. Grows
    BY <2>1, SameGrows, DrawsGrows DEF NewSessionIds
  <2>3. s \in SessionIds
    BY <2>1 DEF NewSessionIds, Inv, Typed
  <2> QED
    BY <1>7, <2>1, <2>2, <2>3, SameSlots, LoginFlowAssumption DEF CreateSession
<1> QED
  BY <1>1, <1>2, <1>3, <1>4, <1>5, <1>6, <1>7 DEF Step, Proceed

LEMMA OthersStay ==
    ASSUME Inv, NEW r \in Requests, Step(r), NEW q \in Requests \ {r}
    PROVE  /\ pc'[q] = pc[q] /\ at'[q] = at[q] /\ carried'[q] = carried[q]
           /\ cor'[q] = cor[q] /\ found'[q] = found[q] /\ sid'[q] = sid[q]
<1> USE DEF Goto, Write, Finish, ReadSlot, PutAside, Arrive, Inv, Typed, Records
<1>1. CASE (\E f \in Flows : Authorize(r, f)) \/ Callback(r) \/ LogoutCallback(r)
  BY <1>1 DEF Authorize, Callback, LogoutCallback
<1>2. CASE AuthorizeSet(r) \/ ProviderAuthorize(r)
  BY <1>2 DEF AuthorizeSet, ProviderAuthorize, SendToProvider
<1>3. CASE DrawSessionId(r) \/ ProviderCallback(r) \/ GetUserData(r)
  BY <1>3 DEF DrawSessionId, ProviderCallback, ProviderRefuses, MapClaims,
              GetUserData
<1>4. CASE SetRead(r) \/ Set(r)
  BY <1>4 DEF SetRead, Set
<1>5. CASE CreateSession(r) \/ BuildTOSRedirect(r)
  BY <1>5 DEF CreateSession, BuildTOSRedirect
<1>6. CASE Audit(r) \/ Undo(r) \/ LoggedIn(r)
  BY <1>6 DEF Audit, SaveEvent, Undo, LoggedIn
<1>7. CASE Redirect(r) \/ Forget(r)
  BY <1>7 DEF Redirect, Forget
<1> QED
  BY <1>1, <1>2, <1>3, <1>4, <1>5, <1>6, <1>7 DEF Step, Proceed

(* What a step leaves of its own request. *)
LEMMA OwnAsked ==
    ASSUME SharesPointers, Inv, Honest, Asked, NEW r \in Requests, Step(r)
    PROVE  /\ pc'[r] \notin {"idle", "authorize_set"} => at'[r] \in drawn'
           /\ pc'[r] = "authorize_set" => cor'[r].flow \in drawn'
           /\ found'[r] => carried'[r] \in drawn'
           /\ pc'[r] \in LoggingIn /\ sid'[r] # NoId =>
                 /\ sid'[r] \in drawn'
                 /\ ClientOf[begunFor'[sid'[r]]] = slot'[at'[r]].client
<1> USE DEF Inv, Typed
<1>1. Steady /\ drawn \subseteq drawn'
  BY StepSteady DEF Steady, Grows
<1>2. \A k \in Slots \cap drawn : slot'[k].client = slot[k].client
  BY <1>1 DEF Steady
<1>3. CASE \E f \in Flows : Authorize(r, f)
  <2>1. PICK f \in Flows : Authorize(r, f)
    BY <1>3
  <2>2. /\ pc'[r] = "authorize_set" /\ cor'[r].flow = f /\ drawn' = drawn \cup {f}
        /\ present' = present /\ (found'[r] => carried'[r] \in present)
    BY <2>1 DEF Authorize, ReadSlot, Goto, NewCorrelation, Records
  <2> QED
    BY <2>2 DEF Asked, LoggingIn
<1>4. CASE Callback(r) \/ LogoutCallback(r)
  <2>1. /\ pc'[r] \in {"redirect", "draw"} /\ at'[r] \in present
        /\ carried'[r] \in present /\ drawn' = drawn
    BY <1>4 DEF Callback, LogoutCallback, Arrive, Goto
  <2> QED
    BY <2>1 DEF Asked, LoggingIn
<1>5. CASE AuthorizeSet(r) \/ ProviderAuthorize(r) \/ Redirect(r) \/ Forget(r)
           \/ LoggedIn(r)
  <2>1. ASSUME NEW k \in Slots, StoreIn(r, cor[r], k), pc[r] = "authorize_set",
               UNCHANGED begunFor
        PROVE  k \in drawn'
    BY <2>1, StoreInSteady DEF Asked, Records
  <2>2. CASE \E jar : Finish(r, jar)
    BY <2>2 DEF Finish, Goto, LoggingIn
  <2>3. CASE AuthorizeSet(r) /\ ~\E jar : Finish(r, jar)
    BY <2>1, <2>3 DEF AuthorizeSet, PutAside, Goto, LoggingIn
  <2>4. CASE /\ pc[r] \notin {"idle", "authorize_set"} /\ UNCHANGED <<at, found, carried>>
             /\ pc'[r] \in {"redirect", "forget"}
    BY <1>1, <2>4 DEF Asked, LoggingIn
  <2> QED
    BY <1>5, <2>2, <2>3, <2>4 DEF ProviderAuthorize, SendToProvider, Redirect,
                                  Forget, LoggedIn, Goto
<1>6. CASE DrawSessionId(r) \/ ProviderCallback(r)
  <2>1. /\ pc[r] \notin {"idle", "authorize_set"} /\ UNCHANGED <<at, found, carried>>
        /\ pc'[r] \notin LoggingIn \cup {"authorize_set"}
    BY <1>6 DEF DrawSessionId, ProviderCallback, ProviderRefuses, MapClaims, Goto,
                LoggingIn
  <2> QED
    BY <1>1, <2>1 DEF Asked
<1>7. CASE GetUserData(r)
  <2>1. /\ pc[r] = "ask" /\ UNCHANGED <<at, found, carried, drawn, begunFor>>
        /\ pc'[r] \in LoggingIn =>
              sid'[r] = View(r).id /\ UNCHANGED slot
        /\ pc'[r] # "authorize_set"
    BY <1>7 DEF GetUserData, Goto, LoggingIn
  <2>2. View(r) = slot[at[r]] /\ View(r) \in Owned
    BY <2>1, ViewIsOwned DEF View, Located
  <2> QED
    BY <2>1, <2>2 DEF Asked, Owned
<1>8. CASE SetRead(r) \/ Set(r) \/ BuildTOSRedirect(r) \/ Audit(r) \/ Undo(r)
  <2>1. /\ pc[r] \in LoggingIn /\ UNCHANGED <<at, carried, sid, begunFor>>
        /\ pc'[r] # "authorize_set"
        /\ found'[r] => found[r] \/ carried[r] \in present
    BY <1>8 DEF SetRead, ReadSlot, Set, PutAside, BuildTOSRedirect, Audit, SaveEvent,
                Undo, Goto, LoggingIn
  <2>2. at[r] \in Slots \cap drawn
    BY <2>1 DEF Located, LoggingIn, Asked
  <2> QED
    BY <1>1, <1>2, <2>1, <2>2 DEF Asked, LoggingIn
<1>9. CASE CreateSession(r)
  <2>1. PICK s \in NewSessionIds(r) :
           /\ drawn' = drawn \cup {s} /\ sid'[r] = s
           /\ begunFor' = IF sid[r] # NoId THEN begunFor
                          ELSE [begunFor EXCEPT ![s] = View(r).flow]
    BY <1>9 DEF CreateSession
  <2>2. /\ pc[r] = "create" /\ UNCHANGED <<at, carried, found, slot>>
        /\ pc'[r] # "authorize_set"
    BY <1>9 DEF CreateSession, Goto
  <2>3. at[r] \in Slots \cap drawn /\ View(r) = slot[at[r]] /\ View(r) \in Matched
    BY <2>2, ViewIsMatched DEF View, Located, Asked
  <2>4. CASE sid[r] # NoId
    BY <1>1, <2>1, <2>2, <2>3, <2>4 DEF Asked, NewSessionIds, LoggingIn
  <2>5. CASE sid[r] = NoId
    <3>1. s \in SessionIds /\ begunFor'[s] = slot[at[r]].flow
      BY <2>1, <2>3, <2>5 DEF NewSessionIds
    <3> QED
      BY <1>1, <2>1, <2>2, <2>3, <3>1 DEF Asked, Matched
  <2> QED
    BY <2>4, <2>5
<1> QED
  BY <1>3, <1>4, <1>5, <1>6, <1>7, <1>8, <1>9 DEF Step, Proceed

LEMMA NextAsked ==
    ASSUME SharesPointers, Inv, Honest, Asked, [Next]_vars
    PROVE  Asked'
<1>1. ASSUME NEW r \in Requests, Step(r)
      PROVE  Asked'
  <2>1. Steady
    BY <1>1, StepSteady
  <2>2. ASSUME NEW q \in Requests \ {r}
        PROVE  /\ pc'[q] \notin {"idle", "authorize_set"} => at'[q] \in drawn'
               /\ pc'[q] = "authorize_set" => cor'[q].flow \in drawn'
               /\ found'[q] => carried'[q] \in drawn'
               /\ pc'[q] \in LoggingIn /\ sid'[q] # NoId =>
                     /\ sid'[q] \in drawn'
                     /\ ClientOf[begunFor'[sid'[q]]] = slot'[at'[q]].client
    <3>1. /\ pc'[q] = pc[q] /\ at'[q] = at[q] /\ carried'[q] = carried[q]
          /\ cor'[q] = cor[q] /\ found'[q] = found[q] /\ sid'[q] = sid[q]
      BY <1>1, OthersStay
    <3>2. pc[q] \in LoggingIn => at[q] \in Slots \cap drawn
      BY DEF Inv, Located, LoggingIn, Asked
    <3>3. sid[q] # NoId => sid[q] \in SessionIds
      BY DEF Inv, Typed
    <3> QED
      BY <2>1, <3>1, <3>2, <3>3 DEF Asked, Steady, Grows
  <2> QED
    BY <1>1, <2>1, <2>2, OwnAsked DEF Asked, Steady
<1>2. ASSUME NEW R \in SUBSET InFlight, Crash(R)
      PROVE  Asked'
  <2>1. /\ present' = {} /\ UNCHANGED <<drawn, slot>>
        /\ \A r \in Requests :
              /\ pc'[r] = "idle"
              /\ found'[r] => found[r] /\ carried'[r] = carried[r]
    BY <1>2 DEF Crash, Reset, InFlight
  <2> QED
    BY <2>1 DEF Asked, LoggingIn
<1>3. CASE /\ UNCHANGED <<drawn, slot, begunFor, requestVars>>
           /\ present' \subseteq present
  BY <1>3 DEF Asked, requestVars
<1> QED
  BY <1>1, <1>2, <1>3 DEF Next, Step, Lapse, vars

-----------------------------------------------------------------------------
(* A session in the store is one the audit log knows of, or its login is   *)
(* still on its way, or its terms page cannot be made; a store that        *)
(* answers lets no Create fail.                                            *)
Recorded ==
    /\ AuditedLogins
    /\ live \subseteq drawn
    /\ \A r \in Requests : ~failed[r]
    /\ \A r \in Requests : pc[r] = "terms" => sid[r] \in owing

(* The redirect URI a terms page is to be made from is one of the client   *)
(* whose login it is.                                                      *)
Traced ==
    \A r \in Requests : pc[r] = "terms" /\ sid[r] # NoId =>
        /\ View(r).flow \in drawn \cap Flows
        /\ ClientOf[begunFor[sid[r]]] = ClientOf[View(r).flow]

LEMMA AskedTraced ==
    ASSUME SharesPointers, Inv, Asked
    PROVE  Traced
<1> SUFFICES ASSUME NEW r \in Requests, pc[r] = "terms", sid[r] # NoId
             PROVE  /\ View(r).flow \in drawn \cap Flows
                    /\ ClientOf[begunFor[sid[r]]] = ClientOf[View(r).flow]
  BY DEF Traced
<1>1. at[r] \in Slots \cap drawn /\ View(r) = slot[at[r]] /\ View(r) \in Matched
  BY ViewIsMatched DEF View, Inv, Located, Asked
<1> QED
  BY <1>1 DEF Asked, LoggingIn, Matched, Correlation

LEMMA CopiesTraced ==
    ASSUME ~SharesPointers, Copies
    PROVE  Traced
BY DEF Traced, Copies, OwnLogin, Pending, LoggingIn, Begun, Honest, Owned, View,
       Matched, Correlation

(* A session that is left aside stays accounted for. *)
LEMMA NoTermsPageStays ==
    ASSUME Inv, Recorded, Grows, owing \subseteq owing', NEW s \in live,
           NoTermsPage(s), outcome'[s] = outcome[s]
    PROVE  NoTermsPage(s)'
BY DEF NoTermsPage, Ended, Grows, Recorded, Inv, Typed

(* Steps of a request that end no login and open no session. *)
LEMMA RecordedStays ==
    ASSUME Inv, Recorded, Grows, NEW r \in Requests,
           UNCHANGED <<live, outcome, owing>>,
           failed' = failed \/ failed' = [failed EXCEPT ![r] = FALSE],
           \A q \in Requests \ {r} : pc'[q] = pc[q] /\ sid'[q] = sid[q],
           pc[r] \in LoggingIn => pc'[r] \in LoggingIn /\ sid'[r] = sid[r],
           pc'[r] # "terms"
    PROVE  Recorded'
<1>1. \A q \in Requests : ~failed'[q]
  BY DEF Recorded, Inv, Typed
<1>2. \A q \in Requests : pc[q] \in LoggingIn =>
         pc'[q] \in LoggingIn /\ sid'[q] = sid[q]
  OBVIOUS
<1>3. \A q \in Requests : pc'[q] = "terms" => sid'[q] \in owing'
  BY DEF Recorded
<1>4. live' \subseteq drawn'
  BY DEF Recorded, Grows
<1>5. \A s \in live : NoTermsPage(s) => NoTermsPage(s)'
  BY NoTermsPageStays
<1> QED
  BY <1>1, <1>2, <1>3, <1>4, <1>5 DEF Recorded, AuditedLogins

LEMMA CreateSessionRecorded ==
    ASSUME ~StoreMayFail, Inv, Recorded, NEW r \in Requests, CreateSession(r)
    PROVE  Recorded'
<1>1. PICK s \in NewSessionIds(r) :
         /\ sid' = [sid EXCEPT ![r] = s] /\ live' = live \cup {s}
         /\ drawn' = drawn \cup {s}
         /\ begunFor' = IF sid[r] # NoId THEN begunFor
                        ELSE [begunFor EXCEPT ![s] = View(r).flow]
         /\ UNCHANGED <<failed, outcome>>
         /\ \/ pc' = [pc EXCEPT ![r] = "terms"] /\ owing' = owing \cup {s}
            \/ pc' = [pc EXCEPT ![r] = "audit"] /\ owing' = owing
  BY DEF CreateSession, Goto
<1>2. /\ pc'[r] \in LoggingIn /\ sid'[r] = s
      /\ pc'[r] = "terms" => s \in owing'
      /\ \A q \in Requests \ {r} : pc'[q] = pc[q] /\ sid'[q] = sid[q]
  BY <1>1 DEF Inv, Typed, LoggingIn
<1>3. sid[r] \in live => sid[r] = s
  BY <1>1, LoginFlowAssumption DEF NewSessionIds, Inv, Typed
<1>4. Grows
  BY <1>1, SameGrows, DrawsGrows DEF NewSessionIds
<1>5. ASSUME NEW t \in live'
      PROVE  \/ outcome'[t] = "audited"
             \/ \E q \in Requests : sid'[q] = t /\ pc'[q] \in LoggingIn
             \/ NoTermsPage(t)'
  <2>1. CASE t = s
    BY <1>2, <2>1
  <2>2. CASE t # s
    <3>1. t \in live /\ outcome'[t] = outcome[t]
      BY <1>1, <2>2
    <3>2. CASE NoTermsPage(t)
      BY <1>1, <1>4, <3>1, <3>2, NoTermsPageStays
    <3>3. CASE ~NoTermsPage(t)
      BY <1>2, <1>3, <2>2, <3>1, <3>3 DEF Recorded, AuditedLogins
    <3> QED
      BY <3>2, <3>3
  <2> QED
    BY <2>1, <2>2
<1>6. \A q \in Requests : pc'[q] = "terms" => sid'[q] \in owing'
  BY <1>1, <1>2 DEF Recorded
<1> QED
  BY <1>1, <1>5, <1>6 DEF Recorded, AuditedLogins

(* The one login that is left with a session and no audit event. *)
LEMMA BuildTOSRedirectRecorded ==
    ASSUME Inv, Traced, Recorded, NEW r \in Requests, BuildTOSRedirect(r)
    PROVE  Recorded'
<1>1. /\ UNCHANGED <<live, owing, failed, sid, drawn, begunFor>> /\ pc[r] = "terms"
      /\ \A q \in Requests \ {r} : pc'[q] = pc[q]
  BY DEF BuildTOSRedirect, Goto, Inv, Typed
<1>2. Grows
  BY <1>1, SameGrows
<1>3. CASE View(r).flow \notin Unparsable
  <2>1. UNCHANGED outcome /\ pc'[r] = "tos_read"
    BY <1>3 DEF BuildTOSRedirect, Goto, Inv, Typed
  <2> QED
    BY <1>1, <1>2, <2>1, RecordedStays DEF LoggingIn
<1>4. CASE View(r).flow \in Unparsable
  <2>1. Conclude(sid[r], "failed") /\ pc'[r] = "redirect"
    BY <1>4 DEF BuildTOSRedirect, Goto, Inv, Typed
  <2>2. ASSUME NEW s \in live, s = sid[r]
        PROVE  NoTermsPage(s)'
    <3>1. s # NoId /\ s \in SessionIds /\ s \in owing
      BY <1>1, <2>2, NoIdNotLive DEF Recorded, Inv, Typed
    <3>2. /\ View(r).flow \in Unparsable \cap drawn
          /\ ClientOf[begunFor[s]] = ClientOf[View(r).flow]
      BY <1>1, <1>4, <2>2, <3>1 DEF Traced
    <3>3. outcome'[s] = "failed"
      BY <2>1, <2>2, <3>1 DEF Conclude, Inv, Typed
    <3> QED
      BY <1>1, <3>1, <3>2, <3>3 DEF NoTermsPage, Ended
  <2>3. ASSUME NEW s \in live, s # sid[r]
        PROVE  \/ outcome'[s] = "audited"
               \/ \E q \in Requests : sid'[q] = s /\ pc'[q] \in LoggingIn
               \/ NoTermsPage(s)'
    <3>1. outcome'[s] = outcome[s]
      BY <2>1, <2>3 DEF Conclude, Inv, Typed
    <3>2. CASE NoTermsPage(s)
      BY <1>1, <1>2, <3>1, <3>2, NoTermsPageStays
    <3>3. CASE ~NoTermsPage(s)
      BY <1>1, <2>3, <3>1, <3>3 DEF Recorded, AuditedLogins
    <3> QED
      BY <3>2, <3>3
  <2> QED
    BY <1>1, <2>1, <2>2, <2>3 DEF Recorded, AuditedLogins
<1> QED
  BY <1>3, <1>4

LEMMA AuditRecorded ==
    ASSUME Inv, Recorded, NEW r \in Requests, Audit(r)
    PROVE  Recorded'
<1>1. /\ ~failed[r] /\ UNCHANGED <<live, failed, sid, owing>>
      /\ pc[r] = "audit" /\ Grows
  BY SameGrows DEF Recorded, Audit
<1>2. /\ \A q \in Requests \ {r} : pc'[q] = pc[q]
      /\ pc'[r] \in {"undo", "done"}
  BY DEF Audit, SaveEvent, Goto, Inv, Typed
<1>3. CASE outcome' = outcome /\ pc'[r] = "undo"
  BY <1>1, <1>2, <1>3, RecordedStays DEF LoggingIn
<1>4. CASE Conclude(sid[r], "audited")
  <2>1. ASSUME NEW s \in live
        PROVE  /\ outcome[s] = "audited" => outcome'[s] = "audited"
               /\ s = sid[r] => outcome'[s] = "audited"
               /\ s # sid[r] => outcome'[s] = outcome[s]
    BY <1>4, <2>1, LoginFlowAssumption DEF Conclude, Inv, Typed
  <2>2. \A s \in live : NoTermsPage(s) => NoTermsPage(s)' \/ outcome'[s] = "audited"
    BY <1>1, <2>1, NoTermsPageStays
  <2> QED
    BY <1>1, <1>2, <2>1, <2>2 DEF Recorded, AuditedLogins, Grows
<1> QED
  BY <1>1, <1>3, <1>4 DEF Audit, SaveEvent, Goto, Inv, Typed

(* Its session is gone: nothing to account for. *)
LEMMA UndoRecorded ==
    ASSUME ~StoreMayFail, Inv, Recorded, NEW r \in Requests, Undo(r)
    PROVE  Recorded'
<1>1. /\ live' = live \ {sid[r]} /\ UNCHANGED <<failed, sid, owing>> /\ Grows
      /\ Conclude(sid[r], "failed")
  BY SameGrows DEF Undo
<1>2. /\ \A q \in Requests \ {r} : pc'[q] = pc[q]
      /\ pc'[r] = "redirect"
  BY DEF Undo, Goto, Inv, Typed
<1>3. \A s \in live' : outcome'[s] = outcome[s]
  BY <1>1 DEF Conclude, Inv, Typed
<1>4. \A s \in live' : NoTermsPage(s) => NoTermsPage(s)'
  BY <1>1, <1>3, NoTermsPageStays
<1> QED
  BY <1>1, <1>2, <1>3, <1>4 DEF Recorded, AuditedLogins, Grows

LEMMA ProceedRecorded ==
    ASSUME ~StoreMayFail, ~CacheMayFail, Inv, Traced, Recorded, NEW r \in Requests,
           Proceed(r)
    PROVE  Recorded'
<1> USE DEF Inv, Typed, LoggingIn, Goto
<1>1. CASE AuthorizeSet(r) \/ ProviderAuthorize(r) \/ LoggedIn(r) \/ Redirect(r)
           \/ Forget(r)
  <2>1. /\ UNCHANGED <<live, outcome, owing, begunFor>> /\ drawn \subseteq drawn'
        /\ failed' = failed \/ failed' = [failed EXCEPT ![r] = FALSE]
        /\ \A q \in Requests \ {r} : pc'[q] = pc[q] /\ sid'[q] = sid[q]
        /\ pc[r] \notin LoggingIn /\ pc'[r] # "terms"
    BY <1>1 DEF AuthorizeSet, StoreIn, ProviderAuthorize, SendToProvider, LoggedIn,
                Redirect, Forget, Finish
  <2> QED
    BY <2>1, SameGrows, RecordedStays
<1>2. CASE DrawSessionId(r) \/ ProviderCallback(r) \/ GetUserData(r)
  <2>1. /\ UNCHANGED <<live, outcome, owing, failed>>
        /\ \A q \in Requests \ {r} : pc'[q] = pc[q] /\ sid'[q] = sid[q]
        /\ pc[r] \notin LoggingIn /\ pc'[r] # "terms"
    BY <1>2 DEF DrawSessionId, ProviderCallback, ProviderRefuses, MapClaims,
                GetUserData
  <2>2. Grows
    BY <1>2, SameGrows, DrawsGrows DEF DrawSessionId, ProviderCallback,
       ProviderRefuses, MapClaims, GetUserData
  <2> QED
    BY <2>1, <2>2, RecordedStays
<1>3. CASE SetRead(r) \/ Set(r)
  <2>1. /\ UNCHANGED <<live, outcome, owing, failed, sid, begunFor>>
        /\ drawn \subseteq drawn'
        /\ \A q \in Requests \ {r} : pc'[q] = pc[q]
        /\ pc'[r] \in LoggingIn \ {"terms"}
    BY <1>3 DEF SetRead, Set, StoreIn
  <2> QED
    BY <2>1, SameGrows, RecordedStays
<1>4. CASE CreateSession(r) \/ BuildTOSRedirect(r) \/ Audit(r) \/ Undo(r)
  BY <1>4, CreateSessionRecorded, BuildTOSRedirectRecorded, AuditRecorded,
     UndoRecorded
<1> QED
  BY <1>1, <1>2, <1>3, <1>4 DEF Proceed

LEMMA NextRecorded ==
    ASSUME ~StoreMayFail, ~CacheMayFail, SharesPointers \/ ~MayCrash,
           Inv, Traced, Recorded, [Next]_vars
    PROVE  Recorded'
<1>1. ASSUME NEW r \in Requests,
             (\E f \in Flows : Authorize(r, f)) \/ Callback(r) \/ LogoutCallback(r)
      PROVE  Recorded'
  <2>1. /\ UNCHANGED <<live, outcome, owing, failed, sid, begunFor>>
        /\ drawn \subseteq drawn' /\ pc[r] = "idle" /\ pc'[r] # "terms"
        /\ \A q \in Requests \ {r} : pc'[q] = pc[q]
    BY <1>1 DEF Authorize, Callback, LogoutCallback, Arrive, Goto, Inv, Typed
  <2> QED
    BY <2>1, SameGrows, RecordedStays DEF LoggingIn
<1>2. ASSUME NEW r \in Requests, Proceed(r)
      PROVE  Recorded'
  BY <1>2, ProceedRecorded
<1>3. CASE UNCHANGED <<live, outcome, owing, drawn, begunFor, failed, pc, sid>>
  BY <1>3 DEF Recorded, AuditedLogins, NoTermsPage, Ended
<1>4. CASE \E k \in Slots : Lapse(k)
  BY <1>3, <1>4 DEF Lapse, requestVars
<1>5. ASSUME NEW R \in SUBSET InFlight, Crash(R)
      PROVE  Recorded'
  <2>1. live' = {} /\ \A r \in Requests : pc'[r] = "idle" /\ ~failed'[r]
    BY <1>5 DEF Crash, InMemoryStore, InFlight, Reset, Recorded
  <2> QED
    BY <2>1 DEF Recorded, AuditedLogins
<1> QED
  BY <1>1, <1>2, <1>3, <1>4, <1>5 DEF Next, vars, requestVars

(* Where the caches and the session store answer, no session stays behind  *)
(* that the audit log does not know of, however many requests overlap: a   *)
(* login whose audit fails is undone, and a crash takes the sessions of an *)
(* in-memory store with it. (With a store of its own the session outlives  *)
(* a process that stops before the audit, so crashes are excluded there.)  *)
(* The one exception is NoTermsPage: the user owes the terms and the page  *)
(* to accept them on cannot be made.                                       *)
THEOREM LoginsAreAudited ==
    ASSUME ~StoreMayFail, ~CacheMayFail, SharesPointers \/ ~MayCrash
    PROVE  Spec => []AuditedLogins
<1>1. Init => Recorded
  BY DEF Init, Recorded, AuditedLogins
<1>2. Recorded => AuditedLogins
  BY DEF Recorded
<1>3. CASE SharesPointers
  <2>1. Init => Inv /\ Honest /\ Asked
    BY InitInv, InitHonest DEF Init, Asked, LoggingIn
  <2>2. Inv /\ Honest /\ Asked /\ Recorded /\ [Next]_vars
           => (Inv /\ Honest /\ Asked /\ Recorded)'
    BY <1>3, NextInv, NextHonest, NextAsked, AskedTraced, NextRecorded
  <2> QED
    BY <1>1, <1>2, <2>1, <2>2, PTL DEF Spec
<1>4. CASE ~SharesPointers
  <2>1. Copies => Inv /\ Traced
    BY <1>4, CopiesTraced DEF Copies
  <2>2. Copies /\ Recorded /\ [Next]_vars => Recorded'
    BY <2>1, NextRecorded
  <2> QED
    BY <1>1, <1>2, <1>4, <2>2, AlwaysCopies, PTL DEF Spec
<1> QED
  BY <1>3, <1>4

-----------------------------------------------------------------------------
(* Requests that do not overlap. A flow nobody was given a code for, an id *)
(* no answer names, a session that is there or went with its process, and  *)
(* a correlation that knows of the terms its user owes an acceptance of.   *)
OneAtATime == \A q, r \in Requests : q = r

Unanswered == {f \in drawn : \A a \in answers : a.flow = f => a.error}
Unnamed == {s \in SessionIds : \A a \in answers : a.id # s}
Opened == live \cup Ended({"lost"})
Informed == {c \in Matched : c.id \in owing => c.tos}

(* Nothing is answered to a redirect URI that is no URL, so what becomes   *)
(* of its logins matters to no one; the others have no error until the end.*)
Clear(c) == c.flow \notin Unparsable => ~c.error

(* What a callback may find by the cookie: a login not yet answered, or,   *)
(* where the browser signs out of the provider first, one waiting for it.  *)
Settled ==
    {c \in Matched :
        /\ Clear(c) /\ c.flow \in Unanswered
        /\ c.id # NoId /\ c.flow \notin Unparsable =>
              SignsOut /\ c.id \in Opened /\ (SharesPointers => c \in Informed)}

(* The terms are not lost between the cache and the sign-out. *)
KeepsTerms == SharesPointers \/ ~SignsOut

Waiting == {"idle", "authorize_set", "authorize"}
Drawn == {"exchange", "ask", "done"} \cup LoggingIn
Before == {"exchange", "ask", "set_read", "set", "create"}
After == {"terms", "tos_read", "tos_set", "audit", "undo", "done"}

AtRest(r) == pc[r] \in Waiting /\ cookie \in present => slot[cookie] \in Settled

Asking(r) ==
    /\ pc[r] = "authorize_set" =>
          /\ cor[r].id = NoId /\ ~cor[r].error /\ cor[r].flow \in Unanswered
          /\ found[r] => carried[r] \in drawn
    /\ pc[r] = "authorize" =>
          /\ setCookie[r] = at[r]
          /\ View(r).id = NoId /\ slot[at[r]] \in Settled

(* A callback works on the slot of the cookie, and what others see there   *)
(* is as far as the last Set.                                              *)
Working(r) ==
    /\ pc[r] \notin Waiting =>
          carried[r] = cookie /\ at[r] = cookie /\ cookie \in Slots \cap drawn
    /\ pc[r] \in {"draw"} \cup Drawn =>
          /\ Clear(View(r)) /\ View(r).flow \in Unanswered
          /\ Clear(slot[cookie]) /\ slot[cookie].flow = View(r).flow
          /\ slot[cookie].id \in {NoId, View(r).id}
    /\ pc[r] = "draw" => View(r).id = NoId
    /\ pc[r] \in {"set", "tos_set"} /\ found[r] => Base(r) = slot[cookie]

(* The session of a login that goes well exists before anyone is told.     *)
Opening(r) ==
    /\ pc[r] \in Drawn => View(r).id \in Unnamed
    /\ pc[r] \in LoggingIn \cup {"done"} => sid[r] = View(r).id
    /\ pc[r] \in Before => View(r).id \notin live \cup owing
    /\ pc[r] \in After => failed[r] \/ View(r).id \in live
    /\ pc[r] \in After \ {"terms"} => View(r) \in Informed
    /\ pc[r] = "done" => ~failed[r]

(* The cookie a callback came with and the one it leaves are for its flow. *)
Bound(r) ==
    /\ pc[r] = "idle" => setCookie[r] = Keep
    /\ pc[r] \notin Waiting \cup {"forget"} =>
          /\ slot[cookie].flow = View(r).flow
          /\ setCookie[r] # Keep =>
                setCookie[r] \in Slots /\ slot[setCookie[r]].flow = View(r).flow

(* The cookie will be for this login, or for one with nothing to answer.   *)
Stored(r) ==
    pc[r] \in {"create"} \cup After =>
        /\ setCookie[r] \in Slots
        /\ setCookie[r] # cookie =>
              /\ slot[setCookie[r]].id = NoId /\ Clear(slot[setCookie[r]])
              /\ slot[setCookie[r]].flow = View(r).flow

Leaving(r) ==
    pc[r] = "redirect" =>
        /\ View(r).flow \in drawn /\ View(r).id \in drawn \cup {NoId}
        /\ ~View(r).error \/ View(r).flow \in Unparsable =>
              View(r).flow \in Unanswered
        /\ View(r).flow \notin Unparsable =>
              /\ ~StoreMayFail /\ View(r).error => View(r).id \notin live
              /\ ~View(r).error =>
                    /\ View(r).id # NoId /\ View(r).id \in Opened
                    /\ KeepsTerms => View(r) \in Informed

Recalled ==
    /\ \A a \in answers :
          /\ a.flow \in drawn /\ a.id \in drawn \cup {NoId}
          /\ a.flow \notin Unparsable
    /\ CodeNamesSession
    /\ ~StoreMayFail => FailedLoginLeavesNothing
    /\ KeepsTerms => TermsRedirect
    /\ present \cup live \cup owing \subseteq drawn

Phases(r) ==
    /\ AtRest(r) /\ Asking(r) /\ Working(r) /\ Opening(r)
    /\ Bound(r) /\ Stored(r) /\ Leaving(r)

Undisturbed == Recalled /\ \A r \in Requests : Phases(r)

LEMMA OneRequest ==
    ASSUME OneAtATime, NEW r \in Requests, Recalled', Phases(r)'
    PROVE  Undisturbed'
BY DEF OneAtATime, Undisturbed

LEMMA ErrorMarks ==
    ASSUME NEW c \in Matched
    PROVE  WithError(c).error
BY DEF WithError, Matched, Correlation

(* What a request sees after it, or nobody, has written. *)
LEMMA Seen ==
    ASSUME Inv, NEW r \in Requests
    PROVE  /\ at[r] \in Slots => View(r) \in Matched
           /\ SharesPointers => View(r) = slot[at[r]]
           /\ UNCHANGED <<slot, at, cor>> => View(r)' = View(r)
           /\ \A step : Goto(r, step) => pc'[r] = step
           /\ \A c : Write(r, c) /\ at' = at /\ at[r] \in Slots =>
                 /\ View(r)' = c
                 /\ SharesPointers => slot'[at[r]] = c
                 /\ ~SharesPointers => slot' = slot
                 /\ \A k \in Slots \ {at[r]} : slot'[k] = slot[k]
BY DEF View, Write, Goto, Inv, Typed, Records

(* Steps that write to the slot of the cookie leave its flow. *)
LEMMA BoundStays ==
    ASSUME Inv, NEW r \in Requests, Bound(r), at[r] = cookie, cookie \in Slots,
           pc[r] \notin Waiting \cup {"forget"}, pc'[r] # "idle",
           UNCHANGED <<cookie, at, setCookie>>,
           \/ UNCHANGED <<slot, cor>>
           \/ \E c : Write(r, c) /\ c.flow = View(r).flow
    PROVE  Bound(r)'
<1>1. View(r)'.flow = View(r).flow /\ \A k \in Slots : slot'[k].flow = slot[k].flow
  BY Seen
<1> QED
  BY <1>1 DEF Bound, Inv, Typed

(* Steps that change nothing a client or the store is told of. *)
LEMMA Quiet ==
    ASSUME Recalled, UNCHANGED <<answers, live, owing, outcome>>,
           drawn \subseteq drawn', present' \subseteq drawn'
    PROVE  /\ Recalled'
           /\ Unanswered \subseteq Unanswered' /\ Unnamed' = Unnamed
           /\ Opened' = Opened /\ Informed' = Informed
           /\ Settled \subseteq Settled'
<1>1. Unanswered \subseteq Unanswered' /\ Unnamed' = Unnamed
  BY DEF Unanswered, Unnamed
<1>2. Opened' = Opened /\ Informed' = Informed
  BY DEF Opened, Ended, Informed
<1>3. Settled \subseteq Settled'
  BY <1>1, <1>2 DEF Settled
<1>4. Recalled'
  BY DEF Recalled, CodeNamesSession, FailedLoginLeavesNothing, TermsRedirect,
         Ended
<1> QED
  BY <1>1, <1>2, <1>3, <1>4

LEMMA AuthorizeUndisturbed ==
    ASSUME OneAtATime, Inv, Undisturbed, NEW r \in Requests, NEW f \in Flows,
           Authorize(r, f)
    PROVE  Undisturbed'
<1>1. /\ UNCHANGED <<answers, live, owing, outcome, cookie, present, slot>>
      /\ drawn' = drawn \cup {f} /\ f \notin drawn /\ pc[r] = "idle"
      /\ pc'[r] = "authorize_set" /\ cor'[r] = NewCorrelation(f)
  BY Seen DEF Authorize, Inv, Records
<1>2. present' \subseteq drawn'
  BY <1>1 DEF Undisturbed, Recalled
<1>3. f \in Unanswered'
  BY <1>1 DEF Undisturbed, Recalled, Unanswered
<1>4. /\ NewCorrelation(f).id = NoId /\ ~NewCorrelation(f).error
      /\ NewCorrelation(f).flow = f
  BY DEF NewCorrelation
<1>5. Recalled' /\ Settled \subseteq Settled'
  BY <1>1, <1>2, Quiet DEF Undisturbed
<1>6. AtRest(r)'
  BY <1>1, <1>5 DEF AtRest, Waiting, Undisturbed, Phases
<1>7. found'[r] => carried'[r] \in drawn'
  BY <1>2 DEF Authorize, ReadSlot, Inv, Typed
<1>8. Asking(r)'
  BY <1>1, <1>3, <1>4, <1>7 DEF Asking
<1>9. Working(r)' /\ Opening(r)' /\ Bound(r)' /\ Stored(r)' /\ Leaving(r)'
  BY <1>1 DEF Working, Opening, Bound, Stored, Leaving, Waiting, Drawn, Before,
              After, LoggingIn
<1> QED
  BY <1>5, <1>6, <1>8, <1>9, OneRequest DEF Phases

(* The slot an /authorize is stored in starts anew, reused or not. *)
LEMMA AuthorizeSetUndisturbed ==
    ASSUME OneAtATime, ~CacheMayFail, Inv, Undisturbed, NEW r \in Requests,
           AuthorizeSet(r)
    PROVE  Undisturbed'
<1>1. PICK k \in Slots :
         /\ StoreIn(r, cor[r], k)
         /\ at' = [at EXCEPT ![r] = k]
         /\ cor' = [cor EXCEPT ![r] = IF SharesPointers THEN Blank ELSE slot'[k]]
  BY DEF AuthorizeSet
<1>2. /\ UNCHANGED <<answers, live, owing, outcome, cookie>>
      /\ pc[r] = "authorize_set" /\ pc'[r] = "authorize"
  BY Seen DEF AuthorizeSet
<1>3. /\ drawn \subseteq drawn' /\ present' = present \cup {k}
      /\ setCookie'[r] = k /\ at'[r] = k
      /\ \A j \in Slots \ {k} : slot'[j] = slot[j]
  BY <1>1 DEF StoreIn, Inv, Typed, Records
<1>4. cor[r] \in Matched /\ cor[r].id = NoId /\ cor[r].flow \in Unanswered
  BY <1>2 DEF Undisturbed, Phases, Asking, Inv, Records
<1>5. /\ slot'[k] \in Matched /\ slot'[k].id = NoId /\ ~slot'[k].error
      /\ slot'[k].flow = cor[r].flow
  <2>1. CASE Reusable(r, cor[r])
    <3>1. Base(r) \in Matched /\ Base(r).client = cor[r].client
      BY <2>1 DEF Reusable, Base, Inv, Records, Located
    <3>2. /\ Merge(Base(r), cor[r]) \in Matched
          /\ Merge(Base(r), cor[r]).id = NoId /\ ~Merge(Base(r), cor[r]).error
          /\ Merge(Base(r), cor[r]).flow = cor[r].flow
      BY <1>4, <3>1, MergeIsMatched DEF Merge
    <3> QED
      BY <1>1, <2>1, <3>2 DEF StoreIn, Inv, Records
  <2>2. CASE ~Reusable(r, cor[r])
    <3> DEFINE new == [cor[r] EXCEPT !.id = NoId, !.error = FALSE, !.tos = FALSE]
    <3>1. /\ new \in Matched /\ new.id = NoId /\ ~new.error
          /\ new.flow = cor[r].flow
      BY <1>4, ClearedIsMatched DEF Matched, Correlation
    <3>2. slot' = [slot EXCEPT ![k] = new]
      BY <1>1, <2>2 DEF StoreIn
    <3> HIDE DEF new
    <3> QED
      BY <3>1, <3>2 DEF Inv, Records
  <2> QED
    BY <2>1, <2>2
<1>6. k \in drawn' /\ present' \subseteq drawn'
  <2>1. found[r] => carried[r] \in drawn
    BY <1>2 DEF Undisturbed, Phases, Asking
  <2>2. k \in drawn'
    BY <1>1, <2>1 DEF StoreIn, Reusable
  <2> QED
    BY <1>3, <2>2 DEF Undisturbed, Recalled
<1>7. Recalled' /\ Settled \subseteq Settled' /\ Unanswered \subseteq Unanswered'
  BY <1>2, <1>3, <1>6, Quiet DEF Undisturbed
<1>8. slot'[k] \in Settled'
  BY <1>4, <1>5, <1>7 DEF Settled, Clear
<1>9. View(r)' = slot'[k]
  BY <1>1, <1>3 DEF View, Inv, Records
<1>10. AtRest(r)'
  BY <1>2, <1>3, <1>7, <1>8 DEF AtRest, Waiting, Undisturbed, Phases, Inv, Typed
<1>11. Asking(r)'
  BY <1>2, <1>3, <1>5, <1>8, <1>9 DEF Asking
<1>12. Working(r)' /\ Opening(r)' /\ Bound(r)' /\ Stored(r)' /\ Leaving(r)'
  BY <1>2 DEF Working, Opening, Bound, Stored, Leaving, Waiting, Drawn, Before,
              After, LoggingIn
<1> QED
  BY <1>7, <1>10, <1>11, <1>12, OneRequest DEF Phases

LEMMA FinishRests ==
    ASSUME Inv, NEW r \in Requests, NEW jar, Finish(r, jar)
    PROVE  /\ pc'[r] = "idle" /\ cookie' = IF jar = Keep THEN cookie ELSE jar
           /\ Asking(r)' /\ Working(r)' /\ Opening(r)'
           /\ Bound(r)' /\ Stored(r)' /\ Leaving(r)'
<1>1. /\ pc'[r] = "idle" /\ cookie' = IF jar = Keep THEN cookie ELSE jar
      /\ setCookie'[r] = Keep
  BY Seen DEF Finish, Inv, Typed
<1>2. /\ Asking(r)' /\ Working(r)' /\ Opening(r)'
      /\ Bound(r)' /\ Stored(r)' /\ Leaving(r)'
  BY <1>1 DEF Asking, Working, Opening, Bound, Stored, Leaving, Waiting, Drawn,
              Before, After, LoggingIn
<1> QED
  BY <1>1, <1>2

LEMMA ProviderAuthorizeUndisturbed ==
    ASSUME OneAtATime, Inv, Undisturbed, NEW r \in Requests, ProviderAuthorize(r)
    PROVE  Undisturbed'
<1>1. /\ UNCHANGED <<answers, live, owing, outcome, drawn, present, slot>>
      /\ pc[r] = "authorize"
  BY DEF ProviderAuthorize
<1>2. View(r).id = NoId /\ setCookie[r] = at[r] /\ slot[at[r]] \in Settled
  BY <1>1 DEF Undisturbed, Phases, Asking
<1>3. at[r] \in Slots /\ at[r] # Keep
  BY <1>1, LoginFlowAssumption DEF Inv, Located
<1>4. Finish(r, at[r])
  BY <1>2 DEF ProviderAuthorize, SendToProvider
<1>5. Recalled' /\ Settled \subseteq Settled'
  BY <1>1, Quiet DEF Undisturbed, Recalled
<1>6. AtRest(r)'
  BY <1>1, <1>2, <1>3, <1>4, <1>5, FinishRests DEF AtRest
<1> QED
  BY <1>4, <1>5, <1>6, FinishRests, OneRequest DEF Phases

(* A callback finds what the cookie stands for, which is settled. *)
LEMMA CallbackUndisturbed ==
    ASSUME OneAtATime, Inv, Honest, Undisturbed, NEW r \in Requests,
           Callback(r) \/ LogoutCallback(r)
    PROVE  Undisturbed'
<1> DEFINE c == slot[cookie]
<1>1. /\ UNCHANGED <<answers, live, owing, outcome, drawn, present, cookie>>
      /\ pc[r] = "idle" /\ cookie \in present /\ cookie \in Slots
      /\ cookie \in drawn
      /\ carried'[r] = cookie /\ at'[r] = cookie
  BY DEF Callback, LogoutCallback, Arrive, Inv, Typed, Undisturbed, Recalled
<1>2. c \in Settled /\ c \in Matched
  BY <1>1 DEF Undisturbed, Phases, AtRest, Waiting, Settled
<1>3. /\ Recalled' /\ Unanswered \subseteq Unanswered'
      /\ Opened' = Opened /\ Informed' = Informed
  BY <1>1, Quiet DEF Undisturbed, Recalled
<1>4. \/ /\ slot' = slot /\ View(r)' = c
         /\ \/ pc'[r] = "redirect" /\ c.id # NoId
            \/ pc'[r] = "draw" /\ c.id = NoId
      \/ pc'[r] = "redirect" /\ c.id = NoId /\ View(r)' = WithError(c)
  <2>1. \A d : cor' = [cor EXCEPT ![r] = IF SharesPointers THEN Blank ELSE d]
                  => cor'[r] = IF SharesPointers THEN Blank ELSE d
    BY DEF Inv, Records
  <2>2. SharesPointers /\ slot' = [slot EXCEPT ![cookie] = WithError(c)]
           => slot'[cookie] = WithError(c)
    BY <1>1 DEF Inv, Records
  <2> QED
    BY <1>1, <2>1, <2>2, Seen DEF Callback, LogoutCallback, View
<1>5. AtRest(r)' /\ Asking(r)' /\ Opening(r)' /\ Stored(r)'
  BY <1>4 DEF AtRest, Asking, Opening, Stored, Waiting, Drawn, Before, After,
              LoggingIn
<1>6. Working(r)'
  BY <1>1, <1>2, <1>3, <1>4 DEF Working, Settled, Clear, Waiting, Drawn, LoggingIn
<1>7. Bound(r)'
  <2>1. setCookie'[r] = Keep
    BY <1>1 DEF Callback, LogoutCallback, Undisturbed, Phases, Bound
  <2>2. slot'[cookie].flow = c.flow /\ View(r)'.flow = c.flow
    BY <1>1, <1>2, ErrorIsMatched, Seen DEF Callback, LogoutCallback, View, Inv,
       Records
  <2> QED
    BY <1>1, <1>4, <2>1, <2>2 DEF Bound
<1>8. Leaving(r)'
  <2>1. CASE View(r)' = c /\ c.id # NoId /\ pc'[r] = "redirect"
    <3>1. c.id \in drawn
      BY <1>1, <2>1 DEF Honest, Owned
    <3> QED
      BY <1>1, <1>2, <1>3, <2>1, <3>1 DEF Leaving, Settled, Clear, KeepsTerms, Unanswered
  <2>2. CASE View(r)' = WithError(c) /\ c.id = NoId
    <3>1. /\ View(r)'.error /\ View(r)'.id = NoId /\ View(r)'.flow \in drawn'
          /\ View(r)'.flow \in Unanswered'
      BY <1>1, <1>2, <1>3, <2>2, ErrorMarks, ErrorIsMatched DEF Settled, Unanswered
    <3> QED
      BY <1>1, <3>1, NoIdNotLive DEF Leaving
  <2> QED
    BY <1>4, <2>1, <2>2 DEF Leaving
<1> QED
  BY <1>3, <1>5, <1>6, <1>7, <1>8, OneRequest DEF Phases

LEMMA DrawSessionIdUndisturbed ==
    ASSUME OneAtATime, Inv, Honest, Undisturbed, NEW r \in Requests,
           DrawSessionId(r)
    PROVE  Undisturbed'
<1> DEFINE c == View(r)
<1>1. PICK s \in SessionIds \ drawn :
         drawn' = drawn \cup {s} /\ Write(r, [c EXCEPT !.id = s])
  BY DEF DrawSessionId
<1>2. /\ UNCHANGED <<answers, live, owing, outcome, present, cookie, carried, at>>
      /\ UNCHANGED setCookie /\ pc[r] = "draw" /\ pc'[r] = "exchange"
      /\ at[r] = cookie /\ carried[r] = cookie /\ cookie \in Slots \cap drawn
  BY Seen DEF DrawSessionId, Undisturbed, Phases, Working, Waiting
<1>3. /\ c \in Matched /\ c.id = NoId /\ Clear(c) /\ c.flow \in Unanswered
      /\ slot[cookie].flow = c.flow /\ Clear(slot[cookie])
      /\ slot[cookie].id = NoId
  BY <1>2, Seen DEF Undisturbed, Phases, Working
<1>4. /\ Recalled' /\ Unanswered \subseteq Unanswered' /\ Unnamed' = Unnamed
  BY <1>1, <1>2, Quiet DEF Undisturbed, Recalled
<1>5. /\ View(r)' = [c EXCEPT !.id = s]
      /\ slot'[cookie] = slot[cookie] \/ slot'[cookie] = [c EXCEPT !.id = s]
  BY <1>1, <1>2, Seen
<1>6. /\ View(r)'.id = s /\ View(r)'.flow = c.flow /\ Clear(View(r)')
  BY <1>3, <1>5 DEF Matched, Correlation, Clear
<1>7. s \in Unnamed
  BY <1>1, LoginFlowAssumption DEF Unnamed, Undisturbed, Recalled
<1>8. s \notin live \cup owing
  BY <1>1 DEF Undisturbed, Recalled
<1>9. AtRest(r)' /\ Asking(r)' /\ Stored(r)' /\ Leaving(r)'
  BY <1>2 DEF AtRest, Asking, Stored, Leaving, Waiting, After
<1>10. Working(r)'
  <2>1. /\ Clear(slot'[cookie]) /\ slot'[cookie].flow = c.flow
        /\ slot'[cookie].id \in {NoId, s}
    BY <1>3, <1>5, <1>6
  <2> QED
    BY <1>1, <1>2, <1>3, <1>4, <1>6, <2>1 DEF Working, Waiting
<1>11. Opening(r)'
  BY <1>2, <1>4, <1>6, <1>7, <1>8 DEF Opening, LoggingIn, After
<1>12. Bound(r)'
  <2>1. [c EXCEPT !.id = s].flow = c.flow
    BY <1>3 DEF Matched, Correlation
  <2> QED
    BY <1>1, <1>2, <2>1, BoundStays DEF Undisturbed, Phases, Waiting
<1> QED
  BY <1>4, <1>9, <1>10, <1>11, <1>12, OneRequest DEF Phases

(* A login refused before its session is created: nothing was ever told of *)
(* its id, and nothing will.                                               *)
LEMMA RefusedUndisturbed ==
    ASSUME OneAtATime, Inv, Honest, Undisturbed, NEW r \in Requests,
           pc[r] \in {"exchange", "ask"}, pc'[r] = "redirect",
           Write(r, WithError(View(r))),
           UNCHANGED <<answers, live, owing, outcome, drawn, present, cookie,
                       carried, at, setCookie>>
    PROVE  Undisturbed'
<1>1. /\ at[r] = cookie /\ carried[r] = cookie /\ cookie \in Slots \cap drawn
      /\ View(r) \in Matched /\ View(r).flow \in Unanswered
      /\ View(r).id \notin live
  BY Seen DEF Undisturbed, Phases, Working, Opening, Waiting, Drawn, Before
<1>2. View(r).id \in drawn \cup {NoId}
  <2>1. View(r) \in Owned
    BY <1>1 DEF View, Honest
  <2> QED
    BY <2>1 DEF Owned
<1>3. View(r)'.error /\ View(r)'.id = View(r).id /\ View(r)'.flow = View(r).flow
  BY <1>1, Seen, ErrorMarks, ErrorIsMatched
<1>4. Recalled'
  BY Quiet DEF Undisturbed, Recalled
<1>5. AtRest(r)' /\ Asking(r)' /\ Opening(r)' /\ Stored(r)'
  BY DEF AtRest, Asking, Opening, Stored, Waiting, Drawn, Before, After, LoggingIn
<1>6. Working(r)'
  BY <1>1 DEF Working, Drawn, LoggingIn
<1>7. Leaving(r)'
  BY <1>1, <1>2, <1>3 DEF Leaving, Unanswered
<1>8. Bound(r)'
  BY <1>1, ErrorIsMatched, BoundStays DEF Undisturbed, Phases, Waiting
<1> QED
  BY <1>4, <1>5, <1>6, <1>7, <1>8, OneRequest DEF Phases

(* From one step to the next with the same correlation, before anything    *)
(* is stored.                                                              *)
LEMMA GoesOnUndisturbed ==
    ASSUME OneAtATime, Inv, Undisturbed, NEW r \in Requests,
           \/ pc[r] = "exchange" /\ pc'[r] = "ask"
           \/ pc[r] = "ask" /\ pc'[r] = "set_read" /\ sid'[r] = View(r).id,
           UNCHANGED <<answers, live, owing, outcome, drawn, present, cookie,
                       carried, at, slot, cor, setCookie>>
    PROVE  Undisturbed'
<1>1. View(r)' = View(r)
  BY Seen
<1>2. /\ Recalled' /\ Unanswered \subseteq Unanswered' /\ Unnamed' = Unnamed
  BY Quiet DEF Undisturbed, Recalled
<1>3. AtRest(r)' /\ Asking(r)' /\ Stored(r)' /\ Leaving(r)'
  BY DEF AtRest, Asking, Stored, Leaving, Waiting, After
<1>4. Working(r)'
  BY <1>1, <1>2 DEF Undisturbed, Phases, Working, Waiting, Drawn, LoggingIn
<1>5. Opening(r)'
  BY <1>1, <1>2 DEF Undisturbed, Phases, Opening, Drawn, Before, After, LoggingIn
<1>6. Bound(r)'
  BY <1>1 DEF Undisturbed, Phases, Bound, Waiting
<1> QED
  BY <1>2, <1>3, <1>4, <1>5, <1>6, OneRequest DEF Phases

LEMMA ProviderUndisturbed ==
    ASSUME OneAtATime, Inv, Honest, Undisturbed, NEW r \in Requests,
           ProviderCallback(r) \/ GetUserData(r)
    PROVE  Undisturbed'
<1>1. UNCHANGED <<answers, live, owing, outcome, drawn, present, cookie,
                  carried, at, setCookie>>
  BY DEF ProviderCallback, GetUserData
<1>2. CASE /\ pc[r] \in {"exchange", "ask"} /\ pc'[r] = "redirect"
           /\ Write(r, WithError(View(r)))
  BY <1>1, <1>2, RefusedUndisturbed
<1>3. CASE /\ UNCHANGED <<slot, cor>>
           /\ \/ pc[r] = "exchange" /\ pc'[r] = "ask"
              \/ pc[r] = "ask" /\ pc'[r] = "set_read" /\ sid'[r] = View(r).id
  BY <1>1, <1>3, GoesOnUndisturbed
<1> QED
  BY <1>2, <1>3, Seen DEF ProviderCallback, ProviderRefuses, MapClaims,
                          GetUserData, Inv, Typed

LEMMA SetReadUndisturbed ==
    ASSUME OneAtATime, Inv, Undisturbed, NEW r \in Requests, SetRead(r)
    PROVE  Undisturbed'
<1>1. /\ UNCHANGED <<answers, live, owing, outcome, drawn, present, cookie>>
      /\ UNCHANGED <<carried, at, slot, cor, sid, failed, setCookie>>
      /\ \/ pc[r] = "set_read" /\ pc'[r] = "set"
         \/ pc[r] = "tos_read" /\ pc'[r] = "tos_set"
      /\ ReadSlot(r, carried[r])
  BY Seen DEF SetRead
<1>2. View(r)' = View(r)
  BY <1>1, Seen
<1>3. /\ Recalled' /\ Unanswered \subseteq Unanswered' /\ Unnamed' = Unnamed
      /\ Informed' = Informed
  BY <1>1, Quiet DEF Undisturbed, Recalled
<1>4. AtRest(r)' /\ Asking(r)' /\ Leaving(r)'
  BY <1>1 DEF AtRest, Asking, Leaving, Waiting
<1>5. found'[r] => Base(r)' = slot[cookie]
  BY <1>1 DEF ReadSlot, Base, Inv, Typed, Records, Undisturbed, Phases, Working,
              Waiting
<1>6. Working(r)'
  BY <1>1, <1>2, <1>3, <1>5 DEF Undisturbed, Phases, Working, Waiting, Drawn,
                                LoggingIn
<1>7. Opening(r)' /\ Bound(r)' /\ Stored(r)'
  BY <1>1, <1>2, <1>3 DEF Undisturbed, Phases, Opening, Bound, Stored, Waiting,
                          Drawn, Before, After, LoggingIn
<1> QED
  BY <1>3, <1>4, <1>6, <1>7, OneRequest DEF Phases

(* What a Set makes of the slot of the cookie, or of a new one. *)
LEMMA StoreInUndisturbed ==
    ASSUME Inv, Honest, Undisturbed, NEW r \in Requests, NEW k \in Slots,
           pc[r] \in {"set", "tos_set"}, StoreIn(r, View(r), k),
           UNCHANGED <<at, cor>>
    PROVE  /\ drawn \subseteq drawn' /\ present' = present \cup {k} /\ k \in drawn'
           /\ setCookie'[r] = k
           /\ View(r)'.id = View(r).id /\ View(r)'.flow = View(r).flow
           /\ Clear(View(r)')
           /\ View(r) \in Informed => (View(r)'.id \in owing => View(r)'.tos)
           /\ Clear(slot'[cookie]) /\ slot'[cookie].flow = View(r).flow
           /\ slot'[cookie].id \in {NoId, View(r).id}
           /\ k # cookie => /\ slot'[k].id = NoId /\ Clear(slot'[k])
                            /\ slot'[k].flow = View(r).flow
<1> DEFINE c == View(r)
           d == slot[cookie]
<1>1. /\ at[r] = cookie /\ carried[r] = cookie /\ cookie \in Slots \cap drawn
      /\ c \in Matched /\ d \in Matched
      /\ Clear(c) /\ Clear(d) /\ d.flow = c.flow /\ d.id \in {NoId, c.id}
      /\ found[r] => Base(r) = d
  BY Seen DEF Undisturbed, Phases, Working, Waiting, Drawn, LoggingIn, Inv,
              Records
<1>2. c.id \in Unnamed /\ c.id # NoId
  BY LoginFlowAssumption DEF Undisturbed, Phases, Opening, Drawn, LoggingIn,
                             Unnamed
<1>3. /\ present' = present \cup {k} /\ setCookie'[r] = k
  BY DEF StoreIn, Inv, Typed
<1>4. CASE Reusable(r, c)
  <2>1. k = cookie /\ slot' = [slot EXCEPT ![cookie] = Merge(d, c)]
        /\ drawn' = drawn
    BY <1>1, <1>4 DEF StoreIn, Reusable
  <2>2. /\ Merge(d, c).id = c.id /\ Merge(d, c).flow = c.flow
        /\ Clear(Merge(d, c)) /\ Merge(d, c).tos = d.tos
    BY <1>1, <1>2 DEF Merge, Clear
  <2>3. slot'[cookie] = Merge(d, c)
    BY <1>1, <2>1 DEF Inv, Records
  <2>4. CASE SharesPointers
    <3>1. View(r)' = Merge(d, c) /\ c = d
      BY <1>1, <2>3, <2>4 DEF View
    <3> QED
      BY <1>1, <1>3, <2>1, <2>2, <2>3, <3>1 DEF Informed
  <2>5. CASE ~SharesPointers
    <3>1. View(r)' = c
      BY <2>5 DEF View
    <3> QED
      BY <1>1, <1>3, <2>1, <2>2, <2>3, <3>1 DEF Informed
  <2> QED
    BY <2>4, <2>5
<1>5. CASE ~Reusable(r, c)
  <2> DEFINE new == [c EXCEPT !.id = NoId, !.error = FALSE, !.tos = FALSE]
  <2>1. new.id = NoId /\ Clear(new) /\ new.flow = c.flow
    BY <1>1 DEF Matched, Correlation, Clear
  <2>2. /\ slot' = [slot EXCEPT ![k] = new]
        /\ drawn' = drawn \cup {k} /\ k \notin drawn
    BY <1>5 DEF StoreIn
  <2> HIDE DEF new
  <2>3. slot'[k] = new /\ slot'[cookie] = d /\ k # cookie
    BY <1>1, <2>2 DEF Inv, Records
  <2>4. View(r)' = c
    BY <1>1, <2>3 DEF View
  <2> QED
    BY <1>1, <1>3, <2>1, <2>2, <2>3, <2>4 DEF Informed
<1> QED
  BY <1>4, <1>5

LEMMA SetUndisturbed ==
    ASSUME OneAtATime, ~CacheMayFail, Inv, Honest, Undisturbed,
           NEW r \in Requests, Set(r)
    PROVE  Undisturbed'
<1>1. /\ UNCHANGED <<answers, live, owing, outcome, cookie, carried, at, cor>>
      /\ UNCHANGED <<sid, failed>>
      /\ \/ pc[r] = "set" /\ pc'[r] = "create"
         \/ pc[r] = "tos_set" /\ pc'[r] = "audit"
  BY Seen DEF Set
<1>2. PICK k \in Slots : StoreIn(r, View(r), k)
  BY DEF Set
<1> DEFINE c == View(r)
<1>3. /\ drawn \subseteq drawn' /\ present' \subseteq drawn'
      /\ setCookie'[r] = k
      /\ View(r)'.id = c.id /\ View(r)'.flow = c.flow /\ Clear(View(r)')
      /\ c \in Informed => (View(r)'.id \in owing => View(r)'.tos)
      /\ Clear(slot'[cookie]) /\ slot'[cookie].flow = c.flow
      /\ slot'[cookie].id \in {NoId, c.id}
      /\ k # cookie => /\ slot'[k].id = NoId /\ Clear(slot'[k])
                       /\ slot'[k].flow = c.flow
  BY <1>1, <1>2, StoreInUndisturbed DEF Undisturbed, Recalled
<1>4. /\ Recalled' /\ Unanswered \subseteq Unanswered' /\ Unnamed' = Unnamed
      /\ Informed' = Informed
  BY <1>1, <1>3, Quiet DEF Undisturbed
<1>5. AtRest(r)' /\ Asking(r)' /\ Leaving(r)'
  BY <1>1 DEF AtRest, Asking, Leaving, Waiting
<1>6. Working(r)'
  BY <1>1, <1>3, <1>4 DEF Undisturbed, Phases, Working, Waiting, Drawn, LoggingIn
<1>7. c \in Informed => View(r)' \in Informed'
  <2>1. View(r)' \in Matched
    BY <1>1, <1>2, StoreInKeeps, Seen DEF View, Inv, Records, Located
  <2> QED
    BY <1>1, <1>3, <1>4, <2>1 DEF Informed
<1>8. Opening(r)'
  BY <1>1, <1>3, <1>4, <1>7 DEF Undisturbed, Phases, Opening, Drawn, Before,
                                After, LoggingIn
<1>9. Stored(r)' /\ Bound(r)'
  BY <1>1, <1>3 DEF Stored, Bound
<1> QED
  BY <1>4, <1>5, <1>6, <1>8, <1>9, OneRequest DEF Phases

(* What the steps on the session of a login can rely on. *)
LEMMA AtWork ==
    ASSUME Inv, Honest, Undisturbed, NEW r \in Requests,
           pc[r] \in {"create"} \cup After
    PROVE  /\ View(r) \in Matched /\ Clear(View(r))
           /\ View(r).flow \in Unanswered /\ View(r).id \in Unnamed
           /\ View(r).id # NoId /\ View(r).id \in SessionIds \cap drawn
           /\ sid[r] = View(r).id
           /\ at[r] = cookie /\ carried[r] = cookie /\ cookie \in Slots \cap drawn
           /\ SharesPointers => View(r) = slot[cookie]
<1> USE DEF Waiting, Drawn, After, LoggingIn
<1>1. /\ at[r] = cookie /\ carried[r] = cookie /\ cookie \in Slots \cap drawn
      /\ Clear(View(r)) /\ View(r).flow \in Unanswered
      /\ View(r).id \in Unnamed /\ sid[r] = View(r).id
  BY DEF Undisturbed, Phases, Working, Opening
<1>2. View(r) \in Matched /\ SharesPointers => View(r) = slot[cookie]
  BY <1>1, Seen
<1>3. View(r).id # NoId /\ View(r).id \in SessionIds
  BY <1>1, LoginFlowAssumption DEF Unnamed
<1>4. View(r) \in Owned
  BY <1>1 DEF View, Honest
<1> QED
  BY <1>1, <1>2, <1>3, <1>4, Seen DEF Owned

(* The session is there before anyone is told of it. *)
LEMMA CreateSessionUndisturbed ==
    ASSUME OneAtATime, Inv, Honest, Undisturbed, NEW r \in Requests,
           CreateSession(r)
    PROVE  Undisturbed'
<1> USE DEF After
<1> DEFINE c == View(r)
           s == View(r).id
<1>1. /\ UNCHANGED <<answers, outcome, present, cookie, carried, at, setCookie>>
      /\ UNCHANGED <<slot, cor>> /\ pc[r] = "create"
  BY DEF CreateSession
<1>2. /\ c \in Matched /\ c.flow \in Unanswered /\ s \in Unnamed
      /\ s # NoId /\ s \in SessionIds \cap drawn /\ sid[r] = s
  BY <1>1, AtWork
<1>3. NewSessionIds(r) = {s}
  BY <1>2 DEF NewSessionIds
<1>4. /\ drawn' = drawn /\ live' \in {live, live \cup {s}}
      /\ sid'[r] = s /\ (failed'[r] \/ s \in live')
  BY <1>2, <1>3 DEF CreateSession, Inv, Typed
<1>5. \/ pc'[r] = "terms" /\ owing' = owing \cup {s}
      \/ pc'[r] = "audit" /\ owing' = owing
  BY <1>3, Seen DEF CreateSession
<1>6. /\ Unanswered' = Unanswered /\ Unnamed' = Unnamed
  BY <1>1, <1>4 DEF Unanswered, Unnamed
<1>7. Recalled'
  BY <1>1, <1>2, <1>4, <1>5 DEF Undisturbed, Recalled, Unnamed, CodeNamesSession,
     FailedLoginLeavesNothing, TermsRedirect, Ended
<1>8. View(r)' = c
  BY <1>1, Seen
<1>9. pc'[r] = "audit" => c \in Informed'
  <2>1. s \notin owing
    BY <1>1 DEF Undisturbed, Phases, Opening, Before
  <2> QED
    BY <1>2, <1>5, <2>1 DEF Informed
<1>10. pc'[r] \in {"terms", "audit"}
  BY <1>5
<1>11. AtRest(r)' /\ Asking(r)' /\ Leaving(r)'
  BY <1>10 DEF AtRest, Asking, Leaving, Waiting
<1>12. Working(r)' /\ Bound(r)' /\ Stored(r)'
  <2>1. Working(r)'
    BY <1>1, <1>4, <1>6, <1>8, <1>10 DEF Undisturbed, Phases, Working, Waiting,
       Drawn, LoggingIn
  <2>2. Bound(r)'
    BY <1>1, <1>8, <1>10 DEF Undisturbed, Phases, Bound, Waiting
  <2>3. Stored(r)'
    BY <1>1, <1>8, <1>10 DEF Undisturbed, Phases, Stored
  <2> QED
    BY <2>1, <2>2, <2>3
<1>13. Opening(r)'
  BY <1>2, <1>4, <1>6, <1>8, <1>9, <1>10 DEF Opening, Before
<1> QED
  BY <1>7, <1>11, <1>12, <1>13, OneRequest DEF Phases

(* The correlation knows of the terms before it is stored again; where the *)
(* page cannot be made, nobody will be told of the session.                *)
LEMMA BuildTOSRedirectUndisturbed ==
    ASSUME OneAtATime, Inv, Honest, Undisturbed, NEW r \in Requests,
           BuildTOSRedirect(r)
    PROVE  Undisturbed'
<1> USE DEF After
<1> DEFINE c == View(r)
           s == View(r).id
<1>1. /\ UNCHANGED <<answers, live, owing, drawn, present, cookie, carried, at>>
      /\ UNCHANGED <<sid, failed, setCookie>> /\ pc[r] = "terms"
  BY DEF BuildTOSRedirect
<1>2. /\ c \in Matched /\ Clear(c) /\ c.flow \in Unanswered /\ s \in Unnamed
      /\ s # NoId /\ s \in SessionIds \cap drawn /\ sid[r] = s
      /\ at[r] = cookie /\ carried[r] = cookie /\ cookie \in Slots \cap drawn
  BY <1>1, AtWork
<1>3. CASE /\ c.flow \notin Unparsable /\ pc'[r] = "tos_read"
           /\ Write(r, WithTOSTarget(c)) /\ UNCHANGED outcome
  <2>1. /\ WithTOSTarget(c) \in Matched /\ WithTOSTarget(c).id = s
        /\ WithTOSTarget(c).flow = c.flow /\ Clear(WithTOSTarget(c))
        /\ WithTOSTarget(c).tos
    BY <1>2, <1>3, TOSIsMatched DEF WithTOSTarget, Matched, Correlation, Clear
  <2>2. /\ Recalled' /\ Unanswered \subseteq Unanswered' /\ Unnamed' = Unnamed
        /\ Informed' = Informed
    BY <1>1, <1>3, Quiet DEF Undisturbed, Recalled
  <2>3. /\ View(r)' = WithTOSTarget(c) /\ View(r)' \in Informed
        /\ slot'[cookie] = slot[cookie] \/ slot'[cookie] = View(r)'
        /\ \A k \in Slots \ {cookie} : slot'[k] = slot[k]
    BY <1>1, <1>2, <1>3, <2>1, Seen DEF Informed
  <2>4. AtRest(r)' /\ Asking(r)' /\ Leaving(r)'
    BY <1>3 DEF AtRest, Asking, Leaving, Waiting
  <2>5. /\ Clear(slot[cookie]) /\ slot[cookie].flow = c.flow
        /\ slot[cookie].id \in {NoId, s}
    BY <1>1 DEF Undisturbed, Phases, Working, Drawn, LoggingIn
  <2>6. Working(r)'
    BY <1>1, <1>2, <1>3, <2>1, <2>2, <2>3, <2>5 DEF Working
  <2>7. Opening(r)'
    BY <1>1, <1>2, <1>3, <2>1, <2>2, <2>3 DEF Undisturbed, Phases, Opening,
       Before, Drawn, LoggingIn
  <2>8. Bound(r)'
    BY <1>1, <1>2, <1>3, <2>1, BoundStays DEF Undisturbed, Phases, Waiting
  <2>9. Stored(r)'
    BY <1>1, <1>3, <2>1, <2>3 DEF Undisturbed, Phases, Stored
  <2> QED
    BY <2>2, <2>4, <2>6, <2>7, <2>8, <2>9, OneRequest DEF Phases
<1>4. CASE /\ c.flow \in Unparsable /\ pc'[r] = "redirect"
           /\ Conclude(sid[r], "failed") /\ UNCHANGED <<slot, cor>>
  <2>1. \A t \in Opened : t # s => t \in Opened'
    BY <1>1, <1>2, <1>4 DEF Opened, Ended, Conclude, Inv, Typed
  <2>2. Recalled'
    BY <1>1, <1>2, <2>1 DEF Undisturbed, Recalled, CodeNamesSession, Unnamed,
       FailedLoginLeavesNothing, TermsRedirect, Opened
  <2>3. View(r)' = c
    BY <1>1, <1>4, Seen
  <2>4. AtRest(r)' /\ Asking(r)' /\ Opening(r)' /\ Stored(r)'
    BY <1>4 DEF AtRest, Asking, Opening, Stored, Waiting, Drawn, Before, LoggingIn
  <2>5. Working(r)'
    BY <1>1, <1>2, <1>4 DEF Working, Drawn, LoggingIn
  <2>6. Bound(r)'
    BY <1>1, <1>2, <1>4, BoundStays DEF Undisturbed, Phases, Waiting
  <2>7. Leaving(r)'
    BY <1>1, <1>2, <1>4, <2>3 DEF Leaving, Unanswered
  <2> QED
    BY <2>2, <2>4, <2>5, <2>6, <2>7, OneRequest DEF Phases
<1> QED
  BY <1>3, <1>4, Seen DEF BuildTOSRedirect

LEMMA AuditUndisturbed ==
    ASSUME OneAtATime, Inv, Honest, Undisturbed, NEW r \in Requests, Audit(r)
    PROVE  Undisturbed'
<1> USE DEF After
<1>1. /\ UNCHANGED <<answers, live, owing, drawn, present, cookie, carried, at>>
      /\ UNCHANGED <<slot, cor, sid, setCookie>>
      /\ pc[r] = "audit" /\ pc'[r] \in {"undo", "done"} /\ failed' = failed
      /\ UNCHANGED outcome \/ (~failed[r] /\ Conclude(sid[r], "audited"))
      /\ pc'[r] = "done" => ~failed[r]
  BY Seen DEF Audit, SaveEvent
<1>2. /\ View(r)' = View(r) /\ sid[r] = View(r).id
      /\ failed[r] \/ sid[r] \in live
  BY <1>1, AtWork, Seen DEF Undisturbed, Phases, Opening
<1>3. Opened' = Opened
  BY <1>1, <1>2, LoginFlowAssumption DEF Opened, Ended, Conclude, Inv, Typed
<1>4. /\ Unanswered' = Unanswered /\ Unnamed' = Unnamed /\ Informed' = Informed
  BY <1>1 DEF Unanswered, Unnamed, Informed
<1>5. Recalled'
  BY <1>1, <1>3 DEF Undisturbed, Recalled, CodeNamesSession,
     FailedLoginLeavesNothing, TermsRedirect, Opened
<1>6. AtRest(r)' /\ Asking(r)' /\ Leaving(r)'
  BY <1>1 DEF AtRest, Asking, Leaving, Waiting
<1>7. Working(r)' /\ Opening(r)' /\ Bound(r)' /\ Stored(r)'
  BY <1>1, <1>2, <1>4 DEF Undisturbed, Phases, Working, Opening, Bound, Stored,
     Waiting, Drawn, Before, LoggingIn
<1> QED
  BY <1>5, <1>6, <1>7, OneRequest DEF Phases

(* Nobody was told of the session that is taken back. *)
LEMMA UndoUndisturbed ==
    ASSUME OneAtATime, Inv, Honest, Undisturbed, NEW r \in Requests, Undo(r)
    PROVE  Undisturbed'
<1> USE DEF After
<1> DEFINE c == View(r)
<1>1. /\ UNCHANGED <<answers, owing, drawn, present, cookie, carried, at, setCookie>>
      /\ pc[r] = "undo" /\ pc'[r] = "redirect"
      /\ live \ {sid[r]} \subseteq live' /\ live' \subseteq live
      /\ ~StoreMayFail => sid[r] \notin live'
      /\ Conclude(sid[r], "failed") /\ Write(r, WithError(c))
  BY Seen DEF Undo
<1>2. /\ c \in Matched /\ c.flow \in Unanswered /\ c.id \in Unnamed
      /\ c.id \in drawn /\ sid[r] = c.id
      /\ at[r] = cookie /\ carried[r] = cookie /\ cookie \in Slots \cap drawn
  BY <1>1, AtWork
<1>3. /\ View(r)'.id = c.id /\ View(r)'.flow = c.flow /\ View(r)'.error
  BY <1>1, <1>2, Seen, ErrorMarks, ErrorIsMatched
<1>4. \A a \in answers : a.id # sid[r]
  BY <1>2 DEF Unnamed
<1>5. \A s \in Opened : s # sid[r] => s \in Opened'
  BY <1>1 DEF Opened, Ended, Conclude, Inv, Typed
<1>6. Recalled'
  BY <1>1, <1>4, <1>5 DEF Undisturbed, Recalled, CodeNamesSession,
     FailedLoginLeavesNothing, TermsRedirect, Opened
<1>7. AtRest(r)' /\ Asking(r)' /\ Opening(r)' /\ Stored(r)'
  BY <1>1 DEF AtRest, Asking, Opening, Stored, Waiting, Drawn, Before, LoggingIn
<1>8. Working(r)'
  BY <1>1, <1>2 DEF Working, Drawn, LoggingIn
<1>9. Leaving(r)'
  BY <1>1, <1>2, <1>3 DEF Leaving, Unanswered
<1>10. Bound(r)'
  BY <1>1, <1>2, ErrorIsMatched, BoundStays DEF Undisturbed, Phases, Waiting
<1> QED
  BY <1>6, <1>7, <1>8, <1>9, <1>10, OneRequest DEF Phases

(* The browser leaves with the cookie of its login, or with one that has   *)
(* nothing to answer yet; or the caller is told of a session that exists.  *)
LEMMA LoggedInUndisturbed ==
    ASSUME OneAtATime, Inv, Honest, Undisturbed, NEW r \in Requests, LoggedIn(r)
    PROVE  Undisturbed'
<1> USE DEF After
<1> DEFINE c == View(r)
<1>1. /\ UNCHANGED <<answers, live, owing, outcome, drawn, present, slot>>
      /\ pc[r] = "done"
  BY DEF LoggedIn
<1>2. /\ c \in Matched /\ Clear(c) /\ c.flow \in Unanswered
      /\ c.id # NoId /\ c.id \in drawn
      /\ at[r] = cookie /\ carried[r] = cookie /\ cookie \in Slots \cap drawn
      /\ SharesPointers => c = slot[cookie]
      /\ c.id \in Opened /\ c \in Informed
  BY <1>1, AtWork DEF Undisturbed, Phases, Opening, Opened
<1>3. /\ Recalled' /\ Settled \subseteq Settled' /\ Unanswered \subseteq Unanswered'
      /\ Opened' = Opened /\ Informed' = Informed
  BY <1>1, Quiet DEF Undisturbed, Recalled
<1>4. CASE SignsOut /\ Finish(r, setCookie[r])
  <2>1. /\ slot[cookie] \in Matched
        /\ Clear(slot[cookie]) /\ slot[cookie].flow = c.flow
        /\ slot[cookie].id \in {NoId, c.id}
        /\ setCookie[r] \in Slots /\ slot[setCookie[r]] \in Matched
        /\ setCookie[r] # cookie =>
              /\ slot[setCookie[r]].id = NoId /\ Clear(slot[setCookie[r]])
              /\ slot[setCookie[r]].flow = c.flow
    BY <1>1, <1>2 DEF Undisturbed, Phases, Working, Stored, Drawn, Inv, Records
  <2>2. slot[setCookie[r]] \in Settled
    BY <1>2, <1>4, <2>1 DEF Settled
  <2>3. cookie' = setCookie[r] /\ pc'[r] = "idle"
    BY <1>4, <2>1, FinishRests, LoginFlowAssumption
  <2>4. AtRest(r)'
    BY <1>1, <1>3, <2>2, <2>3 DEF AtRest
  <2> QED
    BY <1>3, <1>4, <2>4, FinishRests, OneRequest DEF Phases
<1>5. CASE /\ ~SignsOut /\ pc'[r] = "redirect"
           /\ UNCHANGED <<cookie, carried, at, cor, setCookie>>
  <2>1. View(r)' = c
    BY <1>1, <1>5, Seen
  <2>2. AtRest(r)' /\ Asking(r)' /\ Opening(r)' /\ Stored(r)'
    BY <1>5 DEF AtRest, Asking, Opening, Stored, Waiting, Drawn, Before, LoggingIn
  <2>3. Working(r)'
    BY <1>1, <1>2, <1>5 DEF Working, Drawn, LoggingIn
  <2>4. Leaving(r)'
    BY <1>1, <1>2, <1>3, <1>5, <2>1 DEF Leaving, Unanswered, Clear
  <2>5. Bound(r)'
    BY <1>1, <1>2, <1>5, BoundStays DEF Undisturbed, Phases, Waiting
  <2> QED
    BY <1>3, <2>2, <2>3, <2>4, <2>5, OneRequest DEF Phases
<1> QED
  BY <1>4, <1>5, Seen DEF LoggedIn

(* An answer goes to a redirect URI that is a URL.                         *)
LEMMA AnswerUndisturbed ==
    ASSUME OneAtATime, Inv, Undisturbed, NEW r \in Requests,
           Reachable(View(r)), pc[r] = "redirect", pc'[r] = "forget",
           UNCHANGED <<live, owing, outcome, drawn, present, cookie, carried, at>>,
           answers' = answers \cup
               {[flow |-> View(r).flow, id |-> View(r).id,
                 error |-> View(r).error, tos |-> View(r).tos]}
    PROVE  Undisturbed'
<1> DEFINE c == View(r)
           new == [flow |-> c.flow, id |-> c.id, error |-> c.error, tos |-> c.tos]
<1>1. answers' = answers \cup {new}
  OBVIOUS
<1>2. /\ at[r] = cookie /\ carried[r] = cookie /\ cookie \in Slots \cap drawn
      /\ c.flow \in drawn /\ c.id \in drawn \cup {NoId}
  BY DEF Undisturbed, Phases, Working, Leaving, Waiting
<1>3. c.flow \notin Unparsable
  BY <1>2, ViewIsMatched DEF Reachable, Matched, Inv
<1>4. /\ ~StoreMayFail /\ c.error => c.id \notin live
      /\ ~c.error => c.id \in Opened /\ (KeepsTerms => c \in Informed)
  BY <1>3 DEF Undisturbed, Phases, Leaving
<1>5. /\ new.flow = c.flow /\ new.id = c.id /\ new.tos = c.tos
      /\ new.error = c.error
  OBVIOUS
<1> HIDE DEF new
<1>6. Opened' = Opened
  BY DEF Opened, Ended
<1>7. CodeNamesSession' /\ (~StoreMayFail => FailedLoginLeavesNothing')
  BY <1>1, <1>4, <1>5, <1>6 DEF Undisturbed, Recalled, CodeNamesSession,
     FailedLoginLeavesNothing, Opened
<1>8. KeepsTerms => TermsRedirect'
  BY <1>1, <1>4, <1>5 DEF Undisturbed, Recalled, TermsRedirect, Informed
<1>9. Recalled'
  BY <1>1, <1>2, <1>3, <1>5, <1>7, <1>8 DEF Undisturbed, Recalled, KeepsTerms
<1>10. AtRest(r)' /\ Asking(r)' /\ Opening(r)' /\ Bound(r)' /\ Stored(r)' /\ Leaving(r)'
  BY DEF AtRest, Asking, Opening, Bound, Stored, Leaving, Waiting, Drawn, Before,
         After, LoggingIn
<1>11. Working(r)'
  BY <1>2 DEF Working, Drawn, LoggingIn
<1> QED
  BY <1>9, <1>10, <1>11, OneRequest DEF Phases

LEMMA RedirectUndisturbed ==
    ASSUME OneAtATime, ~CacheMayFail, Inv, Undisturbed, NEW r \in Requests,
           Redirect(r)
    PROVE  Undisturbed'
<1>1. /\ UNCHANGED <<live, owing, outcome, drawn, present, slot>>
      /\ pc[r] = "redirect"
  BY DEF Redirect
<1>2. /\ at[r] = cookie /\ carried[r] = cookie /\ cookie \in Slots \cap drawn
  BY <1>1 DEF Undisturbed, Phases, Working, Waiting
<1>3. CASE /\ Reachable(View(r)) /\ pc'[r] = "forget"
           /\ UNCHANGED <<cookie, carried, at>>
           /\ answers' = answers \cup
                {[flow |-> View(r).flow, id |-> View(r).id,
                  error |-> View(r).error, tos |-> View(r).tos]}
  BY <1>1, <1>3, AnswerUndisturbed
<1>4. CASE /\ pc'[r] = "forget" /\ UNCHANGED <<cookie, carried, at, answers>>
  <2>1. Recalled'
    BY <1>1, <1>4, Quiet DEF Undisturbed, Recalled
  <2>2. AtRest(r)' /\ Asking(r)' /\ Opening(r)' /\ Bound(r)' /\ Stored(r)' /\ Leaving(r)'
    BY <1>4 DEF AtRest, Asking, Opening, Bound, Stored, Leaving, Waiting, Drawn,
                Before, After, LoggingIn
  <2>3. Working(r)'
    BY <1>1, <1>2, <1>4 DEF Working, Drawn, LoggingIn
  <2> QED
    BY <2>1, <2>2, <2>3, OneRequest DEF Phases
<1>5. CASE ~Reachable(View(r)) /\ Finish(r, setCookie[r]) /\ UNCHANGED answers
  <2>1. View(r).flow \in Unparsable /\ View(r).flow \in Unanswered
    BY <1>1, <1>5 DEF Reachable, Undisturbed, Phases, Leaving
  <2>2. Recalled' /\ Settled \subseteq Settled'
    BY <1>1, <1>5, Quiet DEF Undisturbed, Recalled
  <2>3. cookie' \in Slots /\ slot[cookie'].flow = View(r).flow
    BY <1>1, <1>2, <1>5, FinishRests DEF Undisturbed, Phases, Bound, Waiting
  <2>4. slot[cookie'] \in Settled
    BY <2>1, <2>3 DEF Settled, Clear, Inv, Records
  <2>5. AtRest(r)'
    BY <1>1, <2>2, <2>4 DEF AtRest
  <2> QED
    BY <1>5, <2>2, <2>5, FinishRests, OneRequest DEF Phases
<1> QED
  BY <1>3, <1>4, <1>5, Seen DEF Redirect

LEMMA ForgetUndisturbed ==
    ASSUME OneAtATime, ~CacheMayFail, Inv, Undisturbed, NEW r \in Requests,
           Forget(r)
    PROVE  Undisturbed'
<1>1. /\ UNCHANGED <<answers, live, owing, outcome, drawn, slot>>
      /\ pc[r] = "forget" /\ present' \subseteq present
  BY DEF Forget
<1>2. carried[r] \in Slots
  BY <1>1 DEF Undisturbed, Phases, Working, Waiting
<1>3. Finish(r, NoSlot) /\ NoSlot \notin Slots /\ NoSlot # Keep
  BY <1>2, LoginFlowAssumption DEF Forget
<1>4. Recalled'
  BY <1>1, Quiet DEF Undisturbed, Recalled
<1>5. cookie' = NoSlot /\ NoSlot \notin present'
  BY <1>1, <1>3, FinishRests DEF Inv, Typed
<1>6. AtRest(r)'
  BY <1>5 DEF AtRest
<1> QED
  BY <1>3, <1>4, <1>6, FinishRests, OneRequest DEF Phases

(* An in-memory cache goes with the process, with it the store if it is in *)
(* memory too, and nothing is left of its logins but the answers sent.     *)
LEMMA CrashUndisturbed ==
    ASSUME SharesPointers \/ ~MayCrash, Inv, Undisturbed,
           NEW R \in SUBSET InFlight, Crash(R)
    PROVE  Undisturbed'
<1>1. /\ SharesPointers /\ R = InFlight /\ present' = {}
      /\ live' = IF InMemoryStore THEN {} ELSE live
  BY DEF Crash, InMemoryStore
<1>2. UNCHANGED <<answers, owing, drawn>> /\ live \subseteq SessionIds
  BY DEF Crash, Inv, Typed
<1>3. Opened \subseteq Opened'
  BY <1>1, <1>2 DEF Crash, Opened, Ended, LostWith, InMemoryStore
<1>4. Recalled'
  BY <1>1, <1>2, <1>3 DEF Undisturbed, Recalled, CodeNamesSession,
     FailedLoginLeavesNothing, TermsRedirect, Opened
<1>5. ASSUME NEW r \in Requests
      PROVE  Phases(r)'
  <2>1. pc'[r] = "idle" /\ setCookie'[r] = Keep
    BY <1>1 DEF Crash, Reset, InFlight, Undisturbed, Phases, Bound
  <2> QED
    BY <1>1, <2>1 DEF Phases, AtRest, Asking, Working, Opening, Bound, Stored, Leaving,
       Waiting, Drawn, Before, After, LoggingIn
<1> QED
  BY <1>4, <1>5 DEF Undisturbed

(* A correlation that lapses leaves everything else as it is. *)
LEMMA LapseUndisturbed ==
    ASSUME Inv, Undisturbed, present' \subseteq present,
           UNCHANGED <<cookie, drawn, slot, live, begunFor, owing, requestVars,
                       outcome, answers>>
    PROVE  Undisturbed'
<1>1. /\ Recalled' /\ Unanswered' = Unanswered /\ Unnamed' = Unnamed
      /\ Opened' = Opened /\ Informed' = Informed /\ Settled \subseteq Settled'
  BY Quiet DEF Undisturbed, Recalled, Unanswered, requestVars
<1>2. ASSUME NEW r \in Requests
      PROVE  Phases(r)'
  <2>1. View(r)' = View(r) /\ Base(r)' = Base(r) /\ Phases(r)
    BY DEF View, Base, requestVars, Undisturbed
  <2>2. AtRest(r)' /\ Asking(r)'
    BY <1>1, <2>1 DEF Phases, AtRest, Asking, requestVars
  <2>3. Working(r)' /\ Opening(r)' /\ Bound(r)'
    BY <1>1, <2>1 DEF Phases, Working, Opening, Bound, requestVars
  <2>4. Stored(r)' /\ Leaving(r)'
    BY <1>1, <2>1 DEF Phases, Stored, Leaving, requestVars, KeepsTerms
  <2> QED
    BY <2>2, <2>3, <2>4 DEF Phases
<1> QED
  BY <1>1, <1>2 DEF Undisturbed

LEMMA InitUndisturbed == Init => Undisturbed
<1> SUFFICES ASSUME Init PROVE Undisturbed
  OBVIOUS
<1>1. Recalled
  BY DEF Init, Recalled, CodeNamesSession, FailedLoginLeavesNothing,
         TermsRedirect
<1>2. ASSUME NEW r \in Requests
      PROVE  Phases(r)
  BY DEF Init, Phases, AtRest, Asking, Working, Opening, Bound, Stored, Leaving,
         Waiting, Drawn, Before, After, LoggingIn
<1> QED
  BY <1>1, <1>2 DEF Undisturbed

LEMMA NextUndisturbed ==
    ASSUME OneAtATime, ~CacheMayFail, SharesPointers \/ ~MayCrash,
           Inv, Honest, Undisturbed, [Next]_vars
    PROVE  Undisturbed'
<1>1. ASSUME NEW r \in Requests, Proceed(r)
      PROVE  Undisturbed'
  BY <1>1, AuthorizeSetUndisturbed, ProviderAuthorizeUndisturbed,
     DrawSessionIdUndisturbed, ProviderUndisturbed, SetReadUndisturbed,
     SetUndisturbed, CreateSessionUndisturbed, BuildTOSRedirectUndisturbed,
     AuditUndisturbed, UndoUndisturbed, LoggedInUndisturbed, RedirectUndisturbed, ForgetUndisturbed
  DEF Proceed
<1>2. ASSUME NEW r \in Requests,
             (\E f \in Flows : Authorize(r, f)) \/ Callback(r) \/ LogoutCallback(r)
      PROVE  Undisturbed'
  BY <1>2, AuthorizeUndisturbed, CallbackUndisturbed
<1>3. CASE \E k \in Slots : Lapse(k)
  BY <1>3, LapseUndisturbed DEF Lapse
<1>4. CASE UNCHANGED vars
  BY <1>4, LapseUndisturbed DEF vars
<1>5. ASSUME NEW R \in SUBSET InFlight, Crash(R)
      PROVE  Undisturbed'
  BY <1>5, CrashUndisturbed
<1> QED
  BY <1>1, <1>2, <1>3, <1>4, <1>5 DEF Next

LEMMA AlwaysUndisturbed ==
    ASSUME OneAtATime, ~CacheMayFail, SharesPointers \/ ~MayCrash
    PROVE  Spec => [](Inv /\ Honest /\ Undisturbed)
<1>1. Inv /\ Honest /\ Undisturbed /\ [Next]_vars => (Inv /\ Honest /\ Undisturbed)'
  BY NextInv, NextHonest, NextUndisturbed
<1>2. Init => Inv /\ Honest /\ Undisturbed
  BY InitInv, InitHonest, InitUndisturbed
<1> QED
  BY <1>1, <1>2, PTL DEF Spec

(* Where requests do not overlap and the caches answer, a code is for a    *)
(* session that exists, or did until its process stopped: the correlation  *)
(* is not redirected before the session is created, and a login taken back *)
(* is answered with an error. The store may fail.                          *)
THEOREM CodesNameSessions ==
    ASSUME OneAtATime, ~CacheMayFail, SharesPointers \/ ~MayCrash
    PROVE  Spec => []CodeNamesSession
<1>1. Undisturbed => CodeNamesSession
  BY DEF Undisturbed, Recalled
<1> QED
  BY <1>1, AlwaysUndisturbed, PTL

(* Where the store answers, a login answered with an error leaves no       *)
(* session behind: one that was opened is deleted before the caller is     *)
(* told, and no id that was answered is ever opened after that. Over       *)
(* copies that is so however requests overlap, processes stop and caches   *)
(* fail; over the objects of one cache, of requests that do not overlap.   *)
THEOREM FailedLoginsLeaveNothing ==
    ASSUME ~StoreMayFail, ~SharesPointers \/ OneAtATime
    PROVE  Spec => []FailedLoginLeavesNothing
<1>1. CASE ~SharesPointers
  BY <1>1, AlwaysTakenBack
<1>2. CASE SharesPointers
  <2>1. OneAtATime /\ ~CacheMayFail
    BY <1>2, LoginFlowAssumption
  <2>2. Undisturbed => FailedLoginLeavesNothing
    BY DEF Undisturbed, Recalled
  <2> QED
    BY <1>2, <2>1, <2>2, AlwaysUndisturbed, PTL
<1> QED
  BY <1>1, <1>2

(* Where requests do not overlap and the caches answer, a user who owes an *)
(* acceptance of the terms is sent to them, if the cache shares its        *)
(* objects or the provider has no sign-out callback. Without either it is  *)
(* not so: see the run LoginSignout.                                       *)
THEOREM TermsAreShown ==
    ASSUME OneAtATime, ~CacheMayFail, SharesPointers \/ ~MayCrash,
           SharesPointers \/ ~SignsOut
    PROVE  Spec => []TermsRedirect
<1>1. Undisturbed => TermsRedirect
  BY DEF Undisturbed, Recalled, KeepsTerms
<1> QED
  BY <1>1, AlwaysUndisturbed, PTL

(* Where requests do not overlap and the caches answer, no flow is         *)
(* answered with a code twice.                                             *)
THEOREM AnswersOnce ==
    ASSUME OneAtATime, ~CacheMayFail, SharesPointers \/ ~MayCrash
    PROVE  Spec => AnsweredOnce
<1> DEFINE Once == \A r \in Requests :
                      pc[r] = "redirect" /\ pc'[r] = "forget" /\ ~View(r).error =>
                          \A a \in answers : a.flow = View(r).flow => a.error
<1>1. Undisturbed => Once
  BY DEF Undisturbed, Phases, Leaving, Unanswered
<1>2. Undisturbed => [Once]_vars
  BY <1>1
<1> QED
  BY <1>2, AlwaysUndisturbed, PTL DEF AnsweredOnce
=============================================================================
