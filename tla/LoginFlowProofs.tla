--------------------------- MODULE LoginFlowProofs ---------------------------
(***************************************************************************)
(* What holds of the login flow for any number of flows, clients, slots    *)
(* and requests, whether the cache shares its objects or copies them, and  *)
(* whatever fails.                                                         *)
(***************************************************************************)
EXTENDS LoginFlow, TLAPS

(* Correlations whose client is the one of their flow, and whose terms     *)
(* page, if they have one, was made from a redirect URI that is a URL.     *)
Matched == {c \in Correlation : /\ c.client = ClientOf[c.flow]
                                /\ c.tos => c.flow \notin Unparsable}

(* What the handlers make of a correlation, and what they leave of it.     *)
LEMMA NewIsMatched ==
    ASSUME NEW f \in Flows
    PROVE  NewCorrelation(f) \in Matched /\ NewCorrelation(f).id = NoId
BY LoginFlowAssumption DEF NewCorrelation, Matched, Correlation

LEMMA BlankIsMatched == Blank \in Matched /\ Blank.id = NoId
BY LoginFlowAssumption, NewIsMatched DEF Blank

LEMMA ErrorIsMatched ==
    ASSUME NEW c \in Matched
    PROVE  /\ WithError(c) \in Matched
           /\ WithError(c).id = c.id
           /\ WithError(c).flow = c.flow
           /\ WithError(c).client = c.client
BY DEF WithError, Matched, Correlation

LEMMA TOSIsMatched ==
    ASSUME NEW c \in Matched, c.flow \notin Unparsable
    PROVE  /\ WithTOSTarget(c) \in Matched
           /\ WithTOSTarget(c).id = c.id
           /\ WithTOSTarget(c).flow = c.flow
           /\ WithTOSTarget(c).client = c.client
BY DEF WithTOSTarget, Matched, Correlation

LEMMA DrawnIsMatched ==
    ASSUME NEW c \in Matched, NEW s \in SessionIds
    PROVE  /\ [c EXCEPT !.id = s] \in Matched
           /\ [c EXCEPT !.id = s].id = s
           /\ [c EXCEPT !.id = s].client = c.client
BY DEF Matched, Correlation

LEMMA ClearedIsMatched ==
    ASSUME NEW c \in Matched
    PROVE  /\ [c EXCEPT !.id = NoId, !.error = FALSE, !.tos = FALSE] \in Matched
           /\ [c EXCEPT !.id = NoId, !.error = FALSE, !.tos = FALSE].id = NoId
BY DEF Matched, Correlation

LEMMA MergeIsMatched ==
    ASSUME NEW old \in Matched, NEW c \in Matched, old.client = c.client
    PROVE  /\ Merge(old, c) \in Matched
           /\ Merge(old, c).id = c.id
           /\ Merge(old, c).client = c.client
BY DEF Merge, Matched, Correlation

-----------------------------------------------------------------------------
(* The inductive invariant: what every variable may hold, and that a       *)
(* request past its first step works on a slot.                            *)
Typed ==
    /\ cookie \in Slots \cup {NoSlot}
    /\ drawn \subseteq Slots \cup Flows \cup SessionIds
    /\ present \subseteq Slots
    /\ live \subseteq SessionIds
    /\ begunFor \in [SessionIds -> Flows]
    /\ owing \subseteq SessionIds
    /\ pc \in [Requests -> Steps]
    /\ carried \in [Requests -> Slots \cup {NoSlot}]
    /\ at \in [Requests -> Slots \cup {NoSlot}]
    /\ found \in [Requests -> BOOLEAN]
    /\ sid \in [Requests -> SessionIds \cup {NoId}]
    /\ accepted \in [Requests -> BOOLEAN]
    /\ failed \in [Requests -> BOOLEAN]
    /\ setCookie \in [Requests -> Slots \cup {NoSlot, Keep}]
    /\ outcome \in [SessionIds -> Outcomes]
    /\ answers \subseteq Answer

Records ==
    /\ slot \in [Slots -> Matched]
    /\ cor \in [Requests -> Matched]
    /\ base \in [Requests -> Matched]

Located ==
    \A r \in Requests :
        /\ pc[r] \notin {"idle", "authorize_set"} => at[r] \in Slots
        /\ found[r] => carried[r] \in Slots

Inv == Typed /\ Records /\ Located

LEMMA ViewIsMatched ==
    ASSUME Records, NEW r \in Requests, at[r] \in Slots
    PROVE  /\ View(r) \in Matched
           /\ View(r).id \in SessionIds \cup {NoId}
           /\ View(r).flow \in Flows
           /\ View(r).error \in BOOLEAN
           /\ View(r).tos \in BOOLEAN
<1>1. View(r) \in Matched
  BY DEF View, Records
<1> QED
  BY <1>1 DEF Matched, Correlation

LEMMA WriteKeepsRecords ==
    ASSUME Records, NEW r \in Requests, at[r] \in Slots, NEW c \in Matched,
           Write(r, c), UNCHANGED base
    PROVE  Records'
BY DEF Write, Records

LEMMA ReadSlotKeeps ==
    ASSUME Inv, NEW r \in Requests, NEW k \in Slots \cup {NoSlot},
           ReadSlot(r, k)
    PROVE  /\ found' \in [Requests -> BOOLEAN]
           /\ base' \in [Requests -> Matched]
           /\ found'[r] => k \in Slots
           /\ \A q \in Requests \ {r} : found'[q] = found[q]
<1>1. k \in present => k \in Slots
  BY DEF Inv, Typed
<1>2. base' \in [Requests -> Matched]
  BY <1>1 DEF ReadSlot, Inv, Records
<1>3. found' = [found EXCEPT ![r] = (k \in present)]
  BY DEF ReadSlot
<1>4. found \in [Requests -> BOOLEAN] /\ (k \in present) \in BOOLEAN
  BY DEF Inv, Typed
<1>5. found'[r] = (k \in present)
  BY <1>3, <1>4, Zenon
<1>6. \A q \in Requests \ {r} : found'[q] = found[q]
  BY <1>3, <1>4
<1>7. found' \in [Requests -> BOOLEAN]
  BY <1>3, <1>4, Zenon
<1> QED
  BY <1>1, <1>2, <1>5, <1>6, <1>7

LEMMA StoreInKeeps ==
    ASSUME Inv, NEW r \in Requests, NEW c \in Matched, NEW k \in Slots,
           StoreIn(r, c, k)
    PROVE  /\ present' \subseteq Slots
           /\ setCookie' \in [Requests -> Slots \cup {NoSlot, Keep}]
           /\ slot' \in [Slots -> Matched]
           /\ drawn' \subseteq Slots \cup Flows \cup SessionIds
<1>1. /\ present' \subseteq Slots
      /\ setCookie' \in [Requests -> Slots \cup {NoSlot, Keep}]
      /\ drawn' \subseteq Slots \cup Flows \cup SessionIds
  BY DEF StoreIn, Inv, Typed
<1>2. CASE Reusable(r, c)
  <2>1. Base(r) \in Matched /\ Base(r).client = c.client
    BY <1>2 DEF Reusable, Base, Inv, Records, Located
  <2>2. Merge(Base(r), c) \in Matched
    BY <2>1, MergeIsMatched
  <2> QED
    BY <1>1, <1>2, <2>2 DEF StoreIn, Inv, Records
<1>3. CASE ~Reusable(r, c)
  BY <1>1, <1>3, ClearedIsMatched DEF StoreIn, Inv, Records
<1> QED
  BY <1>2, <1>3

LEMMA FinishKeeps ==
    ASSUME Inv, NEW r \in Requests, NEW jar \in Slots \cup {NoSlot, Keep},
           Finish(r, jar)
    PROVE  /\ cookie' \in Slots \cup {NoSlot}
           /\ pc' \in [Requests -> Steps]
           /\ carried' \in [Requests -> Slots \cup {NoSlot}]
           /\ at' \in [Requests -> Slots \cup {NoSlot}]
           /\ cor' \in [Requests -> Matched]
           /\ base' \in [Requests -> Matched]
           /\ found' \in [Requests -> BOOLEAN]
           /\ sid' \in [Requests -> SessionIds \cup {NoId}]
           /\ accepted' \in [Requests -> BOOLEAN]
           /\ failed' \in [Requests -> BOOLEAN]
           /\ setCookie' \in [Requests -> Slots \cup {NoSlot, Keep}]
           /\ Located'
<1>1. pc' \in [Requests -> Steps]
  BY DEF Finish, Goto, Inv, Typed, Steps
<1>2. /\ cor' \in [Requests -> Matched]
      /\ base' \in [Requests -> Matched]
  BY BlankIsMatched DEF Finish, Inv, Records
<1>3. Located'
  BY DEF Finish, Goto, Inv, Typed, Located
<1> QED
  BY <1>1, <1>2, <1>3 DEF Finish, Inv, Typed

LEMMA ConcludeKeeps ==
    ASSUME Inv, NEW s \in SessionIds \cup {NoId}, NEW o \in Outcomes,
           Conclude(s, o)
    PROVE  outcome' \in [SessionIds -> Outcomes]
BY DEF Conclude, Inv, Typed

LEMMA InvImpliesTypeOK == Inv => TypeOK
BY DEF Inv, Typed, Records, TypeOK, Matched

LEMMA InitInv == Init => Inv
BY BlankIsMatched
DEF Init, Inv, Typed, Records, Located, Steps, Outcomes, Matched, Correlation

(* A step that touches neither the records nor where the requests are at,  *)
(* other than by moving one request on.                                    *)
LEMMA GotoKeepsLocated ==
    ASSUME Inv, NEW r \in Requests, NEW step \in Steps, Goto(r, step),
           at[r] \in Slots, UNCHANGED <<at, carried>>,
           UNCHANGED found \/ PutAside(r)
    PROVE  Located' /\ pc' \in [Requests -> Steps]
BY DEF Inv, Typed, Located, Goto, PutAside

LEMMA ArriveKeeps ==
    ASSUME Inv, NEW r \in Requests, NEW step \in Steps, Arrive(r),
           Goto(r, step), UNCHANGED found
    PROVE  /\ cookie \in Slots
           /\ Located'
           /\ pc' \in [Requests -> Steps]
           /\ carried' \in [Requests -> Slots \cup {NoSlot}]
           /\ at' \in [Requests -> Slots \cup {NoSlot}]
BY DEF Inv, Typed, Located, Arrive, Goto

-----------------------------------------------------------------------------
(* One lemma per action. *)
LEMMA AuthorizeInv ==
    ASSUME Inv, NEW r \in Requests, NEW f \in Flows, Authorize(r, f)
    PROVE  Inv'
<1>1. cookie \in Slots \cup {NoSlot} /\ ReadSlot(r, cookie)
  BY DEF Authorize, Inv, Typed
<1>2. /\ found' \in [Requests -> BOOLEAN]
      /\ base' \in [Requests -> Matched]
      /\ found'[r] => cookie \in Slots
      /\ \A q \in Requests \ {r} : found'[q] = found[q]
  BY <1>1, ReadSlotKeeps
<1>3. NewCorrelation(f) \in Matched
  BY NewIsMatched
<1>4. Typed'
  BY <1>2 DEF Authorize, Goto, Inv, Typed, Steps
<1>5. Records'
  BY <1>2, <1>3 DEF Authorize, Inv, Records
<1>6. Located'
  BY <1>2 DEF Authorize, Goto, Inv, Typed, Located
<1> QED
  BY <1>4, <1>5, <1>6 DEF Inv

LEMMA AuthorizeSetInv ==
    ASSUME Inv, NEW r \in Requests, AuthorizeSet(r)
    PROVE  Inv'
<1>1. CASE /\ CacheMayFail
           /\ Finish(r, Keep)
           /\ UNCHANGED <<drawn, present, slot>>
  BY <1>1, FinishKeeps DEF AuthorizeSet, Inv, Typed, Records
<1>2. ASSUME NEW k \in Slots,
             StoreIn(r, cor[r], k),
             at' = [at EXCEPT ![r] = k],
             cor' = [cor EXCEPT ![r] = IF SharesPointers THEN Blank ELSE slot'[k]],
             PutAside(r),
             Goto(r, "authorize"),
             UNCHANGED <<cookie, carried, sid, accepted, failed>>
      PROVE  Inv'
  <2>1. cor[r] \in Matched
    BY DEF Inv, Records
  <2>2. /\ present' \subseteq Slots
        /\ setCookie' \in [Requests -> Slots \cup {NoSlot, Keep}]
        /\ slot' \in [Slots -> Matched]
        /\ drawn' \subseteq Slots \cup Flows \cup SessionIds
    BY <1>2, <2>1, StoreInKeeps
  <2>3. Typed'
    BY <1>2, <2>2 DEF AuthorizeSet, PutAside, Goto, Inv, Typed, Steps
  <2>4. Records'
    BY <1>2, <2>2, BlankIsMatched DEF PutAside, Inv, Records
  <2>5. Located'
    BY <1>2 DEF Goto, PutAside, Inv, Typed, Located
  <2> QED
    BY <2>3, <2>4, <2>5 DEF Inv
<1> QED
  BY <1>1, <1>2 DEF AuthorizeSet

LEMMA ProviderAuthorizeInv ==
    ASSUME Inv, NEW r \in Requests, ProviderAuthorize(r)
    PROVE  Inv'
<1>1. CASE View(r).id # NoId
  BY <1>1, GotoKeepsLocated
  DEF ProviderAuthorize, Inv, Typed, Records, Located, Steps
<1>2. CASE ~(View(r).id # NoId)
  <2>1. Finish(r, setCookie[r]) /\ setCookie[r] \in Slots \cup {NoSlot, Keep}
    BY <1>2 DEF ProviderAuthorize, SendToProvider, Inv, Typed
  <2> QED
    BY <2>1, FinishKeeps DEF ProviderAuthorize, Inv, Typed, Records
<1> QED
  BY <1>1, <1>2

LEMMA CallbackInv ==
    ASSUME Inv, NEW r \in Requests, Callback(r)
    PROVE  Inv'
<1>1. /\ Arrive(r) /\ UNCHANGED found
      /\ Goto(r, "redirect") \/ Goto(r, "draw")
  BY DEF Callback
<1>2. /\ cookie \in Slots
      /\ Located'
      /\ pc' \in [Requests -> Steps]
      /\ carried' \in [Requests -> Slots \cup {NoSlot}]
      /\ at' \in [Requests -> Slots \cup {NoSlot}]
  BY <1>1, ArriveKeeps DEF Steps
<1>3. slot[cookie] \in Matched /\ WithError(slot[cookie]) \in Matched
  BY <1>2, ErrorIsMatched DEF Inv, Records
<1>4. Records'
  BY <1>2, <1>3, BlankIsMatched DEF Callback, Inv, Records
<1>5. Typed'
  BY <1>2 DEF Callback, Inv, Typed
<1> QED
  BY <1>2, <1>4, <1>5 DEF Inv

LEMMA LogoutCallbackInv ==
    ASSUME Inv, NEW r \in Requests, LogoutCallback(r)
    PROVE  Inv'
<1>1. Arrive(r) /\ UNCHANGED found /\ Goto(r, "redirect")
  BY DEF LogoutCallback
<1>2. /\ cookie \in Slots
      /\ Located'
      /\ pc' \in [Requests -> Steps]
      /\ carried' \in [Requests -> Slots \cup {NoSlot}]
      /\ at' \in [Requests -> Slots \cup {NoSlot}]
  BY <1>1, ArriveKeeps DEF Steps
<1>3. Records'
  BY <1>2, BlankIsMatched DEF LogoutCallback, Inv, Records
<1>4. Typed'
  BY <1>2 DEF LogoutCallback, Inv, Typed
<1> QED
  BY <1>2, <1>3, <1>4 DEF Inv

(* The actions of a request that has its slot and keeps it. *)
LEMMA DrawSessionIdInv ==
    ASSUME Inv, NEW r \in Requests, DrawSessionId(r)
    PROVE  Inv'
<1>1. at[r] \in Slots /\ Records
  BY DEF DrawSessionId, Inv, Located
<1>2. View(r) \in Matched /\ View(r).flow \in Flows
  BY <1>1, ViewIsMatched
<1>3. PICK s \in SessionIds :
         /\ drawn' = drawn \cup {s}
         /\ begunFor' = [begunFor EXCEPT ![s] = View(r).flow]
         /\ Write(r, [View(r) EXCEPT !.id = s])
  BY DEF DrawSessionId
<1>4. Records'
  BY <1>1, <1>2, <1>3, DrawnIsMatched, WriteKeepsRecords DEF DrawSessionId
<1>5. Located' /\ pc' \in [Requests -> Steps]
  BY <1>1, GotoKeepsLocated DEF DrawSessionId, Steps
<1>6. Typed'
  BY <1>2, <1>3, <1>5 DEF DrawSessionId, Inv, Typed
<1> QED
  BY <1>4, <1>5, <1>6 DEF Inv

LEMMA ProviderCallbackInv ==
    ASSUME Inv, NEW r \in Requests, ProviderCallback(r)
    PROVE  Inv'
<1>1. at[r] \in Slots /\ Records
  BY DEF ProviderCallback, Inv, Located
<1>2. /\ View(r) \in Matched /\ WithError(View(r)) \in Matched
      /\ View(r).id \in SessionIds \cup {NoId}
  BY <1>1, ViewIsMatched, ErrorIsMatched
<1>3. /\ Write(r, WithError(View(r))) \/ UNCHANGED <<slot, cor>>
      /\ Goto(r, "redirect") \/ Goto(r, "ask")
  BY DEF ProviderCallback, ProviderRefuses, MapClaims
<1>4. Records'
  BY <1>1, <1>2, <1>3, WriteKeepsRecords DEF ProviderCallback, Records
<1>5. Located' /\ pc' \in [Requests -> Steps]
  BY <1>1, <1>3, GotoKeepsLocated DEF ProviderCallback, Steps
<1>6. Typed'
  BY <1>2, <1>3, <1>5 DEF ProviderCallback, Inv, Typed
<1> QED
  BY <1>4, <1>5, <1>6 DEF Inv

LEMMA GetUserDataInv ==
    ASSUME Inv, NEW r \in Requests, GetUserData(r)
    PROVE  Inv'
<1>1. at[r] \in Slots /\ Records
  BY DEF GetUserData, Inv, Located
<1>2. /\ View(r) \in Matched /\ WithError(View(r)) \in Matched
      /\ View(r).id \in SessionIds \cup {NoId}
  BY <1>1, ViewIsMatched, ErrorIsMatched
<1>3. Records'
  BY <1>1, <1>2, WriteKeepsRecords DEF GetUserData, Records
<1>4. Located' /\ pc' \in [Requests -> Steps]
  BY <1>1, GotoKeepsLocated DEF GetUserData, Steps
<1>5. Typed'
  BY <1>2, <1>4 DEF GetUserData, Inv, Typed
<1> QED
  BY <1>3, <1>4, <1>5 DEF Inv

LEMMA SetReadInv ==
    ASSUME Inv, NEW r \in Requests, SetRead(r)
    PROVE  Inv'
<1>1. carried[r] \in Slots \cup {NoSlot} /\ ReadSlot(r, carried[r])
  BY DEF SetRead, Inv, Typed
<1>2. /\ found' \in [Requests -> BOOLEAN]
      /\ base' \in [Requests -> Matched]
      /\ found'[r] => carried[r] \in Slots
      /\ \A q \in Requests \ {r} : found'[q] = found[q]
  BY <1>1, ReadSlotKeeps
<1>3. Typed'
  BY <1>2 DEF SetRead, Goto, Inv, Typed, Steps
<1>4. Records'
  BY <1>2 DEF SetRead, Inv, Records
<1>5. Located'
  BY <1>2 DEF SetRead, Goto, Inv, Typed, Located
<1> QED
  BY <1>3, <1>4, <1>5 DEF Inv

LEMMA SetInv ==
    ASSUME Inv, NEW r \in Requests, Set(r)
    PROVE  Inv'
<1>1. at[r] \in Slots /\ Records
  BY DEF Set, Inv, Located
<1>2. View(r) \in Matched
  BY <1>1, ViewIsMatched
<1>3. /\ present' \subseteq Slots
      /\ setCookie' \in [Requests -> Slots \cup {NoSlot, Keep}]
      /\ slot' \in [Slots -> Matched]
      /\ drawn' \subseteq Slots \cup Flows \cup SessionIds
  <2>1. CASE \E k \in Slots : StoreIn(r, View(r), k)
    BY <2>1, <1>2, StoreInKeeps
  <2>2. CASE UNCHANGED <<drawn, present, slot, setCookie>>
    BY <2>2 DEF Inv, Typed, Records
  <2> QED
    BY <2>1, <2>2 DEF Set
<1>4. Located' /\ pc' \in [Requests -> Steps]
  <2>1. \E step \in Steps : Goto(r, step)
    BY DEF Set, Steps
  <2> QED
    BY <1>1, <2>1, GotoKeepsLocated DEF Set
<1>5. outcome' \in [SessionIds -> Outcomes]
  BY ConcludeKeeps DEF Set, Inv, Typed, Outcomes
<1>6. Typed'
  BY <1>3, <1>4, <1>5 DEF Set, PutAside, Inv, Typed
<1>7. Records'
  BY <1>3, BlankIsMatched DEF Set, PutAside, Inv, Records
<1> QED
  BY <1>4, <1>6, <1>7 DEF Inv

LEMMA CreateSessionInv ==
    ASSUME Inv, NEW r \in Requests, CreateSession(r)
    PROVE  Inv'
<1>1. at[r] \in Slots /\ Records
  BY DEF CreateSession, Inv, Located
<1>2. View(r).flow \in Flows
  BY <1>1, ViewIsMatched
<1>3. PICK s \in NewSessionIds(r) :
         /\ drawn' = drawn \cup {s}
         /\ sid' = [sid EXCEPT ![r] = s]
         /\ begunFor' = IF sid[r] # NoId THEN begunFor
                        ELSE [begunFor EXCEPT ![s] = View(r).flow]
         /\ live' = live \cup {s} \/ live' = live
         /\ owing' = owing \cup {s} \/ owing' = owing
         /\ failed' = [failed EXCEPT ![r] = TRUE] \/ failed' = failed
         /\ UNCHANGED <<cookie, present, carried, at, found, accepted,
                        setCookie, outcome, answers>>
  BY DEF CreateSession
<1>4. s \in SessionIds
  BY <1>3 DEF NewSessionIds, Inv, Typed
<1>5. Records'
  BY <1>1 DEF CreateSession, Records
<1>6. Located' /\ pc' \in [Requests -> Steps]
  <2>1. \E step \in Steps : Goto(r, step)
    BY DEF CreateSession, Steps
  <2> QED
    BY <1>1, <2>1, GotoKeepsLocated DEF CreateSession
<1>7. /\ failed' \in [Requests -> BOOLEAN]
      /\ begunFor' \in [SessionIds -> Flows]
  BY <1>2, <1>3, <1>4 DEF Inv, Typed
<1>8. Typed'
  BY <1>3, <1>4, <1>6, <1>7 DEF Inv, Typed
<1> QED
  BY <1>5, <1>6, <1>8 DEF Inv

LEMMA BuildTOSRedirectInv ==
    ASSUME Inv, NEW r \in Requests, BuildTOSRedirect(r)
    PROVE  Inv'
<1>1. at[r] \in Slots /\ Records
  BY DEF BuildTOSRedirect, Inv, Located
<1>2. View(r).flow \notin Unparsable => WithTOSTarget(View(r)) \in Matched
  BY <1>1, ViewIsMatched, TOSIsMatched
<1>3. Records'
  BY <1>1, <1>2, WriteKeepsRecords DEF BuildTOSRedirect, Records
<1>4. Located' /\ pc' \in [Requests -> Steps]
  <2>1. Goto(r, "redirect") \/ Goto(r, "tos_read")
    BY DEF BuildTOSRedirect
  <2> QED
    BY <1>1, <2>1, GotoKeepsLocated DEF BuildTOSRedirect, Steps
<1>5. outcome' \in [SessionIds -> Outcomes]
  BY ConcludeKeeps DEF BuildTOSRedirect, Inv, Typed, Outcomes
<1>6. Typed'
  BY <1>4, <1>5 DEF BuildTOSRedirect, Inv, Typed
<1> QED
  BY <1>3, <1>4, <1>6 DEF Inv

LEMMA AuditInv ==
    ASSUME Inv, NEW r \in Requests, Audit(r)
    PROVE  Inv'
<1>1. at[r] \in Slots
  BY DEF Audit, Inv, Located
<1>2. Located' /\ pc' \in [Requests -> Steps]
  <2>1. \E step \in Steps : Goto(r, step)
    BY DEF Audit, SaveEvent, Steps
  <2> QED
    BY <1>1, <2>1, GotoKeepsLocated DEF Audit
<1>3. outcome' \in [SessionIds -> Outcomes]
  <2>1. UNCHANGED outcome \/ Conclude(sid[r], "audited")
    BY DEF Audit, SaveEvent
  <2> QED
    BY <2>1, ConcludeKeeps DEF Inv, Typed, Outcomes
<1> QED
  BY <1>2, <1>3 DEF Audit, Inv, Typed, Records

LEMMA UndoInv ==
    ASSUME Inv, NEW r \in Requests, Undo(r)
    PROVE  Inv'
<1>1. at[r] \in Slots /\ Records
  BY DEF Undo, Inv, Located
<1>2. WithError(View(r)) \in Matched
  BY <1>1, ViewIsMatched, ErrorIsMatched
<1>3. Records'
  BY <1>1, <1>2, WriteKeepsRecords DEF Undo
<1>4. Located' /\ pc' \in [Requests -> Steps]
  BY <1>1, GotoKeepsLocated DEF Undo, Steps
<1>5. outcome' \in [SessionIds -> Outcomes]
  BY ConcludeKeeps DEF Undo, Inv, Typed, Outcomes
<1>6. Typed'
  BY <1>4, <1>5 DEF Undo, Inv, Typed
<1> QED
  BY <1>3, <1>4, <1>6 DEF Inv

LEMMA LoggedInInv ==
    ASSUME Inv, NEW r \in Requests, LoggedIn(r)
    PROVE  Inv'
<1>1. at[r] \in Slots /\ setCookie[r] \in Slots \cup {NoSlot, Keep}
  BY DEF LoggedIn, Inv, Typed, Located
<1>2. CASE SignsOut
  BY <1>1, <1>2, FinishKeeps DEF LoggedIn, Inv, Typed, Records
<1>3. CASE ~SignsOut
  BY <1>1, <1>3, GotoKeepsLocated
  DEF LoggedIn, Inv, Typed, Records, Located, Steps
<1> QED
  BY <1>2, <1>3

(* The answer of a request is about the correlation it works on. *)
LEMMA RedirectInv ==
    ASSUME Inv, NEW r \in Requests, Redirect(r)
    PROVE  Inv'
<1>1. /\ at[r] \in Slots /\ Records
      /\ setCookie[r] \in Slots \cup {NoSlot, Keep}
  BY DEF Redirect, Inv, Typed, Located
<1>2. CASE Goto(r, "forget")
           /\ answers' = answers \cup
                {[flow |-> View(r).flow, id |-> View(r).id,
                  error |-> View(r).error, tos |-> View(r).tos]}
           /\ UNCHANGED <<cookie, carried, at, cor, base, found, sid,
                          accepted, failed, setCookie>>
  <2>1. answers' \subseteq Answer
    BY <1>1, <1>2, ViewIsMatched DEF Answer, Inv, Typed
  <2>2. Located' /\ pc' \in [Requests -> Steps]
    BY <1>1, <1>2, GotoKeepsLocated DEF Steps
  <2> QED
    BY <1>2, <2>1, <2>2 DEF Redirect, Inv, Typed, Records
<1>3. CASE /\ Goto(r, "forget") /\ UNCHANGED answers
           /\ UNCHANGED <<cookie, carried, at, cor, base, found, sid,
                          accepted, failed, setCookie>>
  BY <1>1, <1>3, GotoKeepsLocated DEF Redirect, Inv, Typed, Records, Steps
<1>4. CASE Finish(r, setCookie[r]) /\ UNCHANGED answers
  BY <1>1, <1>4, FinishKeeps DEF Redirect, Inv, Typed, Records
<1> QED
  BY <1>2, <1>3, <1>4 DEF Redirect

LEMMA ForgetInv ==
    ASSUME Inv, NEW r \in Requests, Forget(r)
    PROVE  Inv'
<1>1. /\ setCookie[r] \in Slots \cup {NoSlot, Keep}
      /\ present' \subseteq Slots
  BY DEF Forget, Inv, Typed
<1>2. PICK jar \in Slots \cup {NoSlot, Keep} : Finish(r, jar)
  BY <1>1 DEF Forget
<1> QED
  BY <1>1, <1>2, FinishKeeps DEF Forget, Inv, Typed, Records

(* What a process loses is put back where it was at first. *)
LEMMA CrashInv ==
    ASSUME Inv, NEW R \in SUBSET InFlight, Crash(R)
    PROVE  Inv'
<1>1. \A r \in Requests :
         /\ r \in R => pc'[r] = "idle" /\ found'[r] = FALSE
         /\ r \notin R => /\ pc'[r] = pc[r] /\ found'[r] = found[r]
                         /\ at'[r] = at[r] /\ carried'[r] = carried[r]
  BY DEF Crash, Reset
<1>2. Located'
  BY <1>1 DEF Inv, Located
<1>3. Records'
  BY BlankIsMatched DEF Crash, Reset, Inv, Records
<1>4. /\ pc' \in [Requests -> Steps]
      /\ outcome' \in [SessionIds -> Outcomes]
  BY DEF Crash, Reset, Inv, Typed, Steps, Outcomes
<1>5. /\ carried' \in [Requests -> Slots \cup {NoSlot}]
      /\ at' \in [Requests -> Slots \cup {NoSlot}]
      /\ found' \in [Requests -> BOOLEAN]
      /\ sid' \in [Requests -> SessionIds \cup {NoId}]
  BY DEF Crash, Reset, Inv, Typed
<1>6. /\ accepted' \in [Requests -> BOOLEAN]
      /\ failed' \in [Requests -> BOOLEAN]
      /\ setCookie' \in [Requests -> Slots \cup {NoSlot, Keep}]
  BY DEF Crash, Reset, Inv, Typed
<1>7. Typed'
  BY <1>4, <1>5, <1>6 DEF Crash, Inv, Typed
<1> QED
  BY <1>2, <1>3, <1>7 DEF Inv

-----------------------------------------------------------------------------
LEMMA NextInv == Inv /\ [Next]_vars => Inv'
<1> SUFFICES ASSUME Inv, [Next]_vars
             PROVE  Inv'
  OBVIOUS
<1>1. ASSUME NEW r \in Requests, NEW f \in Flows, Authorize(r, f)
      PROVE  Inv'
  BY <1>1, AuthorizeInv
<1>2. ASSUME NEW r \in Requests, Callback(r)
      PROVE  Inv'
  BY <1>2, CallbackInv
<1>3. ASSUME NEW r \in Requests, LogoutCallback(r)
      PROVE  Inv'
  BY <1>3, LogoutCallbackInv
<1>4. ASSUME NEW r \in Requests, Proceed(r)
      PROVE  Inv'
  BY <1>4, AuthorizeSetInv, ProviderAuthorizeInv, DrawSessionIdInv,
     ProviderCallbackInv, GetUserDataInv, SetReadInv, SetInv,
     CreateSessionInv, BuildTOSRedirectInv, AuditInv, UndoInv, LoggedInInv, RedirectInv, ForgetInv
  DEF Proceed
<1>5. ASSUME NEW k \in Slots, Lapse(k)
      PROVE  Inv'
  BY <1>5 DEF Lapse, requestVars, Inv, Typed, Records, Located
<1>6. ASSUME NEW R \in SUBSET InFlight, Crash(R)
      PROVE  Inv'
  BY <1>6, CrashInv
<1>7. CASE UNCHANGED vars
  BY <1>7 DEF vars, requestVars, Inv, Typed, Records, Located
<1> QED
  BY <1>1, <1>2, <1>3, <1>4, <1>5, <1>6, <1>7 DEF Next

(* Every variable stays within its type, and every correlation in the cache
   names the client its flow belongs to: a slot is never taken over by a
   flow of another client. *)
THEOREM TypeCorrect == Spec => []TypeOK
<1>1. Spec => []Inv
  BY InitInv, NextInv, PTL DEF Spec
<1> QED
  BY <1>1, InvImpliesTypeOK, PTL

-----------------------------------------------------------------------------
(* Sessions and clients. A correlation is owned when the session it names, *)
(* if any, was drawn for a flow of its own client. No step takes a session *)
(* id from a correlation to one of another client.                         *)
Owned == {c \in Matched : c.id # NoId =>
            c.id \in drawn /\ ClientOf[begunFor[c.id]] = c.client}

HonestAnswers ==
    \A a \in answers : a.id # NoId =>
        a.id \in drawn /\ ClientOf[begunFor[a.id]] = ClientOf[a.flow]

Honest ==
    /\ slot \in [Slots -> Owned]
    /\ cor \in [Requests -> Owned]
    /\ base \in [Requests -> Owned]
    /\ HonestAnswers

(* Ids are not drawn twice, and what one was drawn for is not changed.     *)
Grows ==
    /\ drawn \subseteq drawn'
    /\ \A s \in drawn \cap SessionIds : begunFor'[s] = begunFor[s]

LEMMA OwnedGrows ==
    ASSUME Grows
    PROVE  Owned \subseteq Owned'
BY DEF Grows, Owned, Matched, Correlation

LEMMA KeepsHonest ==
    ASSUME Inv, Honest, Grows, UNCHANGED answers,
           slot' \in [Slots -> Owned \cup Owned'],
           cor' \in [Requests -> Owned \cup Owned'],
           base' \in [Requests -> Owned \cup Owned']
    PROVE  Honest'
<1>1. Owned \cup Owned' = Owned'
  BY OwnedGrows
<1>2. HonestAnswers'
  BY DEF HonestAnswers, Honest, Grows, Inv, Typed, Answer
<1> QED
  BY <1>1, <1>2 DEF Honest

LEMMA FreshIsOwned ==
    ASSUME NEW c \in Matched, c.id = NoId
    PROVE  c \in Owned
BY DEF Owned

LEMMA MarkedIsOwned ==
    ASSUME NEW c \in Owned
    PROVE  /\ WithError(c) \in Owned
           /\ c.flow \notin Unparsable => WithTOSTarget(c) \in Owned
<1>1. c \in Matched
  BY DEF Owned
<1> QED
  BY <1>1, ErrorIsMatched, TOSIsMatched DEF Owned

LEMMA MergeIsOwned ==
    ASSUME NEW old \in Owned, NEW c \in Owned, old.client = c.client
    PROVE  Merge(old, c) \in Owned
<1>1. old \in Matched /\ c \in Matched
  BY DEF Owned
<1> QED
  BY <1>1, MergeIsMatched DEF Owned

LEMMA ViewIsOwned ==
    ASSUME Honest, NEW r \in Requests, at[r] \in Slots
    PROVE  View(r) \in Owned
BY DEF View, Honest

LEMMA WriteOwned ==
    ASSUME Honest, NEW r \in Requests, at[r] \in Slots, NEW S, Owned \subseteq S,
           NEW c \in S, Write(r, c), UNCHANGED base
    PROVE  /\ slot' \in [Slots -> S]
           /\ cor' \in [Requests -> S]
           /\ base' \in [Requests -> S]
BY DEF Write, Honest

LEMMA StoreInOwned ==
    ASSUME Inv, Honest, NEW r \in Requests, NEW c \in Owned, NEW k \in Slots,
           StoreIn(r, c, k)
    PROVE  slot' \in [Slots -> Owned]
<1>1. c \in Matched
  BY DEF Owned
<1>2. CASE Reusable(r, c)
  <2>1. Base(r) \in Owned /\ Base(r).client = c.client
    BY <1>2 DEF Reusable, Base, Inv, Honest, Located
  <2>2. Merge(Base(r), c) \in Owned
    BY <2>1, MergeIsOwned
  <2> QED
    BY <1>2, <2>2 DEF StoreIn, Honest
<1>3. CASE ~Reusable(r, c)
  <2>1. [c EXCEPT !.id = NoId, !.error = FALSE, !.tos = FALSE] \in Owned
    BY <1>1, ClearedIsMatched, FreshIsOwned
  <2> QED
    BY <1>3, <2>1 DEF StoreIn, Honest
<1> QED
  BY <1>2, <1>3

LEMMA ReadSlotOwned ==
    ASSUME Inv, Honest, NEW r \in Requests, NEW k \in Slots \cup {NoSlot},
           ReadSlot(r, k)
    PROVE  base' \in [Requests -> Owned]
<1>1. k \in present => k \in Slots
  BY DEF Inv, Typed
<1> QED
  BY <1>1 DEF ReadSlot, Honest

LEMMA FinishOwned ==
    ASSUME Honest, NEW r \in Requests, NEW jar, Finish(r, jar)
    PROVE  cor' \in [Requests -> Owned] /\ base' \in [Requests -> Owned]
<1>1. Blank \in Owned
  BY BlankIsMatched, FreshIsOwned
<1> QED
  BY <1>1 DEF Finish, Honest

(* A step that draws nothing, or a name that is new. *)
LEMMA SameGrows ==
    ASSUME UNCHANGED begunFor, drawn \subseteq drawn'
    PROVE  Grows
BY DEF Grows

LEMMA DrawsGrows ==
    ASSUME Inv, NEW s \in SessionIds \ drawn, NEW f,
           drawn' = drawn \cup {s},
           begunFor' = [begunFor EXCEPT ![s] = f]
    PROVE  Grows
BY DEF Grows, Inv, Typed

-----------------------------------------------------------------------------
(* The actions that change a correlation, or answer with one. *)
LEMMA AuthorizeHonest ==
    ASSUME Inv, Honest, NEW r \in Requests, NEW f \in Flows, Authorize(r, f)
    PROVE  Honest'
<1>1. cookie \in Slots \cup {NoSlot} /\ ReadSlot(r, cookie)
  BY DEF Authorize, Inv, Typed
<1>2. base' \in [Requests -> Owned]
  BY <1>1, ReadSlotOwned
<1>3. NewCorrelation(f) \in Owned
  BY NewIsMatched, FreshIsOwned
<1>4. cor' \in [Requests -> Owned] /\ slot' \in [Slots -> Owned]
  BY <1>3 DEF Authorize, Honest
<1>5. Grows
  BY SameGrows DEF Authorize
<1> QED
  BY <1>2, <1>4, <1>5, KeepsHonest DEF Authorize

LEMMA AuthorizeSetHonest ==
    ASSUME Inv, Honest, NEW r \in Requests, AuthorizeSet(r)
    PROVE  Honest'
<1>1. CASE /\ CacheMayFail
           /\ Finish(r, Keep)
           /\ UNCHANGED <<drawn, present, slot>>
  <2>1. Grows /\ UNCHANGED answers
    BY <1>1, SameGrows DEF AuthorizeSet
  <2> QED
    BY <1>1, <2>1, FinishOwned, KeepsHonest DEF Honest
<1>2. ASSUME NEW k \in Slots,
             StoreIn(r, cor[r], k),
             cor' = [cor EXCEPT ![r] = IF SharesPointers THEN Blank ELSE slot'[k]],
             PutAside(r)
      PROVE  Honest'
  <2>1. cor[r] \in Owned /\ Blank \in Owned
    BY BlankIsMatched, FreshIsOwned DEF Honest
  <2>2. slot' \in [Slots -> Owned]
    BY <1>2, <2>1, StoreInOwned
  <2>3. cor' \in [Requests -> Owned] /\ base' \in [Requests -> Owned]
    BY <1>2, <2>1, <2>2 DEF Honest, PutAside
  <2>4. Grows /\ UNCHANGED answers
    BY <1>2, SameGrows DEF AuthorizeSet, StoreIn
  <2> QED
    BY <2>2, <2>3, <2>4, KeepsHonest
<1> QED
  BY <1>1, <1>2 DEF AuthorizeSet

LEMMA CallbackHonest ==
    ASSUME Inv, Honest, NEW r \in Requests, Callback(r)
    PROVE  Honest'
<1>1. cookie \in Slots
  BY DEF Callback, Arrive, Inv, Typed
<1>2. /\ slot[cookie] \in Owned /\ WithError(slot[cookie]) \in Owned
      /\ Blank \in Owned
  BY <1>1, MarkedIsOwned, BlankIsMatched, FreshIsOwned DEF Honest
<1>3. /\ slot' \in [Slots -> Owned]
      /\ cor' \in [Requests -> Owned]
      /\ base' \in [Requests -> Owned]
  BY <1>1, <1>2 DEF Callback, Honest
<1>4. Grows /\ UNCHANGED answers
  BY SameGrows DEF Callback
<1> QED
  BY <1>3, <1>4, KeepsHonest

LEMMA LogoutCallbackHonest ==
    ASSUME Inv, Honest, NEW r \in Requests, LogoutCallback(r)
    PROVE  Honest'
<1>1. cookie \in Slots
  BY DEF LogoutCallback, Arrive, Inv, Typed
<1>2. slot[cookie] \in Owned /\ Blank \in Owned
  BY <1>1, BlankIsMatched, FreshIsOwned DEF Honest
<1>3. /\ slot' \in [Slots -> Owned]
      /\ cor' \in [Requests -> Owned]
      /\ base' \in [Requests -> Owned]
  BY <1>1, <1>2 DEF LogoutCallback, Honest
<1>4. Grows /\ UNCHANGED answers
  BY SameGrows DEF LogoutCallback
<1> QED
  BY <1>3, <1>4, KeepsHonest

(* The one step that gives a correlation an id: it is drawn for its flow. *)
LEMMA DrawSessionIdHonest ==
    ASSUME Inv, Honest, NEW r \in Requests, DrawSessionId(r)
    PROVE  Honest'
<1>1. at[r] \in Slots /\ Records
  BY DEF DrawSessionId, Inv, Located
<1>2. PICK s \in SessionIds \ drawn :
         /\ drawn' = drawn \cup {s}
         /\ begunFor' = [begunFor EXCEPT ![s] = View(r).flow]
         /\ Write(r, [View(r) EXCEPT !.id = s])
  BY DEF DrawSessionId
<1>3. Grows
  BY <1>2, DrawsGrows
<1>4. [View(r) EXCEPT !.id = s] \in Owned'
  <2>1. View(r) \in Matched
    BY <1>1, ViewIsMatched
  <2>2. /\ [View(r) EXCEPT !.id = s] \in Matched
        /\ [View(r) EXCEPT !.id = s].id = s
        /\ [View(r) EXCEPT !.id = s].client = ClientOf[View(r).flow]
    BY <2>1, DrawnIsMatched DEF Matched
  <2>3. s \in drawn' /\ begunFor'[s] = View(r).flow
    BY <1>2 DEF Inv, Typed
  <2> QED
    BY <2>2, <2>3 DEF Owned
<1>5. /\ slot' \in [Slots -> Owned \cup Owned']
      /\ cor' \in [Requests -> Owned \cup Owned']
      /\ base' \in [Requests -> Owned \cup Owned']
  <2>1. UNCHANGED base
    BY DEF DrawSessionId
  <2> QED
    BY <1>1, <1>2, <1>4, <2>1, WriteOwned
<1> QED
  BY <1>3, <1>5, KeepsHonest DEF DrawSessionId

LEMMA ProviderCallbackHonest ==
    ASSUME Inv, Honest, NEW r \in Requests, ProviderCallback(r)
    PROVE  Honest'
<1>1. at[r] \in Slots
  BY DEF ProviderCallback, Inv, Located
<1>2. WithError(View(r)) \in Owned
  BY <1>1, ViewIsOwned, MarkedIsOwned
<1>3. /\ slot' \in [Slots -> Owned]
      /\ cor' \in [Requests -> Owned]
      /\ base' \in [Requests -> Owned]
  <2>1. Write(r, WithError(View(r))) \/ UNCHANGED <<slot, cor>>
    BY DEF ProviderCallback, ProviderRefuses, MapClaims
  <2> QED
    BY <1>1, <1>2, <2>1, WriteOwned DEF ProviderCallback, Honest
<1>4. Grows /\ UNCHANGED answers
  BY SameGrows DEF ProviderCallback
<1> QED
  BY <1>3, <1>4, KeepsHonest

LEMMA GetUserDataHonest ==
    ASSUME Inv, Honest, NEW r \in Requests, GetUserData(r)
    PROVE  Honest'
<1>1. at[r] \in Slots
  BY DEF GetUserData, Inv, Located
<1>2. WithError(View(r)) \in Owned
  BY <1>1, ViewIsOwned, MarkedIsOwned
<1>3. /\ slot' \in [Slots -> Owned]
      /\ cor' \in [Requests -> Owned]
      /\ base' \in [Requests -> Owned]
  BY <1>1, <1>2, WriteOwned DEF GetUserData, Honest
<1>4. Grows /\ UNCHANGED answers
  BY SameGrows DEF GetUserData
<1> QED
  BY <1>3, <1>4, KeepsHonest

LEMMA SetReadHonest ==
    ASSUME Inv, Honest, NEW r \in Requests, SetRead(r)
    PROVE  Honest'
<1>1. carried[r] \in Slots \cup {NoSlot} /\ ReadSlot(r, carried[r])
  BY DEF SetRead, Inv, Typed
<1>2. base' \in [Requests -> Owned]
  BY <1>1, ReadSlotOwned
<1>3. Grows /\ UNCHANGED <<slot, cor, answers>>
  BY SameGrows DEF SetRead
<1> QED
  BY <1>2, <1>3, KeepsHonest DEF Honest

LEMMA SetHonest ==
    ASSUME Inv, Honest, NEW r \in Requests, Set(r)
    PROVE  Honest'
<1>1. at[r] \in Slots
  BY DEF Set, Inv, Located
<1>2. View(r) \in Owned
  BY <1>1, ViewIsOwned
<1>3. UNCHANGED <<begunFor, cor, answers>> /\ base' \in [Requests -> Owned]
  BY BlankIsMatched, FreshIsOwned DEF Set, PutAside, Honest
<1>4. CASE \E k \in Slots : StoreIn(r, View(r), k)
  <2>1. slot' \in [Slots -> Owned]
    BY <1>2, <1>4, StoreInOwned
  <2>2. Grows
    BY <1>3, <1>4, SameGrows DEF StoreIn
  <2> QED
    BY <1>3, <2>1, <2>2, KeepsHonest DEF Honest
<1>5. CASE UNCHANGED <<drawn, slot>>
  <2>1. Grows
    BY <1>3, <1>5, SameGrows
  <2> QED
    BY <1>3, <1>5, <2>1, KeepsHonest DEF Honest
<1> QED
  BY <1>4, <1>5 DEF Set

(* A session whose id was reset on the way gets a new one, which the
   correlation does not learn. *)
LEMMA CreateSessionHonest ==
    ASSUME Inv, Honest, NEW r \in Requests, CreateSession(r)
    PROVE  Honest'
<1>1. PICK s \in NewSessionIds(r) :
         /\ drawn' = drawn \cup {s}
         /\ begunFor' = IF sid[r] # NoId THEN begunFor
                        ELSE [begunFor EXCEPT ![s] = View(r).flow]
  BY DEF CreateSession
<1>2. Grows
  <2>1. CASE sid[r] # NoId
    BY <1>1, <2>1, SameGrows
  <2>2. CASE sid[r] = NoId
    BY <1>1, <2>2, DrawsGrows DEF NewSessionIds
  <2> QED
    BY <2>1, <2>2
<1> QED
  BY <1>2, KeepsHonest DEF CreateSession, Honest

LEMMA BuildTOSRedirectHonest ==
    ASSUME Inv, Honest, NEW r \in Requests, BuildTOSRedirect(r)
    PROVE  Honest'
<1>1. at[r] \in Slots
  BY DEF BuildTOSRedirect, Inv, Located
<1>2. View(r).flow \notin Unparsable => WithTOSTarget(View(r)) \in Owned
  BY <1>1, ViewIsOwned, MarkedIsOwned
<1>3. /\ slot' \in [Slots -> Owned]
      /\ cor' \in [Requests -> Owned]
      /\ base' \in [Requests -> Owned]
  BY <1>1, <1>2, WriteOwned DEF BuildTOSRedirect, Honest
<1>4. Grows /\ UNCHANGED answers
  BY SameGrows DEF BuildTOSRedirect
<1> QED
  BY <1>3, <1>4, KeepsHonest

LEMMA UndoHonest ==
    ASSUME Inv, Honest, NEW r \in Requests, Undo(r)
    PROVE  Honest'
<1>1. at[r] \in Slots
  BY DEF Undo, Inv, Located
<1>2. WithError(View(r)) \in Owned
  BY <1>1, ViewIsOwned, MarkedIsOwned
<1>3. /\ slot' \in [Slots -> Owned]
      /\ cor' \in [Requests -> Owned]
      /\ base' \in [Requests -> Owned]
  BY <1>1, <1>2, WriteOwned DEF Undo
<1>4. Grows /\ UNCHANGED answers
  BY SameGrows DEF Undo
<1> QED
  BY <1>3, <1>4, KeepsHonest

(* The actions that at most end a request. *)
LEMMA EndsHonest ==
    ASSUME Inv, Honest, NEW r \in Requests, UNCHANGED <<drawn, begunFor, slot>>,
           UNCHANGED answers,
           (\E jar : Finish(r, jar)) \/ UNCHANGED <<cor, base>>
    PROVE  Honest'
<1>1. Grows
  BY SameGrows
<1>2. cor' \in [Requests -> Owned] /\ base' \in [Requests -> Owned]
  BY FinishOwned DEF Honest
<1> QED
  BY <1>1, <1>2, KeepsHonest DEF Honest

(* An answer hands out the id of the correlation the request works on, and
   that is owned by the client of its flow. *)
LEMMA RedirectHonest ==
    ASSUME Inv, Honest, NEW r \in Requests, Redirect(r)
    PROVE  Honest'
<1>1. at[r] \in Slots /\ Records
  BY DEF Redirect, Inv, Located
<1>2. UNCHANGED <<drawn, begunFor, slot>>
  BY DEF Redirect
<1>3. CASE /\ answers' = answers \cup
                {[flow |-> View(r).flow, id |-> View(r).id,
                  error |-> View(r).error, tos |-> View(r).tos]}
           /\ UNCHANGED <<cor, base>>
  <2>1. View(r) \in Owned
    BY <1>1, ViewIsOwned
  <2>2. View(r).id # NoId =>
            /\ View(r).id \in drawn
            /\ ClientOf[begunFor[View(r).id]] = ClientOf[View(r).flow]
    BY <2>1 DEF Owned, Matched
  <2>3. HonestAnswers'
    BY <1>2, <1>3, <2>2 DEF HonestAnswers, Honest
  <2> QED
    BY <1>2, <1>3, <2>3 DEF Honest, Owned
<1>4. CASE /\ UNCHANGED answers
           /\ Finish(r, setCookie[r]) \/ UNCHANGED <<cor, base>>
  BY <1>2, <1>4, EndsHonest
<1> QED
  BY <1>3, <1>4 DEF Redirect

LEMMA CrashHonest ==
    ASSUME Inv, Honest, NEW R \in SUBSET InFlight, Crash(R)
    PROVE  Honest'
<1>1. Blank \in Owned
  BY BlankIsMatched, FreshIsOwned
<1>2. cor' \in [Requests -> Owned] /\ base' \in [Requests -> Owned]
  BY <1>1 DEF Crash, Reset, Honest
<1>3. Grows /\ UNCHANGED <<slot, answers>>
  BY SameGrows DEF Crash
<1> QED
  BY <1>2, <1>3, KeepsHonest DEF Honest

-----------------------------------------------------------------------------
LEMMA InitHonest == Init => Honest
BY BlankIsMatched, FreshIsOwned DEF Init, Honest, HonestAnswers

LEMMA NextHonest == Inv /\ Honest /\ [Next]_vars => Honest'
<1> SUFFICES ASSUME Inv, Honest, [Next]_vars
             PROVE  Honest'
  OBVIOUS
<1>1. ASSUME NEW r \in Requests, NEW f \in Flows, Authorize(r, f)
      PROVE  Honest'
  BY <1>1, AuthorizeHonest
<1>2. ASSUME NEW r \in Requests, Callback(r) \/ LogoutCallback(r)
      PROVE  Honest'
  BY <1>2, CallbackHonest, LogoutCallbackHonest
<1>3. ASSUME NEW r \in Requests, ProviderAuthorize(r) \/ LoggedIn(r) \/ Forget(r)
      PROVE  Honest'
  <2>1. /\ UNCHANGED <<drawn, begunFor, slot>> /\ UNCHANGED answers
        /\ (\E jar : Finish(r, jar)) \/ UNCHANGED <<cor, base>>
    BY <1>3 DEF ProviderAuthorize, SendToProvider, LoggedIn, Forget
  <2> QED
    BY <2>1, EndsHonest
<1>4. ASSUME NEW r \in Requests, Audit(r)
      PROVE  Honest'
  BY <1>4, EndsHonest DEF Audit
<1>5. ASSUME NEW r \in Requests, Proceed(r)
      PROVE  Honest'
  BY <1>3, <1>4, <1>5, AuthorizeSetHonest, DrawSessionIdHonest,
     ProviderCallbackHonest, GetUserDataHonest, SetReadHonest, SetHonest,
     CreateSessionHonest, BuildTOSRedirectHonest, UndoHonest, RedirectHonest
  DEF Proceed
<1>6. CASE UNCHANGED <<drawn, begunFor, slot, cor, base, answers>>
  BY <1>6, SameGrows, KeepsHonest DEF Honest
<1>7. ASSUME NEW k \in Slots, Lapse(k)
      PROVE  Honest'
  BY <1>6, <1>7 DEF Lapse, requestVars
<1>8. ASSUME NEW R \in SUBSET InFlight, Crash(R)
      PROVE  Honest'
  BY <1>8, CrashHonest
<1> QED
  BY <1>1, <1>2, <1>5, <1>6, <1>7, <1>8 DEF Next, vars, requestVars

(* A code reaches only the client whose /authorize its login began with:
   for any number of clients, tabs and flows that share one cookie, from
   either cache, and whatever of the caches, the store or the audit fails. *)
THEOREM Isolation == Spec => []ClientIsolation
<1>1. Honest => ClientIsolation
  BY DEF Honest, HonestAnswers, ClientIsolation
<1>2. Spec => [](Inv /\ Honest)
  BY InitInv, InitHonest, NextInv, NextHonest, PTL DEF Spec
<1> QED
  BY <1>1, <1>2, PTL
=============================================================================
