--------------------------- MODULE SessionsProofs ---------------------------
(***************************************************************************)
(* What holds of the sessions for any number of sessions, requests and     *)
(* roles, over every back end.                                             *)
(***************************************************************************)
EXTENDS Sessions, TLAPS

(* The sessions the handlers make and change are well formed.              *)
LEMMA RoleIfSoleType ==
    ASSUME NEW roles \in RoleLists
    PROVE  /\ RoleIfSole(roles) \in RoleIds \cup {NoRole}
           /\ RoleIfSole(roles) # NoRole => roles[RoleIfSole(roles)] = "granted"
<1>1. CASE RequiresRole /\ SoleGranted(roles) # {}
  <2>1. RoleIfSole(roles) \in SoleGranted(roles)
    BY <1>1 DEF RoleIfSole
  <2>2. QED
    BY <2>1 DEF SoleGranted, SoleRoles
<1>2. CASE ~(RequiresRole /\ SoleGranted(roles) # {})
  BY <1>2 DEF RoleIfSole
<1>3. QED
  BY <1>1, <1>2

LEMMA BlankType == Blank \in Session
BY SessionsAssumption DEF Blank, Session, States

LEMMA LoginType ==
    ASSUME NEW accepted \in BOOLEAN, NEW roles \in RoleLists
    PROVE  /\ CreateSessionFromUserData(accepted, roles) \in Session
           /\ ServiceSession(accepted, roles) \in Session
<1>1. StateAtLogin(accepted, roles) \in States
  BY DEF StateAtLogin, States
<1>2. CreateSessionFromUserData(accepted, roles) \in Session
  BY <1>1, RoleIfSoleType, SessionsAssumption
     DEF CreateSessionFromUserData, Session
<1>3. SoleGranted(roles) \subseteq RoleIds
  BY DEF SoleGranted, SoleRoles
<1>4. ServiceSession(accepted, roles) \in Session
  BY <1>3, SessionsAssumption DEF ServiceSession, Session, States
<1>5. QED
  BY <1>2, <1>4

LEMMA ChangeType ==
    ASSUME NEW x \in Session
    PROVE  /\ \A accepted \in BOOLEAN, roles \in RoleLists :
                 TakeAnswer(x, accepted, roles) \in Session
           /\ \A roles \in RoleLists : Settle(x, roles) \in Session
           /\ \A k \in RoleIds : SelectRole(x, k) \in Session
           /\ Touch(x) \in Session
           /\ Older(x) \in Session
<1> USE SessionsAssumption DEF Session, States
<1>1. \A accepted \in BOOLEAN, roles \in RoleLists :
          TakeAnswer(x, accepted, roles) \in Session
  BY DEF TakeAnswer
<1>2. \A roles \in RoleLists : StateAfterTerms(roles) \in States
  BY DEF StateAfterTerms
<1>3. \A roles \in RoleLists : Settle(x, roles) \in Session
  BY <1>2, RoleIfSoleType DEF Settle
<1>4. \A k \in RoleIds : SelectRole(x, k) \in Session
  BY DEF SelectRole
<1>5. Touch(x) \in Session
  BY DEF Touch
<1>6. Older(x) \in Session
  BY DEF Older
<1>7. QED
  BY <1>1, <1>3, <1>4, <1>5, <1>6

(* What the building blocks of the actions leave well formed.              *)
LEMMA BlocksType ==
    ASSUME TypeOK, NEW r \in Requests, held[r] \in SessionIds
    PROVE  /\ View(r) \in Session
           /\ \A x \in Session :
                 Write(r, x) => /\ stored' \in [SessionIds -> Session]
                                /\ copy' \in [Requests -> Session]
           /\ Put(r) => /\ live' \subseteq issued
                        /\ stored' \in [SessionIds -> Session]
                        /\ age' \in [SessionIds -> 0 .. Timeout]
           /\ Remove(r) => /\ live' \subseteq issued
                           /\ stored' \in [SessionIds -> Session]
<1> USE SessionsAssumption DEF TypeOK
<1>1. View(r) \in Session
  BY DEF View
<1>2. ASSUME NEW x \in Session, Write(r, x)
      PROVE  stored' \in [SessionIds -> Session] /\ copy' \in [Requests -> Session]
  BY <1>2 DEF Write
<1>3. held[r] \in issued
  OBVIOUS
<1>4. ASSUME Put(r)
      PROVE  /\ live' \subseteq issued
             /\ stored' \in [SessionIds -> Session]
             /\ age' \in [SessionIds -> 0 .. Timeout]
  BY <1>1, <1>3, <1>4 DEF Put
<1>5. ASSUME Remove(r)
      PROVE  live' \subseteq issued /\ stored' \in [SessionIds -> Session]
  BY <1>5, BlankType DEF Remove, Drop
<1>6. QED
  BY <1>1, <1>2, <1>4, <1>5

LEMMA FinishType ==
    ASSUME TypeOK, NEW r \in Requests, Finish(r)
    PROVE  /\ pc' \in [Requests -> Steps]
           /\ held' \in [Requests -> issued \cup {NoSession}]
           /\ copy' \in [Requests -> Session]
           /\ answer' \in [Requests -> RoleLists]
           /\ pick' \in [Requests -> RoleIds \cup {NoRole}]
           /\ \A q \in Requests : held'[q] = NoSession <=> pc'[q] = "idle"
           /\ \A q \in Requests : pc'[q] = "role_apply" => pick'[q] # NoRole
BY BlankType, SessionsAssumption DEF TypeOK, Finish, Goto, Steps

LEMMA CreateType ==
    ASSUME TypeOK, NEW r \in Requests, NEW s \in SessionIds, NEW x \in Session,
           Create(r, s, x),
           machine' = machine \/ machine' = machine \cup {s}
    PROVE  TypeOK'
<1> USE SessionsAssumption DEF TypeOK, Create, Goto, Steps
<1>1. issued' \subseteq SessionIds /\ machine' \subseteq issued'
  OBVIOUS
<1>2. live' \subseteq issued' /\ stored' \in [SessionIds -> Session]
  OBVIOUS
<1>3. pc' \in [Requests -> Steps]
  OBVIOUS
<1>4. held' \in [Requests -> issued' \cup {NoSession}]
  OBVIOUS
<1>5. \A q \in Requests : held'[q] = NoSession <=> pc'[q] = "idle"
  OBVIOUS
<1>6. \A q \in Requests : pc'[q] = "role_apply" => pick'[q] # NoRole
  OBVIOUS
<1>7. QED
  BY <1>1, <1>2, <1>3, <1>4, <1>5, <1>6

LEMMA BearerType ==
    ASSUME TypeOK, NEW r \in Requests, NEW s \in SessionIds,
           NEW step \in {"respond", "terms_ask", "extend_read", "logout",
                         "role_check", "revoke_check"},
           Bearer(r, s, step)
    PROVE  TypeOK'
BY SessionsAssumption DEF TypeOK, Bearer, Fetch, UnchangedStore, Goto, Steps

(* The sessions, the requests and the store are well formed in every       *)
(* reachable state.                                                        *)
THEOREM TypeCorrect == Spec => []TypeOK
<1>1. Init => TypeOK
  BY BlankType, SessionsAssumption DEF Init, TypeOK, Steps
<1>2. TypeOK /\ [Next]_vars => TypeOK'
  <2> SUFFICES ASSUME TypeOK, [Next]_vars PROVE TypeOK'
    OBVIOUS
  <2>1. ASSUME NEW r \in Requests, NEW s \in SessionIds, Arrive(r, s)
        PROVE  TypeOK'
    <3>1. CASE PersonLogin(r, s)
      BY <3>1, LoginType, CreateType DEF PersonLogin
    <3>2. CASE ServiceLogin(r, s)
      BY <3>2, LoginType, CreateType DEF ServiceLogin
    <3>3. CASE AdminDeleteSession(r, s)
      BY <3>3, SessionsAssumption
         DEF AdminDeleteSession, TypeOK, UnchangedStore, Goto, Steps
    <3>4. QED
      BY <2>1, <3>1, <3>2, <3>3, BearerType
         DEF Arrive, GetSession, TermsAccept, ExtendSession, SignOut,
             SetSessionRole, DeleteUserSession
  <2>2. ASSUME NEW r \in Requests, Proceed(r) PROVE TypeOK'
    <3> USE DEF UnchangedStore, UnchangedLocals, Goto, Steps
    <3>1. pc[r] # "idle"
      BY <2>2 DEF Proceed, LoginAudit, LoginUndo, TermsAsk, TermsSettle,
                  TermsSave, RoleCheck, RoleApply, RoleSave, RoleAudit,
                  ExtendRead, ExtendSave, Respond, Logout, RevokeCheck, Revoke
    <3>2. held[r] \in issued /\ held[r] \in SessionIds
      BY <3>1 DEF TypeOK
    <3>3. CASE LoginAudit(r)
      BY <3>2, <3>3, FinishType DEF LoginAudit, TypeOK
    <3>4. CASE LoginUndo(r)
      BY <3>2, <3>4, FinishType, BlocksType DEF LoginUndo, TypeOK
    <3>5. CASE TermsAsk(r)
      <4>1. CASE Finish(r) /\ UNCHANGED stored
        BY <3>2, <3>5, <4>1, FinishType DEF TermsAsk, TypeOK
      <4>2. ASSUME NEW accepted \in TermsAnswers, NEW roles \in RoleLists,
                   Write(r, TakeAnswer(View(r), accepted, roles)),
                   answer' = [answer EXCEPT ![r] = roles],
                   Goto(r, IF accepted THEN "terms_settle" ELSE "terms_save"),
                   UNCHANGED <<held, pick>>
            PROVE  TypeOK'
        <5>1. TakeAnswer(View(r), accepted, roles) \in Session
          BY <3>2, BlocksType, ChangeType, SessionsAssumption
        <5>2. stored' \in [SessionIds -> Session] /\ copy' \in [Requests -> Session]
          BY <3>2, <4>2, <5>1, BlocksType
        <5>3. QED
          BY <3>1, <3>5, <4>2, <5>2, SessionsAssumption DEF TermsAsk, TypeOK
      <4>3. QED
        BY <3>5, <4>1, <4>2 DEF TermsAsk
    <3>6. CASE TermsSettle(r)
      <4>1. Settle(View(r), answer[r]) \in Session
        BY <3>2, BlocksType, ChangeType DEF TypeOK
      <4>2. stored' \in [SessionIds -> Session] /\ copy' \in [Requests -> Session]
        BY <3>2, <3>6, <4>1, BlocksType DEF TermsSettle
      <4>3. QED
        BY <3>1, <3>6, <4>2 DEF TermsSettle, TypeOK
    <3>7. CASE TermsSave(r)
      BY <3>2, <3>7, FinishType, BlocksType DEF TermsSave, TypeOK
    <3>8. CASE RoleCheck(r)
      <4>1. CASE Finish(r)
        BY <3>2, <3>8, <4>1, FinishType DEF RoleCheck, TypeOK
      <4>2. CASE ~Finish(r)
        <5>1. PICK k \in RoleIds : pick' = [pick EXCEPT ![r] = k]
          BY <3>8, <4>2 DEF RoleCheck
        <5>2. pc' = [pc EXCEPT ![r] = "role_apply"] /\ UNCHANGED <<held, copy, answer>>
          BY <3>8, <4>2 DEF RoleCheck
        <5>3. UNCHANGED <<issued, machine, live, stored, age>>
          BY <3>8 DEF RoleCheck
        <5>4. QED
          BY <3>1, <5>1, <5>2, <5>3, SessionsAssumption DEF TypeOK
      <4>3. QED
        BY <4>1, <4>2
    <3>9. CASE RoleApply(r)
      <4>1. pick[r] \in RoleIds
        BY <3>9 DEF RoleApply, TypeOK
      <4>2. SelectRole(View(r), pick[r]) \in Session
        BY <3>2, <4>1, BlocksType, ChangeType
      <4>3. stored' \in [SessionIds -> Session] /\ copy' \in [Requests -> Session]
        BY <3>2, <3>9, <4>2, BlocksType DEF RoleApply
      <4>4. QED
        BY <3>1, <3>9, <4>3 DEF RoleApply, TypeOK
    <3>10. CASE RoleSave(r)
      <4>1. CASE Put(r) /\ Goto(r, "role_audit") /\ UnchangedLocals /\ UNCHANGED copy
        BY <3>1, <3>2, <3>10, <4>1, BlocksType DEF RoleSave, TypeOK
      <4>2. CASE Finish(r) /\ UNCHANGED <<live, stored, age>>
        BY <3>2, <3>10, <4>2, FinishType DEF RoleSave, TypeOK
      <4>3. QED
        BY <3>10, <4>1, <4>2 DEF RoleSave
    <3>11. CASE RoleAudit(r)
      BY <3>1, <3>11, FinishType DEF RoleAudit, TypeOK
    <3>12. CASE ExtendRead(r)
      <4>1. CASE Finish(r) /\ UNCHANGED stored
        BY <3>2, <3>12, <4>1, FinishType DEF ExtendRead, TypeOK
      <4>2. CASE Write(r, Touch(stored[held[r]])) /\ Goto(r, "extend_save")
              /\ UnchangedLocals
        <5>1. Touch(stored[held[r]]) \in Session
          BY <3>2, ChangeType DEF TypeOK
        <5>2. stored' \in [SessionIds -> Session] /\ copy' \in [Requests -> Session]
          BY <3>2, <4>2, <5>1, BlocksType
        <5>3. QED
          BY <3>1, <3>12, <4>1, <5>2 DEF ExtendRead, TypeOK
      <4>3. QED
        BY <3>12, <4>1, <4>2 DEF ExtendRead
    <3>13. CASE ExtendSave(r)
      <4>1. CASE Put(r) /\ Goto(r, "respond") /\ UnchangedLocals /\ UNCHANGED copy
        BY <3>1, <3>2, <3>13, <4>1, BlocksType DEF ExtendSave, TypeOK
      <4>2. CASE Finish(r) /\ UNCHANGED <<live, stored, age>>
        BY <3>2, <3>13, <4>2, FinishType DEF ExtendSave, TypeOK
      <4>3. CASE /\ Goto(r, "respond") /\ UnchangedLocals /\ UNCHANGED copy
                 /\ UNCHANGED <<live, stored, age>>
        BY <3>1, <3>13, <4>3 DEF ExtendSave, TypeOK
      <4>4. QED
        BY <3>13, <4>1, <4>2, <4>3 DEF ExtendSave
    <3>14. CASE Respond(r)
      BY <3>1, <3>14, FinishType DEF Respond, TypeOK
    <3>15. CASE Logout(r)
      BY <3>2, <3>15, FinishType, BlocksType DEF Logout, TypeOK
    <3>16. CASE RevokeCheck(r)
      <4>1. CASE Finish(r)
        BY <3>2, <3>16, <4>1, FinishType DEF RevokeCheck, TypeOK
      <4>2. CASE ~Finish(r)
        <5>1. PICK s \in live : held' = [held EXCEPT ![r] = s]
          BY <3>16, <4>2 DEF RevokeCheck, SessionsLike
        <5>2. /\ pc' = [pc EXCEPT ![r] = "revoke"]
              /\ copy' = [copy EXCEPT ![r] = Blank]
              /\ UNCHANGED <<answer, pick>>
          BY <3>16, <4>2 DEF RevokeCheck
        <5>3. UNCHANGED <<issued, machine, live, stored, age>>
          BY <3>16 DEF RevokeCheck
        <5>4. QED
          BY <3>1, <5>1, <5>2, <5>3, BlankType, SessionsAssumption DEF TypeOK
      <4>3. QED
        BY <4>1, <4>2
    <3>17. CASE Revoke(r)
      BY <3>2, <3>17, FinishType, BlocksType DEF Revoke, TypeOK
    <3>18. QED
      BY <2>2, <3>3, <3>4, <3>5, <3>6, <3>7, <3>8, <3>9, <3>10, <3>11, <3>12,
         <3>13, <3>14, <3>15, <3>16, <3>17 DEF Proceed
  <2>3. CASE Tick
    <3>1. stored' \in [SessionIds -> Session]
      BY <2>3, ChangeType, BlankType DEF Tick, TypeOK
    <3>2. copy' \in [Requests -> Session]
      BY <2>3, ChangeType DEF Tick, TypeOK
    <3>3. age' \in [SessionIds -> 0 .. Timeout]
      BY <2>3, SessionsAssumption DEF Tick, TypeOK, Lapsing
    <3>4. QED
      BY <2>3, <3>1, <3>2, <3>3 DEF Tick, TypeOK
  <2>4. CASE DeleteExpiredSessions
    BY <2>4, BlankType DEF DeleteExpiredSessions, Drop, Expired, TypeOK
  <2>5. ASSUME NEW R \in SUBSET InFlight, Crash(R) PROVE TypeOK'
    <3> USE <2>5 DEF Crash, Reset, TypeOK
    <3>1. /\ pc' \in [Requests -> Steps]
          /\ copy' \in [Requests -> Session]
      BY BlankType DEF Steps
    <3>2. /\ held' \in [Requests -> issued' \cup {NoSession}]
          /\ answer' \in [Requests -> RoleLists]
          /\ pick' \in [Requests -> RoleIds \cup {NoRole}]
      BY SessionsAssumption
    <3>3. /\ \A r \in Requests : held'[r] = NoSession <=> pc'[r] = "idle"
          /\ \A r \in Requests : pc'[r] = "role_apply" => pick'[r] # NoRole
      OBVIOUS
    <3>4. QED
      BY <3>1, <3>2, <3>3
  <2>6. CASE UNCHANGED vars
    BY <2>6 DEF vars, TypeOK
  <2>7. QED
    BY <2>1, <2>2, <2>3, <2>4, <2>5, <2>6 DEF Next
<1>3. QED
  BY <1>1, <1>2, PTL DEF Spec

-----------------------------------------------------------------------------
(* A request that comes to hold a session it may save found it in the      *)
(* store: AuthorizeBearer does, and Extend looks once more.                *)
LEMMA SaversFetched ==
    ASSUME TypeOK, NEW r \in Requests, Proceed(r),
           NEW s \in issued \ live
    PROVE  Savers(s)' \subseteq Savers(s)
<1> USE DEF TypeOK
<1>1. ASSUME NEW q \in Requests, q # r
      PROVE  held'[q] = held[q] /\ pc'[q] = pc[q]
  BY <1>1 DEF Proceed, LoginAudit, LoginUndo, TermsAsk, TermsSettle, TermsSave,
       RoleCheck, RoleApply, RoleSave, RoleAudit, ExtendRead, ExtendSave,
       Respond, Logout, RevokeCheck, Revoke, Finish, Goto, UnchangedLocals
<1>2. ASSUME held'[r] = s, pc'[r] \in Saving
      PROVE  held[r] = s /\ pc[r] \in Saving
  <2>1. CASE LoginAudit(r) \/ LoginUndo(r) \/ TermsSave(r) \/ RoleAudit(r)
             \/ ExtendSave(r) \/ Respond(r) \/ Logout(r) \/ RevokeCheck(r)
             \/ Revoke(r)
    BY <1>2, <2>1 DEF LoginAudit, LoginUndo, TermsSave, RoleAudit, ExtendSave,
         Respond, Logout, RevokeCheck, Revoke, Finish, Goto, Saving
  <2>2. CASE TermsAsk(r) \/ TermsSettle(r)
    BY <1>2, <2>2 DEF TermsAsk, TermsSettle, Finish, Goto, UnchangedLocals, Saving
  <2>3. CASE RoleCheck(r) \/ RoleApply(r) \/ RoleSave(r)
    BY <1>2, <2>3 DEF RoleCheck, RoleApply, RoleSave, Finish, Goto,
         UnchangedLocals, Saving
  <2>4. CASE ExtendRead(r)
    BY <1>2, <2>4 DEF ExtendRead, Finish, Goto, UnchangedLocals, Saving
  <2>5. QED
    BY <2>1, <2>2, <2>3, <2>4 DEF Proceed
<1>3. QED
  BY <1>1, <1>2 DEF Savers

(* A session that is gone, and that no request has read, stays gone, and   *)
(* no request reads it any more: only the three saves of the handlers put  *)
(* a known session into the store.                                         *)
THEOREM RemovalIsFinal == Spec => GoneStaysGone
<1> DEFINE Final == \A s \in issued \ live :
                        /\ Savers(s) = {} => s \notin live'
                        /\ Savers(s)' \subseteq Savers(s)
<1>1. ASSUME TypeOK, [Next]_vars PROVE [Final]_vars
  <2>1. ASSUME NEW r \in Requests, NEW s \in SessionIds, Arrive(r, s)
        PROVE  Final
    <3>1. CASE PersonLogin(r, s) \/ ServiceLogin(r, s)
      BY <1>1, <3>1 DEF PersonLogin, ServiceLogin, Create, Goto, Savers,
           Saving, TypeOK
    <3>2. ASSUME NEW step, Bearer(r, s, step) PROVE Final
      BY <1>1, <3>2 DEF Bearer, Fetch, UnchangedStore, Goto, Savers, TypeOK
    <3>3. CASE AdminDeleteSession(r, s)
      BY <1>1, <3>3 DEF AdminDeleteSession, UnchangedStore, Goto, Savers,
           Saving, TypeOK
    <3> HIDE DEF Final
    <3>4. QED
      BY <2>1, <3>1, <3>2, <3>3 DEF Arrive, GetSession, TermsAccept,
           ExtendSession, SignOut, SetSessionRole, DeleteUserSession
  <2>2. ASSUME NEW r \in Requests, Proceed(r) PROVE Final
    <3> DEFINE Kept == \A s \in issued \ live : Savers(s) = {} => s \notin live'
    <3>1. Remove(r) => Kept
      BY DEF Remove, Drop
    <3>2. Put(r) /\ pc[r] \in Saving => Kept
      BY DEF Put, Savers
    <3>3. UNCHANGED live => Kept
      OBVIOUS
    <3> HIDE DEF Kept
    <3>4. ASSUME \/ LoginAudit(r) \/ TermsAsk(r) \/ TermsSettle(r)
                 \/ RoleCheck(r) \/ RoleApply(r) \/ RoleAudit(r)
                 \/ ExtendRead(r) \/ Respond(r) \/ RevokeCheck(r)
          PROVE  Kept
      BY <3>3, <3>4 DEF LoginAudit, TermsAsk, TermsSettle, RoleCheck,
            RoleApply, RoleAudit, ExtendRead, Respond, RevokeCheck,
            UnchangedStore
    <3>5. ASSUME LoginUndo(r) \/ Logout(r) \/ Revoke(r) PROVE Kept
      BY <3>1, <3>3, <3>5 DEF LoginUndo, Logout, Revoke
    <3>6. ASSUME TermsSave(r) \/ RoleSave(r) \/ ExtendSave(r) PROVE Kept
      BY <3>2, <3>3, <3>6 DEF TermsSave, RoleSave, ExtendSave, Saving
    <3>7. Kept
      BY <2>2, <3>4, <3>5, <3>6 DEF Proceed
    <3>8. QED
      BY <1>1, <2>2, <3>7, SaversFetched DEF Kept
  <2>3. CASE Tick
    BY <2>3 DEF Tick, Savers
  <2>4. CASE DeleteExpiredSessions
    BY <2>4 DEF DeleteExpiredSessions, Drop, Expired, Savers
  <2>5. ASSUME NEW R \in SUBSET InFlight, Crash(R) PROVE Final
    BY <2>5 DEF Crash, Reset, Savers, Saving
  <2>6. QED
    BY <1>1, <2>1, <2>2, <2>3, <2>4, <2>5 DEF Next
<1>2. QED
  BY <1>1, TypeCorrect, PTL DEF Spec, GoneStaysGone

-----------------------------------------------------------------------------
(* The terms come first because a copy made from an agreed session is      *)
(* agreed, every change a handler makes keeps it so, and a session being   *)
(* settled has its acceptance recorded already, where its handler looks.   *)
Agreed(x) == RequiresTOS /\ x.state # "req_agreement" => x.tos

AgreedEverywhere ==
    /\ \A s \in SessionIds \ machine : Agreed(stored[s])
    /\ \A r \in Requests : held[r] \notin machine => Agreed(copy[r])
    /\ \A r \in Requests : pc[r] = "terms_settle" => View(r).tos

LEMMA AgreedChanges ==
    /\ Agreed(Blank)
    /\ \A accepted \in BOOLEAN, roles \in RoleLists :
          Agreed(CreateSessionFromUserData(accepted, roles))
    /\ \A x \in Session, roles \in RoleLists :
          /\ Agreed(TakeAnswer(x, TRUE, roles))
          /\ TakeAnswer(x, TRUE, roles).tos
          /\ x.tos => Agreed(Settle(x, roles))
          /\ Settle(x, roles).tos = x.tos
    /\ \A x \in Session, k \in RoleIds :
          /\ Agreed(x) => Agreed(SelectRole(x, k))
          /\ SelectRole(x, k).tos = x.tos
    /\ \A x \in Session :
          /\ Agreed(x) => Agreed(Touch(x)) /\ Agreed(Older(x))
          /\ Touch(x).tos = x.tos
          /\ Older(x).tos = x.tos
<1>1. Agreed(Blank)
  BY DEF Agreed, Blank
<1>2. ASSUME NEW accepted \in BOOLEAN, NEW roles \in RoleLists
      PROVE  Agreed(CreateSessionFromUserData(accepted, roles))
  <2>1. RequiresTOS /\ ~accepted => StateAtLogin(accepted, roles) = "req_agreement"
    BY DEF StateAtLogin
  <2>2. QED
    BY <2>1 DEF CreateSessionFromUserData, Agreed
<1>3. ASSUME NEW x \in Session, NEW roles \in RoleLists
      PROVE  /\ Agreed(TakeAnswer(x, TRUE, roles))
             /\ TakeAnswer(x, TRUE, roles).tos
             /\ x.tos => Agreed(Settle(x, roles))
             /\ Settle(x, roles).tos = x.tos
  BY DEF Agreed, TakeAnswer, Settle
<1>4. ASSUME NEW x \in Session, NEW k \in RoleIds
      PROVE  /\ Agreed(x) => Agreed(SelectRole(x, k))
             /\ SelectRole(x, k).tos = x.tos
  BY DEF Agreed, SelectRole
<1>5. ASSUME NEW x \in Session
      PROVE  /\ Agreed(x) => Agreed(Touch(x)) /\ Agreed(Older(x))
             /\ Touch(x).tos = x.tos
             /\ Older(x).tos = x.tos
  BY DEF Agreed, Touch, Older, Session
<1>6. QED
  BY <1>1, <1>2, <1>3, <1>4, <1>5

LEMMA WriteAgreed ==
    ASSUME TypeOK, AgreedEverywhere, NEW r \in Requests, held[r] \in SessionIds,
           NEW x \in Session, Write(r, x),
           NEW step \in Steps, Goto(r, step), UNCHANGED <<machine, held>>,
           held[r] \notin machine => Agreed(x),
           View(r).tos => x.tos,
           step = "terms_settle" => x.tos
    PROVE  AgreedEverywhere'
<1> USE DEF TypeOK, AgreedEverywhere, Goto
<1>1. CASE SharesPointers
  <2>1. stored' = [stored EXCEPT ![held[r]] = x] /\ copy' = copy
    BY <1>1 DEF Write
  <2>3. \A s \in SessionIds \ machine' : Agreed(stored[s])'
    BY <2>1 DEF Agreed
  <2>4. \A q \in Requests : held'[q] \notin machine' => Agreed(copy[q])'
    BY <2>1 DEF Agreed
  <2>5. ASSUME NEW q \in Requests, pc'[q] = "terms_settle"
        PROVE  View(q)'.tos
    <3>1. View(q)' = stored'[held[q]]
      BY <1>1 DEF View
    <3>2. CASE held[q] = held[r]
      <4>1. View(q)' = x
        BY <2>1, <3>1, <3>2
      <4>2. CASE q = r
        BY <4>1, <4>2, <2>5
      <4>3. CASE q # r
        BY <4>1, <4>3, <2>5, <1>1, <3>2 DEF View
      <4>4. QED
        BY <4>2, <4>3
    <3>3. CASE held[q] # held[r]
      <4>1. q # r
        BY <3>3
      <4>2. View(q).tos
        BY <4>1, <2>5
      <4>3. View(q)' = View(q)
        BY <2>1, <3>1, <3>3, <1>1 DEF View
      <4>4. QED
        BY <4>2, <4>3
    <3>4. QED
      BY <3>2, <3>3
  <2>6. QED
    BY <2>3, <2>4, <2>5
<1>2. CASE ~SharesPointers
  <2>1. copy' = [copy EXCEPT ![r] = x] /\ stored' = stored
    BY <1>2 DEF Write
  <2>2. \A s \in SessionIds \ machine' : Agreed(stored[s])'
    BY <2>1 DEF Agreed
  <2>3. \A q \in Requests : held'[q] \notin machine' => Agreed(copy[q])'
    BY <2>1 DEF Agreed
  <2>4. \A q \in Requests : pc'[q] = "terms_settle" => View(q)'.tos
    BY <1>2, <2>1 DEF View
  <2>5. QED
    BY <2>2, <2>3, <2>4
<1>3. QED
  BY <1>1, <1>2

(* A request that ends, or a step that leaves the requests' views alone.   *)
LEMMA FinishAgreed ==
    ASSUME TypeOK, AgreedEverywhere, NEW r \in Requests, Finish(r),
           UNCHANGED machine,
           \A s \in SessionIds \ machine : Agreed(stored'[s]),
           SharesPointers => stored' = stored
    PROVE  AgreedEverywhere'
<1> USE DEF TypeOK, AgreedEverywhere, Finish, Goto
<1>1. \A s \in SessionIds \ machine' : Agreed(stored[s])'
  BY DEF Agreed
<1>2. \A q \in Requests : held'[q] \notin machine' => Agreed(copy[q])'
  BY AgreedChanges, SessionsAssumption DEF Agreed
<1>3. \A q \in Requests : pc'[q] = "terms_settle" => View(q)'.tos
  BY DEF View
<1>4. QED
  BY <1>1, <1>2, <1>3

LEMMA StepAgreed ==
    ASSUME TypeOK, AgreedEverywhere, NEW r \in Requests,
           NEW step \in Steps, Goto(r, step), step # "terms_settle",
           UNCHANGED <<machine, held, copy>>,
           \A s \in SessionIds \ machine : Agreed(stored'[s]),
           SharesPointers => stored' = stored
    PROVE  AgreedEverywhere'
<1> USE DEF TypeOK, AgreedEverywhere, Goto
<1>1. \A s \in SessionIds \ machine' : Agreed(stored[s])'
  BY DEF Agreed
<1>2. \A q \in Requests : held'[q] \notin machine' => Agreed(copy[q])'
  BY DEF Agreed
<1>3. \A q \in Requests : pc'[q] = "terms_settle" => View(q)'.tos
  BY DEF View
<1>4. QED
  BY <1>1, <1>2, <1>3

LEMMA StoreAgreed ==
    ASSUME TypeOK, AgreedEverywhere, NEW r \in Requests, held[r] \in SessionIds,
           Put(r) \/ Remove(r) \/ stored' = stored
    PROVE  /\ \A s \in SessionIds \ machine : Agreed(stored'[s])
           /\ SharesPointers => stored' = stored
<1> USE DEF TypeOK, AgreedEverywhere
<1>1. CASE Put(r)
  BY <1>1 DEF Put, View
<1>2. CASE Remove(r)
  BY <1>2, AgreedChanges DEF Remove, Drop
<1>3. QED
  BY <1>1, <1>2

(* Where the authorizer confirms an acceptance it is told of, nobody but a *)
(* service gets past the agreement without accepting the terms, whatever   *)
(* requests overlap and whichever back end loses whose update.             *)
THEOREM TermsFirst ==
    ASSUME TermsAnswers = {TRUE}
    PROVE  Spec => []AgreementFirst
<1>1. Init => AgreedEverywhere
  BY AgreedChanges DEF Init, AgreedEverywhere
<1>2. TypeOK /\ AgreedEverywhere /\ [Next]_vars => AgreedEverywhere'
  <2> SUFFICES ASSUME TypeOK, AgreedEverywhere, [Next]_vars
               PROVE  AgreedEverywhere'
    OBVIOUS
  <2>1. ASSUME NEW r \in Requests, NEW s \in SessionIds, Arrive(r, s)
        PROVE  AgreedEverywhere'
    <3>1. ASSUME NEW x, Create(r, s, x),
                 \/ Agreed(x) /\ machine' = machine
                 \/ machine' = machine \cup {s}
          PROVE  AgreedEverywhere'
      <4> USE <3>1 DEF TypeOK, AgreedEverywhere, Create, Goto
      <4>1. \A t \in SessionIds \ machine' : Agreed(stored[t])'
        BY DEF Agreed
      <4>2. \A q \in Requests : held'[q] \notin machine' => Agreed(copy[q])'
        <5>1. copy[r] = copy'[r] /\ held[r] = NoSession
          OBVIOUS
        <5>2. NoSession \notin machine
          BY SessionsAssumption
        <5>3. QED
          BY <5>1, <5>2 DEF Agreed
      <4>3. \A q \in Requests : pc'[q] = "terms_settle" => View(q)'.tos
        <5> SUFFICES ASSUME NEW q \in Requests, pc'[q] = "terms_settle"
                     PROVE  View(q)'.tos
          OBVIOUS
        <5>1. q # r /\ pc[q] = "terms_settle" /\ held'[q] = held[q]
          OBVIOUS
        <5>2. held[q] # s
          BY <5>1, SessionsAssumption
        <5>3. View(q)' = View(q)
          BY <5>1, <5>2 DEF View
        <5>4. QED
          BY <5>1, <5>3
      <4>4. QED
        BY <4>1, <4>2, <4>3
    <3>2. ASSUME NEW step \in {"respond", "terms_ask", "extend_read", "logout",
                                "role_check", "revoke_check"},
                 Bearer(r, s, step)
          PROVE  AgreedEverywhere'
      <4> USE <3>2 DEF TypeOK, AgreedEverywhere, Bearer, Fetch, Goto, UnchangedStore
      <4>1. \A t \in SessionIds \ machine' : Agreed(stored[t])'
        BY DEF Agreed
      <4>2. \A q \in Requests : held'[q] \notin machine' => Agreed(copy[q])'
        <5>1. CASE SharesPointers
          <6>1. held[r] = NoSession /\ NoSession \notin machine
            BY SessionsAssumption
          <6>2. QED
            BY <5>1, <6>1 DEF Agreed
        <5>2. CASE ~SharesPointers
          BY <5>2 DEF Agreed
        <5>3. QED
          BY <5>1, <5>2
      <4>3. \A q \in Requests : pc'[q] = "terms_settle" => View(q)'.tos
        BY DEF View
      <4>4. QED
        BY <4>1, <4>2, <4>3
    <3>3. CASE PersonLogin(r, s)
      <4>1. PICK accepted \in BOOLEAN, roles \in RoleLists :
                Create(r, s, CreateSessionFromUserData(accepted, roles))
        BY <3>3 DEF PersonLogin
      <4>2. Agreed(CreateSessionFromUserData(accepted, roles))
        BY AgreedChanges
      <4>3. QED
        BY <3>1, <3>3, <4>1, <4>2 DEF PersonLogin
    <3>4. CASE ServiceLogin(r, s)
      BY <3>1, <3>4 DEF ServiceLogin
    <3>5. CASE AdminDeleteSession(r, s)
      <4> USE <3>5 DEF TypeOK, AgreedEverywhere, AdminDeleteSession, Goto,
                       UnchangedStore
      <4>1. \A t \in SessionIds \ machine' : Agreed(stored[t])'
        BY DEF Agreed
      <4>2. \A q \in Requests : held'[q] \notin machine' => Agreed(copy[q])'
        <5>1. held[r] = NoSession /\ NoSession \notin machine
          BY SessionsAssumption
        <5>2. QED
          BY <5>1 DEF Agreed
      <4>3. \A q \in Requests : pc'[q] = "terms_settle" => View(q)'.tos
        BY DEF View
      <4>4. QED
        BY <4>1, <4>2, <4>3
    <3>6. QED
      BY <2>1, <3>2, <3>3, <3>4, <3>5
         DEF Arrive, GetSession, TermsAccept, ExtendSession, SignOut,
             SetSessionRole, DeleteUserSession
  <2>2. ASSUME NEW r \in Requests, Proceed(r) PROVE AgreedEverywhere'
    <3> USE DEF UnchangedStore, UnchangedLocals, Steps
    <3>1. pc[r] # "idle"
      BY <2>2 DEF Proceed, LoginAudit, LoginUndo, TermsAsk, TermsSettle,
                  TermsSave, RoleCheck, RoleApply, RoleSave, RoleAudit,
                  ExtendRead, ExtendSave, Respond, Logout, RevokeCheck, Revoke
    <3>2. held[r] \in SessionIds
      BY <3>1 DEF TypeOK
    <3>3. View(r) \in Session /\ stored[held[r]] \in Session
      BY <3>2, BlocksType DEF TypeOK
    <3>4. held[r] \notin machine => Agreed(View(r)) /\ Agreed(stored[held[r]])
      BY <3>2 DEF AgreedEverywhere, View
    <3>5. stored' = stored => \A s \in SessionIds \ machine : Agreed(stored'[s])
      BY DEF AgreedEverywhere
    <3>6. CASE LoginAudit(r) \/ RoleAudit(r) \/ Respond(r)
      BY <3>5, <3>6, FinishAgreed, StepAgreed DEF LoginAudit, RoleAudit, Respond
    <3>7. CASE LoginUndo(r) \/ Logout(r) \/ Revoke(r)
      BY <3>2, <3>7, FinishAgreed, StoreAgreed DEF LoginUndo, Logout, Revoke
    <3>8. CASE TermsAsk(r)
      <4>1. CASE Finish(r) /\ UNCHANGED stored
        BY <3>5, <3>8, <4>1, FinishAgreed DEF TermsAsk
      <4>2. ASSUME NEW roles \in RoleLists,
                   Write(r, TakeAnswer(View(r), TRUE, roles)),
                   Goto(r, "terms_settle"), UNCHANGED <<held, pick>>
            PROVE  AgreedEverywhere'
        <5>1. TakeAnswer(View(r), TRUE, roles) \in Session
          BY <3>3, ChangeType
        <5>2. /\ Agreed(TakeAnswer(View(r), TRUE, roles))
              /\ TakeAnswer(View(r), TRUE, roles).tos
          BY <3>3, AgreedChanges
        <5>3. UNCHANGED <<machine, held>>
          BY <3>8, <4>2 DEF TermsAsk
        <5>4. QED
          BY <3>2, <4>2, <5>1, <5>2, <5>3, WriteAgreed
      <4>3. QED
        BY <3>8, <4>1, <4>2 DEF TermsAsk
    <3>9. CASE TermsSettle(r)
      <4>1. View(r).tos /\ answer[r] \in RoleLists
        BY <3>9 DEF TermsSettle, AgreedEverywhere, TypeOK
      <4>2. Settle(View(r), answer[r]) \in Session
        BY <3>3, <4>1, ChangeType
      <4>3. Agreed(Settle(View(r), answer[r])) /\ Settle(View(r), answer[r]).tos
        BY <3>3, <4>1, AgreedChanges
      <4>4. /\ Write(r, Settle(View(r), answer[r]))
            /\ Goto(r, "terms_save")
            /\ UNCHANGED <<machine, held>>
        BY <3>9 DEF TermsSettle
      <4>5. QED
        BY <3>2, <4>2, <4>3, <4>4, WriteAgreed
    <3>10. CASE TermsSave(r)
      BY <3>2, <3>10, FinishAgreed, StoreAgreed DEF TermsSave
    <3>11. CASE RoleCheck(r)
      <4>1. CASE Finish(r)
        BY <3>5, <3>11, <4>1, FinishAgreed DEF RoleCheck
      <4>2. CASE ~Finish(r)
        BY <3>5, <3>11, <4>2, StepAgreed DEF RoleCheck
      <4>3. QED
        BY <4>1, <4>2
    <3>12. CASE RoleApply(r)
      <4>1. pick[r] \in RoleIds
        BY <3>12 DEF RoleApply, TypeOK
      <4>2. SelectRole(View(r), pick[r]) \in Session
        BY <3>3, <4>1, ChangeType
      <4>3. /\ Agreed(View(r)) => Agreed(SelectRole(View(r), pick[r]))
            /\ SelectRole(View(r), pick[r]).tos = View(r).tos
        BY <3>3, <4>1, AgreedChanges
      <4>4. /\ Write(r, SelectRole(View(r), pick[r]))
            /\ Goto(r, "role_save")
            /\ UNCHANGED <<machine, held>>
        BY <3>12 DEF RoleApply
      <4>5. QED
        BY <3>2, <3>4, <4>2, <4>3, <4>4, WriteAgreed
    <3>13. CASE RoleSave(r)
      BY <3>2, <3>13, FinishAgreed, StepAgreed, StoreAgreed DEF RoleSave
    <3>14. CASE ExtendRead(r)
      <4>1. CASE Finish(r) /\ UNCHANGED stored
        BY <3>5, <3>14, <4>1, FinishAgreed DEF ExtendRead
      <4>2. CASE Write(r, Touch(stored[held[r]])) /\ Goto(r, "extend_save")
              /\ UnchangedLocals
        <5>1. CASE SharesPointers
          BY <3>2, <3>3, <3>4, <3>14, <4>2, <5>1, AgreedChanges, ChangeType,
             WriteAgreed DEF ExtendRead, View
        <5>2. CASE ~SharesPointers
          <6>1. copy' = [copy EXCEPT ![r] = Touch(stored[held[r]])]
                /\ stored' = stored
            BY <4>2, <5>2 DEF Write
          <6>2. held[r] \notin machine => Agreed(Touch(stored[held[r]]))
            BY <3>3, <3>4, AgreedChanges
          <6>3. UNCHANGED <<machine, held>> /\ pc' = [pc EXCEPT ![r] = "extend_save"]
            BY <3>14, <4>2 DEF ExtendRead, Goto
          <6>4. \A q \in Requests : held'[q] \notin machine' => Agreed(copy[q])'
            BY <6>1, <6>2, <6>3 DEF AgreedEverywhere, Agreed, TypeOK
          <6>5. \A q \in Requests : pc'[q] = "terms_settle" => View(q)'.tos
            BY <5>2, <6>1, <6>3 DEF AgreedEverywhere, View, TypeOK
          <6>6. \A s \in SessionIds \ machine' : Agreed(stored[s])'
            BY <6>1, <6>3 DEF AgreedEverywhere, Agreed
          <6>7. QED
            BY <6>4, <6>5, <6>6 DEF AgreedEverywhere
        <5>3. QED
          BY <5>1, <5>2
      <4>3. QED
        BY <3>14, <4>1, <4>2 DEF ExtendRead
    <3>15. CASE ExtendSave(r)
      BY <3>2, <3>15, FinishAgreed, StepAgreed, StoreAgreed DEF ExtendSave
    <3>16. CASE RevokeCheck(r)
      <4>1. CASE Finish(r)
        BY <3>5, <3>16, <4>1, FinishAgreed DEF RevokeCheck
      <4>2. CASE ~Finish(r)
        <5>1. /\ pc' = [pc EXCEPT ![r] = "revoke"]
              /\ copy' = [copy EXCEPT ![r] = Blank]
              /\ \A q \in Requests \ {r} : held'[q] = held[q]
              /\ UNCHANGED <<machine, stored>>
          BY <3>16, <4>2 DEF RevokeCheck, Goto, TypeOK
        <5>2. \A q \in Requests : held'[q] \notin machine' => Agreed(copy[q])'
          BY <5>1, AgreedChanges DEF AgreedEverywhere, Agreed, TypeOK
        <5>3. \A q \in Requests : pc'[q] = "terms_settle" => View(q)'.tos
          BY <5>1 DEF AgreedEverywhere, View, TypeOK
        <5>4. QED
          BY <5>1, <5>2, <5>3 DEF AgreedEverywhere, Agreed
      <4>3. QED
        BY <4>1, <4>2
    <3>17. QED
      BY <2>2, <3>6, <3>7, <3>8, <3>9, <3>10, <3>11, <3>12, <3>13, <3>14,
         <3>15, <3>16 DEF Proceed
  <2>3. CASE Tick
    <3> USE <2>3 DEF Tick, TypeOK, AgreedEverywhere
    <3>1. \A s \in SessionIds \ machine' : Agreed(stored[s])'
      BY AgreedChanges DEF Agreed
    <3>2. \A q \in Requests : held'[q] \notin machine' => Agreed(copy[q])'
      BY AgreedChanges DEF Agreed
    <3>3. ASSUME NEW q \in Requests, pc'[q] = "terms_settle"
          PROVE  View(q)'.tos
      <4>1. pc[q] = "terms_settle" /\ View(q).tos
        BY <3>3
      <4>2. held[q] \in issued
        BY <4>1
      <4>3. View(q)' = Older(View(q)) /\ View(q) \in Session
        BY <4>2, SessionsAssumption DEF View
      <4>4. QED
        BY <4>1, <4>3, AgreedChanges
    <3>4. QED
      BY <3>1, <3>2, <3>3
  <2>4. CASE DeleteExpiredSessions
    <3> USE <2>4 DEF DeleteExpiredSessions, Drop, TypeOK, AgreedEverywhere
    <3>1. \A s \in SessionIds \ machine' : Agreed(stored[s])'
      BY AgreedChanges DEF Agreed
    <3>2. \A q \in Requests : pc'[q] = "terms_settle" => View(q)'.tos
      BY SessionsAssumption DEF View, SharesPointers, IsCache
    <3>3. QED
      BY <3>1, <3>2 DEF Agreed
  <2>5. ASSUME NEW R \in SUBSET InFlight, Crash(R) PROVE AgreedEverywhere'
    <3> USE <2>5 DEF Crash, Reset, TypeOK, AgreedEverywhere
    <3>1. \A s \in SessionIds \ machine' : Agreed(stored[s])'
      BY DEF Agreed
    <3>2. \A q \in Requests : held'[q] \notin machine' => Agreed(copy[q])'
      BY AgreedChanges DEF Agreed
    <3>3. \A q \in Requests : pc'[q] = "terms_settle" => View(q)'.tos
      BY DEF View
    <3>4. QED
      BY <3>1, <3>2, <3>3
  <2>6. CASE UNCHANGED vars
    BY <2>6 DEF vars, AgreedEverywhere, Agreed, View
  <2>7. QED
    BY <2>1, <2>2, <2>3, <2>4, <2>5, <2>6 DEF Next
<1>3. TypeOK /\ AgreedEverywhere => AgreementFirst
  BY DEF AgreedEverywhere, AgreementFirst, Agreed, TypeOK
<1>4. QED
  BY <1>1, <1>2, <1>3, TypeCorrect, PTL DEF Spec
=============================================================================
