------------------------ MODULE SessionUpdatesProofs ------------------------
(***************************************************************************)
(* What the overlapping updates of a session cannot do to it, for any      *)
(* number of sessions, requests and roles.                                 *)
(***************************************************************************)
EXTENDS SessionsProofs

(***************************************************************************)
(* A session a copying store holds is consistent in its role because       *)
(* every handler makes its copy consistent again before it saves it. Only  *)
(* between the two assignments of termsAccept may the copy hold a role its *)
(* new list does not grant, and the second assignment looks at that list;  *)
(* a role to be applied was found in the list of the same copy.            *)
(***************************************************************************)
Consistent(x) == x.role # NoRole => x.roles[x.role] = "granted"

WorksConsistently(r) ==
    /\ pc[r] # "terms_settle" => Consistent(copy[r])
    /\ pc[r] = "terms_settle" => copy[r].roles = answer[r]
    /\ pc[r] = "role_apply" => copy[r].roles[pick[r]] = "granted"

ConsistentEverywhere ==
    /\ \A s \in SessionIds : Consistent(stored[s])
    /\ \A r \in Requests : WorksConsistently(r)

LEMMA ConsistentChanges ==
    /\ Consistent(Blank)
    /\ \A accepted \in BOOLEAN, roles \in RoleLists :
          /\ Consistent(CreateSessionFromUserData(accepted, roles))
          /\ Consistent(ServiceSession(accepted, roles))
    /\ \A x \in Session, accepted \in BOOLEAN, roles \in RoleLists :
          /\ TakeAnswer(x, accepted, roles).roles = roles
          /\ x.roles = roles => Consistent(Settle(x, roles))
    /\ \A x \in Session, k \in RoleIds :
          x.roles[k] = "granted" => Consistent(SelectRole(x, k))
    /\ \A x \in Session :
          /\ Consistent(x) => Consistent(Touch(x)) /\ Consistent(Older(x))
          /\ Older(x).roles = x.roles
<1>1. Consistent(Blank)
  BY DEF Consistent, Blank
<1>2. ASSUME NEW accepted \in BOOLEAN, NEW roles \in RoleLists
      PROVE  /\ Consistent(CreateSessionFromUserData(accepted, roles))
             /\ Consistent(ServiceSession(accepted, roles))
  <2>1. Consistent(CreateSessionFromUserData(accepted, roles))
    BY RoleIfSoleType DEF Consistent, CreateSessionFromUserData
  <2>2. \A k \in SoleGranted(roles) : roles[k] = "granted"
    BY DEF SoleGranted
  <2>3. SoleGranted(roles) # {} =>
            (CHOOSE k \in SoleGranted(roles) : TRUE) \in SoleGranted(roles)
    OBVIOUS
  <2>4. Consistent(ServiceSession(accepted, roles))
    BY <2>2, <2>3 DEF Consistent, ServiceSession
  <2>5. QED
    BY <2>1, <2>4
<1>3. ASSUME NEW x \in Session, NEW accepted \in BOOLEAN, NEW roles \in RoleLists
      PROVE  /\ TakeAnswer(x, accepted, roles).roles = roles
             /\ x.roles = roles => Consistent(Settle(x, roles))
  BY RoleIfSoleType DEF Consistent, TakeAnswer, Settle
<1>4. ASSUME NEW x \in Session, NEW k \in RoleIds
      PROVE  x.roles[k] = "granted" => Consistent(SelectRole(x, k))
  BY DEF Consistent, SelectRole
<1>5. ASSUME NEW x \in Session
      PROVE  /\ Consistent(x) => Consistent(Touch(x)) /\ Consistent(Older(x))
             /\ Older(x).roles = x.roles
  BY DEF Consistent, Touch, Older, Session
<1>6. QED
  BY <1>1, <1>2, <1>3, <1>4, <1>5

(* A step of one request leaves the others' copies as they were.           *)
LEMMA OneRequestConsistent ==
    ASSUME TypeOK, ConsistentEverywhere, NEW r \in Requests,
           \A q \in Requests \ {r} :
              /\ pc'[q] = pc[q] /\ copy'[q] = copy[q]
              /\ answer'[q] = answer[q] /\ pick'[q] = pick[q],
           \A s \in SessionIds : Consistent(stored'[s]),
           WorksConsistently(r)'
    PROVE  ConsistentEverywhere'
<1>1. ASSUME NEW q \in Requests \ {r} PROVE WorksConsistently(q)'
  BY <1>1 DEF ConsistentEverywhere, WorksConsistently, Consistent
<1>2. \A s \in SessionIds : Consistent(stored[s])'
  BY DEF Consistent
<1>3. QED
  BY <1>1, <1>2 DEF ConsistentEverywhere

LEMMA FinishConsistent ==
    ASSUME TypeOK, ConsistentEverywhere, NEW r \in Requests, Finish(r),
           \A s \in SessionIds : Consistent(stored'[s])
    PROVE  ConsistentEverywhere'
<1> USE DEF TypeOK, Finish, Goto
<1>1. pc'[r] = "idle" /\ copy'[r] = Blank
  OBVIOUS
<1>2. WorksConsistently(r)'
  BY <1>1, ConsistentChanges DEF WorksConsistently, Consistent
<1>3. QED
  BY <1>2, OneRequestConsistent

(* A request goes on without touching its copy.                            *)
LEMMA StepConsistent ==
    ASSUME TypeOK, ConsistentEverywhere, NEW r \in Requests,
           NEW step \in Steps, Goto(r, step),
           pc[r] # "terms_settle", step \notin {"terms_settle", "role_apply"},
           UNCHANGED <<copy, answer, pick>>,
           \A s \in SessionIds : Consistent(stored'[s])
    PROVE  ConsistentEverywhere'
<1> USE DEF TypeOK, Goto
<1>1. pc'[r] = step /\ copy'[r] = copy[r]
  OBVIOUS
<1>2. WorksConsistently(r)'
  BY <1>1 DEF ConsistentEverywhere, WorksConsistently, Consistent
<1>3. QED
  BY <1>2, OneRequestConsistent

(* A request assigns to its copy a session consistent in itself.           *)
LEMMA WriteConsistent ==
    ASSUME TypeOK, ConsistentEverywhere, ~SharesPointers,
           NEW r \in Requests, NEW x, Write(r, x), Consistent(x),
           NEW step \in Steps, Goto(r, step),
           step \notin {"terms_settle", "role_apply"},
           UNCHANGED <<answer, pick>>
    PROVE  ConsistentEverywhere'
<1> USE DEF TypeOK, Goto, Write
<1>1. pc'[r] = step /\ copy'[r] = x /\ stored' = stored
  OBVIOUS
<1>2. WorksConsistently(r)'
  BY <1>1 DEF WorksConsistently, Consistent
<1>3. QED
  BY <1>1, <1>2, OneRequestConsistent DEF ConsistentEverywhere

(* What a request saves, or deletes, leaves the store consistent.          *)
LEMMA StoreConsistent ==
    ASSUME TypeOK, ConsistentEverywhere, ~SharesPointers,
           NEW r \in Requests, pc[r] # "terms_settle", held[r] \in SessionIds,
           Put(r) \/ Remove(r) \/ stored' = stored
    PROVE  \A s \in SessionIds : Consistent(stored'[s])
<1> USE DEF TypeOK, ConsistentEverywhere, WorksConsistently
<1>1. CASE Put(r)
  BY <1>1 DEF Put, View
<1>2. CASE Remove(r)
  BY <1>2, ConsistentChanges DEF Remove, Drop
<1>3. QED
  BY <1>1, <1>2

LEMMA ArriveConsistent ==
    ASSUME TypeOK, ConsistentEverywhere, ~SharesPointers,
           NEW r \in Requests, NEW s \in SessionIds, Arrive(r, s)
    PROVE  ConsistentEverywhere'
<1>1. ASSUME NEW x, Create(r, s, x), Consistent(x) PROVE ConsistentEverywhere'
  <2>1. \A t \in SessionIds : Consistent(stored'[t])
    BY <1>1 DEF Create, TypeOK, ConsistentEverywhere
  <2>2. CASE Goto(r, "login_audit")
    BY <1>1, <2>1, <2>2, StepConsistent DEF Create, Steps
  <2>3. CASE Goto(r, "login_undo")
    BY <1>1, <2>1, <2>3, StepConsistent DEF Create, Steps
  <2>4. QED
    BY <1>1, <2>2, <2>3 DEF Create
<1>2. ASSUME NEW step \in Steps \ {"terms_settle", "role_apply"}, Bearer(r, s, step)
      PROVE  ConsistentEverywhere'
  <2> USE <1>2 DEF TypeOK, Bearer, Fetch, Goto, UnchangedStore
  <2>1. pc'[r] = step /\ copy'[r] = stored[s]
    OBVIOUS
  <2>2. WorksConsistently(r)'
    BY <2>1 DEF WorksConsistently, Consistent, ConsistentEverywhere
  <2>3. QED
    BY <2>2, OneRequestConsistent DEF ConsistentEverywhere
<1>3. CASE AdminDeleteSession(r, s)
  BY <1>3, StepConsistent DEF AdminDeleteSession, UnchangedStore, Steps,
     ConsistentEverywhere
<1>4. CASE PersonLogin(r, s) \/ ServiceLogin(r, s)
  BY <1>1, <1>4, ConsistentChanges DEF PersonLogin, ServiceLogin
<1>5. QED
  BY <1>2, <1>3, <1>4 DEF Arrive, GetSession, TermsAccept, ExtendSession,
     SignOut, SetSessionRole, DeleteUserSession, Steps

LEMMA ProceedConsistent ==
    ASSUME TermsAnswers = {TRUE}, TypeOK, ConsistentEverywhere, ~SharesPointers,
           NEW r \in Requests, Proceed(r)
    PROVE  ConsistentEverywhere'
<1> USE DEF UnchangedStore, UnchangedLocals, Steps
<1>1. pc[r] # "idle"
  BY DEF Proceed, LoginAudit, LoginUndo, TermsAsk, TermsSettle, TermsSave,
         RoleCheck, RoleApply, RoleSave, RoleAudit, ExtendRead, ExtendSave,
         Respond, Logout, RevokeCheck, Revoke
<1>2. held[r] \in SessionIds
  BY <1>1 DEF TypeOK
<1>3. copy[r] \in Session /\ View(r) = copy[r]
  BY DEF TypeOK, View
<1>4. stored' = stored => \A s \in SessionIds : Consistent(stored'[s])
  BY DEF ConsistentEverywhere
<1>5. CASE LoginAudit(r) \/ RoleAudit(r) \/ Respond(r)
  BY <1>4, <1>5, FinishConsistent, StepConsistent DEF LoginAudit, RoleAudit, Respond
<1>6. CASE LoginUndo(r) \/ Logout(r) \/ Revoke(r)
  BY <1>2, <1>6, FinishConsistent, StoreConsistent DEF LoginUndo, Logout, Revoke
<1>7. CASE TermsAsk(r)
  <2>1. CASE Finish(r) /\ UNCHANGED stored
    BY <1>4, <2>1, FinishConsistent
  <2>2. ASSUME NEW roles \in RoleLists,
               Write(r, TakeAnswer(View(r), TRUE, roles)),
               answer' = [answer EXCEPT ![r] = roles],
               Goto(r, "terms_settle"), UNCHANGED <<held, pick>>
        PROVE  ConsistentEverywhere'
    <3>1. /\ copy' = [copy EXCEPT ![r] = TakeAnswer(View(r), TRUE, roles)]
          /\ stored' = stored
      BY <2>2 DEF Write
    <3>2. pc'[r] = "terms_settle" /\ copy'[r].roles = roles /\ answer'[r] = roles
      BY <1>3, <2>2, <3>1, ConsistentChanges DEF TypeOK, Goto
    <3>3. WorksConsistently(r)'
      BY <3>2 DEF WorksConsistently
    <3>4. QED
      BY <1>4, <2>2, <3>1, <3>3, OneRequestConsistent DEF TypeOK, Goto
  <2>3. QED
    BY <1>7, <2>1, <2>2 DEF TermsAsk
<1>8. CASE TermsSettle(r)
  <2>1. copy[r].roles = answer[r] /\ answer[r] \in RoleLists
    BY <1>8 DEF TermsSettle, TypeOK, ConsistentEverywhere, WorksConsistently
  <2>2. Consistent(Settle(View(r), answer[r]))
    BY <1>3, <2>1, ConsistentChanges
  <2>3. QED
    BY <1>8, <2>2, WriteConsistent DEF TermsSettle
<1>9. CASE TermsSave(r)
  BY <1>2, <1>9, FinishConsistent, StoreConsistent DEF TermsSave
<1>10. CASE RoleCheck(r)
  <2>1. CASE Finish(r)
    BY <1>4, <1>10, <2>1, FinishConsistent DEF RoleCheck
  <2>2. CASE ~Finish(r)
    <3>1. PICK k \in RoleIds :
              View(r).roles[k] = "granted" /\ pick' = [pick EXCEPT ![r] = k]
      BY <1>10, <2>2 DEF RoleCheck
    <3>2. /\ pc' = [pc EXCEPT ![r] = "role_apply"]
          /\ UNCHANGED <<held, copy, answer, stored>>
          /\ pc[r] = "role_check"
      BY <1>10, <2>2 DEF RoleCheck, Goto
    <3>3. WorksConsistently(r)'
      BY <1>3, <3>1, <3>2 DEF TypeOK, ConsistentEverywhere, WorksConsistently,
         Consistent
    <3>4. QED
      BY <1>4, <3>1, <3>2, <3>3, OneRequestConsistent DEF TypeOK
  <2>3. QED
    BY <2>1, <2>2
<1>11. CASE RoleApply(r)
  <2>1. pick[r] \in RoleIds /\ copy[r].roles[pick[r]] = "granted"
    BY <1>11 DEF RoleApply, TypeOK, ConsistentEverywhere, WorksConsistently
  <2>2. Consistent(SelectRole(View(r), pick[r]))
    BY <1>3, <2>1, ConsistentChanges
  <2>3. QED
    BY <1>11, <2>2, WriteConsistent DEF RoleApply
<1>12. CASE RoleSave(r)
  BY <1>2, <1>12, FinishConsistent, StepConsistent, StoreConsistent DEF RoleSave
<1>13. CASE ExtendRead(r)
  <2>1. CASE Finish(r) /\ UNCHANGED stored
    BY <1>4, <2>1, FinishConsistent
  <2>2. CASE Write(r, Touch(stored[held[r]])) /\ Goto(r, "extend_save")
          /\ UnchangedLocals
    <3>1. Consistent(Touch(stored[held[r]]))
      BY <1>2, ConsistentChanges DEF TypeOK, ConsistentEverywhere
    <3>2. QED
      BY <2>2, <3>1, WriteConsistent
  <2>3. QED
    BY <1>13, <2>1, <2>2 DEF ExtendRead
<1>14. CASE ExtendSave(r)
  BY <1>2, <1>14, FinishConsistent, StepConsistent, StoreConsistent DEF ExtendSave
<1>15. CASE RevokeCheck(r)
  <2>1. CASE Finish(r)
    BY <1>4, <1>15, <2>1, FinishConsistent DEF RevokeCheck
  <2>2. CASE ~Finish(r)
    <3>1. /\ pc' = [pc EXCEPT ![r] = "revoke"]
          /\ copy' = [copy EXCEPT ![r] = Blank]
          /\ UNCHANGED <<answer, pick, stored>>
      BY <1>15, <2>2 DEF RevokeCheck, Goto
    <3>2. WorksConsistently(r)'
      BY <3>1, ConsistentChanges DEF TypeOK, WorksConsistently, Consistent
    <3>3. QED
      BY <1>4, <3>1, <3>2, OneRequestConsistent DEF TypeOK
  <2>3. QED
    BY <2>1, <2>2
<1>16. QED
  BY <1>5, <1>6, <1>7, <1>8, <1>9, <1>10, <1>11, <1>12, <1>13, <1>14, <1>15
     DEF Proceed

(* Where the authorizer confirms an acceptance it is told of, a store that *)
(* copies sessions never holds one whose role is missing or blocked in its *)
(* list, whichever of setSessionRole, termsAccept and keep-alive loses its *)
(* update to another.                                                      *)
THEOREM RolesStayGranted ==
    ASSUME TermsAnswers = {TRUE}
    PROVE  Spec => []RoleGranted
<1>1. CASE SharesPointers
  <2>1. RoleGranted
    BY <1>1 DEF RoleGranted
  <2>2. QED
    BY <2>1, PTL
<1>2. CASE ~SharesPointers
  <2>1. Init => ConsistentEverywhere
    BY ConsistentChanges
       DEF Init, ConsistentEverywhere, WorksConsistently, Consistent
  <2>2. TypeOK /\ ConsistentEverywhere /\ [Next]_vars => ConsistentEverywhere'
    <3> SUFFICES ASSUME TypeOK, ConsistentEverywhere, [Next]_vars
                 PROVE  ConsistentEverywhere'
      OBVIOUS
    <3>1. CASE Tick
      <4> USE <3>1 DEF Tick, TypeOK, ConsistentEverywhere
      <4>1. \A s \in SessionIds : Consistent(stored[s])'
        BY ConsistentChanges DEF Consistent
      <4>2. ASSUME NEW q \in Requests PROVE WorksConsistently(q)'
        <5>1. copy'[q] = copy[q] \/ copy'[q] = Older(copy[q])
          OBVIOUS
        <5>2. /\ Consistent(copy[q]) => Consistent(copy'[q])
              /\ copy'[q].roles = copy[q].roles
          BY <5>1, ConsistentChanges
        <5>3. QED
          BY <5>2 DEF WorksConsistently, Consistent
      <4>3. QED
        BY <4>1, <4>2
    <3>2. CASE DeleteExpiredSessions
      <4> USE <3>2 DEF DeleteExpiredSessions, Drop, TypeOK, ConsistentEverywhere
      <4>1. \A s \in SessionIds : Consistent(stored[s])'
        BY ConsistentChanges DEF Consistent
      <4>2. \A q \in Requests : WorksConsistently(q)'
        BY DEF WorksConsistently, Consistent
      <4>3. QED
        BY <4>1, <4>2
    <3>3. ASSUME NEW R \in SUBSET InFlight, Crash(R) PROVE ConsistentEverywhere'
      <4> USE <3>3 DEF Crash, Reset, TypeOK, ConsistentEverywhere
      <4>1. \A s \in SessionIds : Consistent(stored[s])'
        BY DEF Consistent
      <4>2. \A q \in Requests : WorksConsistently(q)'
        BY ConsistentChanges DEF WorksConsistently, Consistent
      <4>3. QED
        BY <4>1, <4>2
    <3>4. CASE UNCHANGED vars
      BY <3>4 DEF vars, ConsistentEverywhere, WorksConsistently, Consistent
    <3>5. QED
      BY <1>2, <3>1, <3>2, <3>3, <3>4, ArriveConsistent, ProceedConsistent DEF Next
  <2>3. TypeOK /\ ConsistentEverywhere => RoleGranted
    BY DEF TypeOK, ConsistentEverywhere, Consistent, RoleGranted
  <2>4. QED
    BY <2>1, <2>2, <2>3, TypeCorrect, PTL DEF Spec
<1>3. QED
  BY <1>1, <1>2

-----------------------------------------------------------------------------
(* What becomes, in one step, of a session whose user has accepted.        *)
Remains(s) ==
    /\ Unaware(s) = {} /\ s \in live' => stored'[s].tos
    /\ Unaware(s)' \subseteq Unaware(s)

(* Over one object per session nobody is unaware of what it holds.         *)
LEMMA SharedRemains ==
    ASSUME SharesPointers, NEW s \in live, stored'[s].tos
    PROVE  Remains(s)
BY DEF Remains, Unaware, View

(* Over copies a step of request r keeps the acceptance if r saves no      *)
(* unaccepted copy, and gets none that it did not have.                    *)
LEMMA CopiesRemain ==
    ASSUME ~SharesPointers, NEW r \in Requests, NEW s \in live, stored[s].tos,
           \A q \in Requests \ {r} :
              pc'[q] = pc[q] /\ held'[q] = held[q] /\ copy'[q] = copy[q],
           \/ s \notin live' \/ stored'[s] = stored[s]
           \/ pc[r] \in Saving /\ held[r] = s /\ stored'[s] = copy[r],
           pc'[r] \in Saving /\ held'[r] = s /\ ~copy'[r].tos
              => pc[r] \in Saving /\ held[r] = s /\ ~copy[r].tos
    PROVE  Remains(s)
BY DEF Remains, Unaware, View

(* A request that arrives reads the acceptance.                            *)
LEMMA ArriveRemains ==
    ASSUME TypeOK, NEW r \in Requests, NEW t \in SessionIds, Arrive(r, t),
           NEW s \in live, stored[s].tos
    PROVE  Remains(s)
<1>1. CASE SharesPointers
  <2>1. stored'[s] = stored[s]
    BY DEF Arrive, PersonLogin, ServiceLogin, Create, GetSession, TermsAccept,
           ExtendSession, SignOut, SetSessionRole, DeleteUserSession,
           AdminDeleteSession, Bearer, UnchangedStore, TypeOK
  <2> QED
    BY <1>1, <2>1, SharedRemains
<1>2. CASE ~SharesPointers
  <2>1. ASSUME NEW x, Create(r, t, x) PROVE Remains(s)
    <3>1. /\ \A q \in Requests \ {r} :
                pc'[q] = pc[q] /\ held'[q] = held[q] /\ copy'[q] = copy[q]
          /\ stored'[s] = stored[s] /\ pc'[r] \notin Saving
      BY <2>1 DEF Create, Goto, TypeOK, Saving
    <3> QED
      BY <1>2, <3>1, CopiesRemain
  <2>2. ASSUME NEW step, Bearer(r, t, step) PROVE Remains(s)
    <3>1. /\ \A q \in Requests \ {r} :
                pc'[q] = pc[q] /\ held'[q] = held[q] /\ copy'[q] = copy[q]
          /\ stored'[s] = stored[s] /\ held'[r] = t /\ copy'[r] = stored[t]
      BY <1>2, <2>2 DEF Bearer, Fetch, Goto, UnchangedStore, TypeOK
    <3> QED
      BY <1>2, <3>1, CopiesRemain
  <2>3. CASE AdminDeleteSession(r, t)
    <3>1. /\ \A q \in Requests \ {r} :
                pc'[q] = pc[q] /\ held'[q] = held[q] /\ copy'[q] = copy[q]
          /\ stored'[s] = stored[s] /\ pc'[r] \notin Saving
      BY <2>3 DEF AdminDeleteSession, Goto, UnchangedStore, TypeOK, Saving
    <3> QED
      BY <1>2, <3>1, CopiesRemain
  <2> QED
    BY <2>1, <2>2, <2>3 DEF Arrive, PersonLogin, ServiceLogin, GetSession,
       TermsAccept, ExtendSession, SignOut, SetSessionRole, DeleteUserSession
<1> QED
  BY <1>1, <1>2

(* No assignment but that of a denied termsAccept takes an acceptance back.*)
LEMMA ProceedKeeps ==
    ASSUME TypeOK, SharesPointers, NEW r \in Requests, Proceed(r),
           NEW s \in live, stored[s].tos, ~(held[r] = s /\ Denied(r))
    PROVE  stored'[s].tos
<1> USE DEF TypeOK
<1>1. /\ held[r] \in SessionIds /\ View(r) = stored[held[r]]
      /\ stored[held[r]] \in Session
  BY DEF View, Proceed, LoginAudit, LoginUndo, TermsAsk, TermsSettle, TermsSave,
         RoleCheck, RoleApply, RoleSave, RoleAudit, ExtendRead, ExtendSave,
         Respond, Logout, RevokeCheck, Revoke
<1>2. ASSUME Put(r) \/ Remove(r) \/ UNCHANGED stored PROVE stored'[s].tos
  BY <1>1, <1>2 DEF Put, Remove, Drop
<1>3. ASSUME NEW x, Write(r, x), held[r] = s => x.tos PROVE stored'[s].tos
  BY <1>1, <1>3 DEF Write
<1>4. CASE \/ LoginAudit(r) \/ RoleCheck(r) \/ RoleAudit(r) \/ Respond(r)
           \/ RevokeCheck(r) \/ LoginUndo(r) \/ TermsSave(r) \/ RoleSave(r)
           \/ ExtendSave(r) \/ Logout(r) \/ Revoke(r)
  BY <1>2, <1>4 DEF LoginAudit, RoleCheck, RoleAudit, Respond, RevokeCheck,
     LoginUndo, TermsSave, RoleSave, ExtendSave, Logout, Revoke, UnchangedStore
<1>5. CASE TermsAsk(r)
  <2>1. CASE UNCHANGED stored
    BY <1>2, <2>1
  <2>2. ASSUME NEW accepted \in TermsAnswers, NEW roles \in RoleLists,
               Write(r, TakeAnswer(View(r), accepted, roles)),
               Goto(r, IF accepted THEN "terms_settle" ELSE "terms_save")
        PROVE  stored'[s].tos
    <3>1. held[r] = s => accepted
      BY <1>5, <2>2 DEF Denied, Goto, TermsAsk
    <3> QED
      BY <1>3, <2>2, <3>1 DEF TakeAnswer
  <2> QED
    BY <1>5, <2>1, <2>2 DEF TermsAsk
<1>6. CASE TermsSettle(r)
  BY <1>1, <1>3, <1>6 DEF TermsSettle, Settle
<1>7. CASE RoleApply(r)
  BY <1>1, <1>3, <1>7 DEF RoleApply, SelectRole
<1>8. CASE ExtendRead(r)
  <2>1. Touch(stored[held[r]]).tos = stored[held[r]].tos
    BY <1>1, AgreedChanges
  <2> QED
    BY <1>2, <1>3, <1>8, <2>1 DEF ExtendRead
<1> QED
  BY <1>4, <1>5, <1>6, <1>7, <1>8 DEF Proceed

LEMMA ProceedRemains ==
    ASSUME TypeOK, NEW r \in Requests, Proceed(r),
           NEW s \in live, stored[s].tos, ~(held[r] = s /\ Denied(r))
    PROVE  Remains(s)
<1> USE DEF TypeOK
<1>1. CASE SharesPointers
  BY <1>1, ProceedKeeps, SharedRemains
<1>2. CASE ~SharesPointers
  <2>1. /\ held[r] \in SessionIds /\ View(r) = copy[r] /\ copy[r] \in Session
        /\ stored[s] \in Session
    BY <1>2 DEF View, Proceed, LoginAudit, LoginUndo, TermsAsk, TermsSettle,
           TermsSave, RoleCheck, RoleApply, RoleSave, RoleAudit, ExtendRead,
           ExtendSave, Respond, Logout, RevokeCheck, Revoke
  <2> DEFINE Others == \A q \in Requests \ {r} :
                pc'[q] = pc[q] /\ held'[q] = held[q] /\ copy'[q] = copy[q]
  <2>2. CASE LoginAudit(r) \/ RoleAudit(r) \/ Respond(r) \/ RevokeCheck(r)
    <3>1. Others /\ stored'[s] = stored[s] /\ pc'[r] \notin Saving
      BY <2>2 DEF LoginAudit, RoleAudit, Respond, RevokeCheck, Finish, Goto,
                  UnchangedStore, UnchangedLocals, Saving
    <3> QED
      BY <1>2, <3>1, CopiesRemain
  <2>3. CASE LoginUndo(r) \/ Logout(r) \/ Revoke(r)
    <3>1. /\ Others /\ pc'[r] \notin Saving
          /\ s \notin live' \/ stored'[s] = stored[s]
      BY <2>3 DEF LoginUndo, Logout, Revoke, Remove, Drop, Finish, Goto, Saving
    <3> QED
      BY <1>2, <3>1, CopiesRemain
  <2>4. CASE TermsSave(r) \/ RoleSave(r) \/ ExtendSave(r)
    <3>1. Others /\ pc'[r] \notin Saving /\ pc[r] \in Saving
      BY <2>4 DEF TermsSave, RoleSave, ExtendSave, Finish, Goto,
                  UnchangedLocals, Saving
    <3>2. \/ stored'[s] = stored[s]
          \/ held[r] = s /\ stored'[s] = copy[r]
      BY <2>1, <2>4 DEF TermsSave, RoleSave, ExtendSave, Put
    <3> QED
      BY <1>2, <3>1, <3>2, CopiesRemain
  <2>5. CASE TermsAsk(r)
    <3>1. CASE Finish(r) /\ UNCHANGED stored
      <4>1. Others /\ pc'[r] \notin Saving
        BY <3>1 DEF Finish, Goto, Saving
      <4> QED
        BY <1>2, <3>1, <4>1, CopiesRemain
    <3>2. ASSUME NEW accepted \in TermsAnswers, NEW roles \in RoleLists,
                 Write(r, TakeAnswer(View(r), accepted, roles)),
                 Goto(r, IF accepted THEN "terms_settle" ELSE "terms_save"),
                 UNCHANGED held
          PROVE  Remains(s)
      <4>1. held[r] = s => accepted
        BY <2>5, <3>2 DEF Denied, Goto, TermsAsk
      <4>2. Others /\ UNCHANGED stored /\ copy'[r].tos = accepted
        BY <1>2, <3>2 DEF Write, Goto, TakeAnswer
      <4> QED
        BY <1>2, <3>2, <4>1, <4>2, CopiesRemain
    <3> QED
      BY <2>5, <3>1, <3>2 DEF TermsAsk
  <2>6. CASE TermsSettle(r) \/ RoleApply(r)
    <3>1. /\ Others /\ UNCHANGED <<stored, held>> /\ pc[r] \in Saving
          /\ copy'[r].tos = copy[r].tos
      BY <1>2, <2>1, <2>6 DEF TermsSettle, RoleApply, Settle, SelectRole, Write,
         Goto, UnchangedLocals, Saving
    <3> QED
      BY <1>2, <3>1, CopiesRemain
  <2>7. CASE RoleCheck(r)
    <3>1. /\ Others /\ UNCHANGED stored /\ pc[r] \in Saving
          /\ pc'[r] \notin Saving \/ UNCHANGED <<held, copy>>
      BY <2>7 DEF RoleCheck, Finish, Goto, UnchangedStore, Saving
    <3> QED
      BY <1>2, <3>1, CopiesRemain
  <2>8. CASE ExtendRead(r)
    <3>1. Touch(stored[held[r]]).tos = stored[held[r]].tos
      BY <2>1, AgreedChanges
    <3>2. /\ Others /\ UNCHANGED stored
          /\ \/ pc'[r] \notin Saving
             \/ UNCHANGED held /\ copy'[r].tos = stored[held[r]].tos
      BY <1>2, <2>8, <3>1 DEF ExtendRead, Write, Finish, Goto, UnchangedLocals,
         Saving
    <3> QED
      BY <1>2, <3>2, CopiesRemain
  <2> QED
    BY <2>2, <2>3, <2>4, <2>5, <2>6, <2>7, <2>8 DEF Proceed
<1> QED
  BY <1>1, <1>2

(* Whatever overlaps, fails or is lost, and over every back end, only the  *)
(* authorizer, or a request that had read the session before it, takes an  *)
(* acceptance of the terms back, and no request joins those.               *)
THEOREM AcceptanceIsFinal == Spec => AcceptanceKept
<1> DEFINE Kept == \A s \in live :
                      \/ ~stored[s].tos
                      \/ \E r \in Requests : held[r] = s /\ Denied(r)
                      \/ /\ Unaware(s) = {} /\ s \in live' => stored'[s].tos
                         /\ Unaware(s)' \subseteq Unaware(s)
<1>1. ASSUME TypeOK, [Next]_vars PROVE [Kept]_vars
  <2>1. ASSUME NEW s \in live, stored[s].tos, Next,
               ~\E r \in Requests : held[r] = s /\ Denied(r)
        PROVE  Remains(s)
    <3>1. CASE \E r \in Requests, t \in SessionIds : Arrive(r, t)
      BY <1>1, <2>1, <3>1, ArriveRemains
    <3>2. CASE \E r \in Requests : Proceed(r)
      BY <1>1, <2>1, <3>2, ProceedRemains
    <3>3. CASE Tick
      <4>1. /\ s \in issued /\ stored[s] \in Session /\ copy \in [Requests -> Session]
            /\ \A x \in Session : Older(x).tos = x.tos
        BY <1>1, <2>1, AgreedChanges DEF TypeOK
      <4>2. s \in SessionIds /\ Older(stored[s]).tos = stored[s].tos
        BY <1>1, <4>1 DEF TypeOK
      <4>3. SharesPointers \/ s \in live' => stored'[s].tos
        BY <2>1, <3>3, <4>1, <4>2 DEF Tick
      <4>4. UNCHANGED <<pc, held>>
        BY <3>3 DEF Tick
      <4>5. ASSUME NEW r \in Requests PROVE copy'[r].tos = copy[r].tos
        <5>1. copy[r] \in Session
          BY <4>1
        <5>2. copy'[r] = copy[r] \/ copy'[r] = Older(copy[r])
          BY <3>3 DEF Tick
        <5> QED
          BY <4>1, <5>1, <5>2
      <4> QED
        BY <4>3, <4>4, <4>5, SharedRemains DEF Remains, Unaware, View
    <3>4. CASE DeleteExpiredSessions
      <4>1. /\ ~SharesPointers /\ UNCHANGED <<pc, held, copy>>
            /\ s \in live' => stored'[s] = stored[s]
        BY <1>1, <3>4 DEF DeleteExpiredSessions, Drop, IsCache, SharesPointers, TypeOK
      <4> QED
        BY <2>1, <4>1 DEF Remains, Unaware, View
    <3>5. ASSUME NEW R \in SUBSET InFlight, Crash(R) PROVE Remains(s)
      <4>1. /\ UNCHANGED stored
            /\ \A r \in Requests : \/ pc'[r] = "idle"
                                   \/ /\ pc'[r] = pc[r] /\ held'[r] = held[r]
                                      /\ copy'[r] = copy[r]
        BY <3>5 DEF Crash, Reset
      <4> QED
        BY <2>1, <4>1, SharedRemains DEF Remains, Unaware, View, Saving
    <3> QED
      BY <2>1, <3>1, <3>2, <3>3, <3>4, <3>5 DEF Next
  <2> QED
    BY <1>1, <2>1 DEF Remains
<1> QED
  BY <1>1, TypeCorrect, PTL DEF Spec, AcceptanceKept

-----------------------------------------------------------------------------
(***************************************************************************)
(* Where sessions are copied, a cache entry that is about to lapse belongs *)
(* to a session nobody has used for as long: no entry is older than the    *)
(* last access its session records, and a session not created yet has no   *)
(* entry whose age a new one could inherit.                                *)
(***************************************************************************)
AgeWithinIdle ==
    ~SharesPointers =>
        /\ \A s \in live : age[s] <= stored[s].idle
        /\ \A s \in SessionIds \ issued : age[s] = 0

LEMMA PutAge ==
    ASSUME TypeOK, AgeWithinIdle, NEW r \in Requests, held[r] \in issued,
           Put(r), UNCHANGED issued
    PROVE  AgeWithinIdle'
<1> SUFFICES ASSUME ~SharesPointers
             PROVE  /\ \A s \in live' : age'[s] <= stored'[s].idle
                    /\ \A s \in SessionIds \ issued : age'[s] = 0
  BY DEF AgeWithinIdle
<1>1. /\ live' = live \cup {held[r]}
      /\ stored' = [stored EXCEPT ![held[r]] = copy[r]]
      /\ age' = [age EXCEPT ![held[r]] = 0]
  BY DEF Put, View
<1>2. copy[r].idle \in Nat
  BY SessionsAssumption DEF TypeOK, Session
<1>3. age'[held[r]] <= stored'[held[r]].idle
  BY <1>1, <1>2 DEF TypeOK
<1>4. \A s \in live \ {held[r]} : age'[s] <= stored'[s].idle
  BY <1>1 DEF TypeOK, AgeWithinIdle
<1>5. QED
  BY <1>1, <1>3, <1>4 DEF TypeOK, AgeWithinIdle

(* Keys that go, and steps that write no entry.                            *)
LEMMA RemoveAge ==
    ASSUME TypeOK, AgeWithinIdle, NEW r \in Requests,
           Remove(r) \/ UNCHANGED <<live, stored>>, UNCHANGED <<issued, age>>
    PROVE  AgeWithinIdle'
BY DEF TypeOK, AgeWithinIdle, Remove, Drop

LEMMA WriteAge ==
    ASSUME TypeOK, AgeWithinIdle, NEW r \in Requests, NEW x, Write(r, x),
           UNCHANGED <<issued, live, age>>
    PROVE  AgeWithinIdle'
BY DEF AgeWithinIdle, Write

LEMMA ArriveAge ==
    ASSUME TypeOK, AgeWithinIdle,
           NEW r \in Requests, NEW s \in SessionIds, Arrive(r, s)
    PROVE  AgeWithinIdle' /\ live \subseteq live'
<1>1. ASSUME NEW x \in Session, Create(r, s, x)
      PROVE  AgeWithinIdle' /\ live \subseteq live'
  <2>1. x.idle \in Nat
    BY SessionsAssumption DEF Session
  <2>2. QED
    BY <1>1, <2>1 DEF TypeOK, AgeWithinIdle, Create
<1>2. CASE PersonLogin(r, s) \/ ServiceLogin(r, s)
  BY <1>1, <1>2, LoginType DEF PersonLogin, ServiceLogin
<1>3. CASE ~(PersonLogin(r, s) \/ ServiceLogin(r, s))
  BY <1>3 DEF Arrive, GetSession, TermsAccept, ExtendSession, SignOut,
     SetSessionRole, DeleteUserSession, AdminDeleteSession, Bearer,
     UnchangedStore, AgeWithinIdle
<1>4. QED
  BY <1>2, <1>3

LEMMA ProceedAge ==
    ASSUME TypeOK, AgeWithinIdle, NEW r \in Requests, Proceed(r)
    PROVE  /\ AgeWithinIdle'
           /\ \/ live \subseteq live'
              \/ /\ live \ live' \subseteq {held[r]}
                 /\ pc[r] \in {"logout", "revoke", "login_undo"}
<1>1. pc[r] # "idle"
  BY DEF Proceed, LoginAudit, LoginUndo, TermsAsk, TermsSettle, TermsSave,
         RoleCheck, RoleApply, RoleSave, RoleAudit, ExtendRead, ExtendSave,
         Respond, Logout, RevokeCheck, Revoke
<1>2. held[r] \in issued
  BY <1>1 DEF TypeOK
<1>3. UNCHANGED <<live, stored>> /\ UNCHANGED <<issued, age>> => AgeWithinIdle'
  BY RemoveAge
<1>4. CASE LoginAudit(r) \/ RoleCheck(r) \/ RoleAudit(r) \/ Respond(r)
           \/ RevokeCheck(r)
  BY <1>3, <1>4 DEF LoginAudit, RoleCheck, RoleAudit, Respond, RevokeCheck,
     UnchangedStore
<1>5. CASE LoginUndo(r) \/ Logout(r) \/ Revoke(r)
  <2>1. live \ live' \subseteq {held[r]}
    BY <1>5 DEF LoginUndo, Logout, Revoke, Remove, Drop
  <2>2. AgeWithinIdle'
    BY <1>3, <1>5, RemoveAge DEF LoginUndo, Logout, Revoke
  <2>3. QED
    BY <1>5, <2>1, <2>2 DEF LoginUndo, Logout, Revoke
<1>6. CASE TermsSave(r) \/ RoleSave(r) \/ ExtendSave(r)
  <2>1. UNCHANGED issued
    BY <1>6 DEF TermsSave, RoleSave, ExtendSave
  <2>2. CASE Put(r)
    BY <1>2, <2>1, <2>2, PutAge DEF Put
  <2>3. CASE UNCHANGED <<live, stored, age>>
    BY <1>3, <2>1, <2>3
  <2>4. QED
    BY <1>6, <2>2, <2>3 DEF TermsSave, RoleSave, ExtendSave
<1>7. CASE TermsAsk(r) \/ TermsSettle(r) \/ RoleApply(r) \/ ExtendRead(r)
  <2>1. UNCHANGED <<issued, live, age>>
    BY <1>7 DEF TermsAsk, TermsSettle, RoleApply, ExtendRead
  <2>2. UNCHANGED stored \/ \E x : Write(r, x)
    BY <1>7 DEF TermsAsk, TermsSettle, RoleApply, ExtendRead
  <2>3. QED
    BY <1>3, <2>1, <2>2, WriteAge
<1>8. QED
  BY <1>4, <1>5, <1>6, <1>7 DEF Proceed

(* Whatever overlaps and whichever save is lost, Redis loses a session     *)
(* only to a request that deletes it, or when the last access it records   *)
(* is Timeout seconds past, the second that is passing included.           *)
THEOREM UsedSessionsStay == Spec => KeptWhileUsed
<1> DEFINE Kept ==
      \A s \in live \ live' :
          \/ Backend # "redis"
          \/ \E r \in Requests : /\ held[r] = s
                                 /\ pc[r] \in {"logout", "revoke", "login_undo"}
          \/ stored[s].idle >= Timeout - 1
<1>1. Init => AgeWithinIdle
  BY DEF Init, AgeWithinIdle
<1>2. ASSUME TypeOK, AgeWithinIdle, [Next]_vars
      PROVE  AgeWithinIdle' /\ [Kept]_vars
  <2>1. ASSUME NEW r \in Requests, NEW s \in SessionIds, Arrive(r, s)
        PROVE  AgeWithinIdle' /\ Kept
    BY <1>2, <2>1, ArriveAge
  <2>2. ASSUME NEW r \in Requests, Proceed(r) PROVE AgeWithinIdle' /\ Kept
    BY <1>2, <2>2, ProceedAge
  <2>3. CASE Tick
    <3>1. CASE SharesPointers
      BY <3>1 DEF AgeWithinIdle, SharesPointers
    <3>2. CASE ~SharesPointers
      <4> USE <1>2, <2>3, <3>2, SessionsAssumption DEF Tick, TypeOK, AgeWithinIdle
      <4>1. ASSUME NEW s \in live' PROVE age'[s] <= stored'[s].idle
        <5>1. /\ s \in live \ Lapsing
              /\ age[s] \in 0 .. Timeout
              /\ stored[s].idle \in 0 .. Timeout + 1
              /\ age[s] <= stored[s].idle
          BY <4>1 DEF Session
        <5>2. stored'[s] = Older(stored[s]) /\ stored[s] \in Session
          BY <5>1
        <5>3. stored'[s].idle = IF stored[s].idle > Timeout THEN stored[s].idle
                                ELSE stored[s].idle + 1
          BY <5>2 DEF Older, Session
        <5>4. age'[s] = IF IsCache THEN age[s] + 1 ELSE 0
          BY <5>1
        <5>5. QED
          BY <5>1, <5>3, <5>4
      <4>2. \A s \in SessionIds \ issued' : age'[s] = 0
        OBVIOUS
      <4>3. ASSUME NEW s \in live \ live'
            PROVE  stored[s].idle >= Timeout - 1
        <5>1. IsCache /\ age[s] + 1 >= Timeout
          BY <4>3 DEF Lapsing
        <5>2. /\ age[s] \in 0 .. Timeout
              /\ stored[s].idle \in 0 .. Timeout + 1
              /\ age[s] <= stored[s].idle
          BY <4>3 DEF Session
        <5>3. QED
          BY <5>1, <5>2
      <4>4. QED
        BY <4>1, <4>2, <4>3
    <3>3. QED
      BY <3>1, <3>2 DEF AgeWithinIdle, Tick
  <2>4. CASE DeleteExpiredSessions
    BY <1>2, <2>4 DEF DeleteExpiredSessions, Drop, Expired, TypeOK, AgeWithinIdle,
       IsCache
  <2>5. ASSUME NEW R \in SUBSET InFlight, Crash(R) PROVE AgeWithinIdle' /\ Kept
    BY <1>2, <2>5 DEF Crash, AgeWithinIdle, SharesPointers
  <2>6. CASE UNCHANGED vars
    BY <1>2, <2>6 DEF vars, AgeWithinIdle
  <2>7. QED
    BY <1>2, <2>1, <2>2, <2>3, <2>4, <2>5, <2>6 DEF Next
<1>3. QED
  BY <1>1, <1>2, TypeCorrect, PTL DEF Spec, KeptWhileUsed
=============================================================================
