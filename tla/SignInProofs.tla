---------------------------- MODULE SignInProofs ----------------------------
(***************************************************************************)
(* What holds from the login to the access token for any number of         *)
(* clients, flows, sessions, codes and token requests. A step of SignIn is *)
(* one of the tokens and one of the logins, so what is proved of           *)
(* OneTimeTokens holds here too.                                           *)
(***************************************************************************)
EXTENDS SignIn, OneTimeTokensProofs

LEMMA StepIsStep == [SignInNext]_signInVars => [Next]_vars
<1> SUFFICES ASSUME [SignInNext]_signInVars PROVE Next \/ UNCHANGED vars
  OBVIOUS
<1>1. CASE LogIn
  BY <1>1 DEF LogIn
<1>2. ASSUME NEW f \in Flows, NEW s \in SessionIds, NEW c \in Codes,
             RedirectToCaller(f, s, c)
      PROVE  Next
  BY <1>2 DEF RedirectToCaller, Next
<1>3. ASSUME NEW r \in Redeemers, NEW c \in Codes, RedeemToken(r, c)
      PROVE  Next
  BY <1>3 DEF RedeemToken, Next
<1>4. ASSUME NEW r \in Redeemers, NEW u \in RedirectURIs,
             AuthorizationCode(r, u)
      PROVE  Next
  BY <1>4 DEF AuthorizationCode, Next
<1>5. CASE Unnoticed
  BY <1>5 DEF Unnoticed, Next
<1>6. CASE UNCHANGED signInVars
  BY <1>6 DEF signInVars
<1>7. QED
  BY <1>1, <1>2, <1>3, <1>4, <1>5, <1>6 DEF SignInNext

(* The composition runs the tokens of OneTimeTokens: what OneTimeTokens    *)
(* promises of them it promises here.                                      *)
THEOREM RunsTokens == SignInSpec => Spec
<1>1. SignInInit => Init
  BY DEF SignInInit
<1>2. QED
  BY <1>1, StepIsStep, PTL DEF SignInSpec, Spec

-----------------------------------------------------------------------------
(* The code that can still be exchanged, or that a request has in hand, is *)
(* for a session that was answered to a flow with the redirect URI it is   *)
(* bound to; and so is every access token.                                 *)
Answered(id, uri) ==
    /\ id \in identified
    /\ \E f \in Flows :
           /\ RedirectURI[f] = uri
           /\ [flow |-> f, id |-> id, error |-> FALSE] \in answered
           /\ ClientOf[f] = ClientOf[loginOf[id]]

Bound(c) == Answered(codeFor[c].id, codeFor[c].uri)

SignInTypeOK ==
    /\ identified \subseteq SessionIds
    /\ loginOf \in [SessionIds -> Flows]
    /\ codeFor \in [Codes -> OneTimeToken]

Traceable ==
    /\ SignInTypeOK
    /\ \A c \in store \cup InHand : Bound(c)
    /\ \A c \in store \cup InHand : c \in issued
    /\ \A a \in access : Answered(a.id, a.uri)

(* What was answered stays so, and for the same login: a session that was  *)
(* identified keeps its flow.                                              *)
LEMMA StaysAnswered ==
    ASSUME SignInTypeOK, LogIn \/ UNCHANGED loginVars,
           NEW id, NEW uri, Answered(id, uri)
    PROVE  Answered(id, uri)'
<1>1. /\ UNCHANGED answered /\ identified \subseteq identified'
      /\ \A s \in identified : loginOf'[s] = loginOf[s]
  <2>1. CASE UNCHANGED loginVars
    BY <2>1 DEF loginVars
  <2>2. ASSUME NEW f \in Flows, Login!Begin(f)
        PROVE  UNCHANGED <<answered, identified, loginOf>>
    BY <2>2 DEF Login!Begin
  <2>3. ASSUME NEW s \in SessionIds, NEW f \in Flows, Login!Identify(s, f)
        PROVE  /\ UNCHANGED answered /\ identified \subseteq identified'
               /\ \A t \in identified : loginOf'[t] = loginOf[t]
    BY <2>3 DEF Login!Identify, SignInTypeOK
  <2>4. QED
    BY <2>1, <2>2, <2>3 DEF LogIn
<1>2. QED
  BY <1>1 DEF Answered

LEMMA LogInTypeOK ==
    ASSUME SignInTypeOK, LogIn
    PROVE  SignInTypeOK'
<1>1. UNCHANGED codeFor
  BY DEF LogIn, linkVars
<1>2. ASSUME NEW f \in Flows, Login!Begin(f)
      PROVE  UNCHANGED <<identified, loginOf>>
  BY <1>2 DEF Login!Begin
<1>3. ASSUME NEW s \in SessionIds, NEW f \in Flows, Login!Identify(s, f)
      PROVE  identified' \subseteq SessionIds /\ loginOf' \in [SessionIds -> Flows]
  BY <1>3 DEF Login!Identify, SignInTypeOK
<1>4. QED
  BY <1>1, <1>2, <1>3 DEF LogIn, SignInTypeOK

(* A step that hands out no code and answers no access token: what is in   *)
(* the store or in hand after it was so before.                            *)
LEMMA NothingNew ==
    ASSUME Traceable, SignInTypeOK', LogIn \/ UNCHANGED loginVars,
           UNCHANGED <<codeFor, access>>, issued \subseteq issued',
           store' \cup InHand' \subseteq store \cup InHand
    PROVE  Traceable'
<1>1. \A c \in (store \cup InHand)' : Bound(c)'
  <2> SUFFICES ASSUME NEW c \in (store \cup InHand)' PROVE Bound(c)'
    OBVIOUS
  <2>1. PICK id, uri : id = codeFor[c].id /\ uri = codeFor[c].uri
    OBVIOUS
  <2>2. Answered(id, uri)
    BY <2>1 DEF Traceable, Bound
  <2>3. Answered(id, uri)'
    BY <2>2, StaysAnswered DEF Traceable
  <2>4. QED
    BY <2>1, <2>3 DEF Bound
<1>2. \A a \in access' : Answered(a.id, a.uri)'
  BY StaysAnswered DEF Traceable
<1>3. QED
  BY <1>1, <1>2 DEF Traceable

(* A code is bound to the answer of the flow it is generated for.          *)
LEMMA RedirectToCallerTraceable ==
    ASSUME TypeOK, Traceable, SignInAssumption,
           NEW f \in Flows, NEW s \in SessionIds, NEW c \in Codes,
           RedirectToCaller(f, s, c)
    PROVE  Traceable'
<1>1. /\ c \notin issued /\ issued' = issued \cup {c}
      /\ store' \subseteq store \cup {c}
      /\ UNCHANGED <<access, phase, code, found, identified, loginOf>>
      /\ answered \subseteq answered'
  BY DEF RedirectToCaller, GenerateToken, Login!Answer, loginVars
<1>2. InHand' = InHand
  BY <1>1 DEF InHand, Holds
<1>3. codeFor' = [codeFor EXCEPT ![c] = [id |-> s, uri |-> RedirectURI[f]]]
  BY DEF RedirectToCaller
<1>4. SignInTypeOK'
  BY <1>1, <1>3 DEF Traceable, SignInTypeOK, OneTimeToken, SignInAssumption
<1>5. ASSUME c \in store' PROVE Bound(c)'
  <2>1. /\ s \in identified /\ ClientOf[loginOf[s]] = ClientOf[f]
        /\ answered' = answered \cup {[flow |-> f, id |-> s, error |-> FALSE]}
    BY <1>5 DEF RedirectToCaller, Login!Answer
  <2>2. codeFor'[c] = [id |-> s, uri |-> RedirectURI[f]]
    BY <1>3 DEF Traceable, SignInTypeOK
  <2>3. Answered(s, RedirectURI[f])'
    BY <1>1, <2>1 DEF Answered
  <2>4. codeFor'[c].id = s /\ codeFor'[c].uri = RedirectURI[f]
    BY <2>2
  <2>5. QED
    BY <2>3, <2>4 DEF Bound, Answered
<1>6. ASSUME NEW id, NEW uri, Answered(id, uri) PROVE Answered(id, uri)'
  BY <1>1, <1>6 DEF Answered
<1>7. ASSUME NEW d \in store \cup InHand PROVE Bound(d)' /\ d \in issued'
  <2>1. d # c /\ Bound(d) /\ d \in issued
    BY <1>1 DEF Traceable
  <2>2. d \in Codes
    BY <2>1 DEF TypeOK
  <2>3. codeFor'[d] = codeFor[d]
    BY <1>3, <2>1, <2>2 DEF Traceable, SignInTypeOK
  <2>4. Answered(codeFor[d].id, codeFor[d].uri)'
    BY <1>1, <2>1, <2>3 DEF Bound, Answered
  <2>5. QED
    BY <1>1, <2>1, <2>4 DEF Bound
<1>8. \A a \in access' : Answered(a.id, a.uri)'
  BY <1>1, <1>6 DEF Traceable
<1>9. QED
  BY <1>1, <1>2, <1>4, <1>5, <1>7, <1>8 DEF Traceable

(* The token endpoint compares the redirect URI of the code with the one   *)
(* presented before it answers.                                            *)
LEMMA AuthorizationCodeTraceable ==
    ASSUME TypeOK, Traceable, NEW r \in Redeemers, NEW u \in RedirectURIs,
           AuthorizationCode(r, u)
    PROVE  Traceable'
<1>1. UNCHANGED <<codeFor, identified, loginOf, answered, issued, store>>
  BY DEF AuthorizationCode, loginVars, Deliver, Refuse
<1>2. InHand' \subseteq InHand
  BY DEF AuthorizationCode, Deliver, Refuse, InHand, Holds, TypeOK
<1>3. \A a \in access' : Answered(a.id, a.uri)
  <2>1. CASE UNCHANGED access
    BY <2>1 DEF Traceable
  <2>2. CASE /\ ValidRedirect(r, u) /\ Deliver(r)
             /\ access' = access \cup {[uri |-> u, id |-> codeFor[code[r]].id]}
    <3>1. code[r] \in InHand
      BY <2>2 DEF Deliver, InHand, Holds, TypeOK
    <3>2. Answered(codeFor[code[r]].id, u)
      BY <2>2, <3>1 DEF Traceable, Bound, ValidRedirect
    <3>3. QED
      BY <2>2, <3>2 DEF Traceable
  <2>3. QED
    BY <2>1, <2>2 DEF AuthorizationCode
<1>4. QED
  BY <1>1, <1>2, <1>3 DEF Traceable, SignInTypeOK, Bound, Answered

LEMMA RedeemTokenTraceable ==
    ASSUME TypeOK, Traceable, NEW r \in Redeemers, NEW c \in Codes,
           RedeemToken(r, c)
    PROVE  Traceable'
<1>1. /\ UNCHANGED <<issued, store, codeFor, access, loginVars>>
      /\ store' \cup InHand' \subseteq store \cup InHand
  BY DEF RedeemToken, GetToken, InHand, Holds, TypeOK, linkVars
<1>2. SignInTypeOK'
  BY <1>1 DEF Traceable, SignInTypeOK, loginVars
<1>3. QED
  BY <1>1, <1>2, NothingNew

LEMMA UnnoticedTraceable ==
    ASSUME TypeOK, Traceable, Unnoticed
    PROVE  Traceable'
<1>1. UNCHANGED <<codeFor, access, loginVars>>
  BY DEF Unnoticed, linkVars
<1>2. UNCHANGED issued /\ store' \subseteq store
  BY DEF Unnoticed, Expire, DeleteToken, Crash
<1>3. InHand' \subseteq InHand
  BY DEF Unnoticed, Expire, DeleteToken, Crash, InHand, Holds, TypeOK
<1>4. SignInTypeOK'
  BY <1>1 DEF Traceable, SignInTypeOK, loginVars
<1>5. QED
  BY <1>1, <1>2, <1>3, <1>4, NothingNew

LEMMA AlwaysTraceable == SignInSpec => []Traceable
<1>1. SignInInit => Traceable
  BY DEF SignInInit, Init, Login!Init, Traceable, SignInTypeOK, InHand, Holds
<1>2. TypeOK /\ Traceable /\ [SignInNext]_signInVars => Traceable'
  <2> SUFFICES ASSUME TypeOK, Traceable, [SignInNext]_signInVars
               PROVE  Traceable'
    OBVIOUS
  <2>1. CASE LogIn
    <3>1. UNCHANGED <<codeFor, access, issued, store, phase, code, found>>
      BY <2>1 DEF LogIn, vars, linkVars
    <3>2. InHand' = InHand
      BY <3>1 DEF InHand, Holds
    <3>3. QED
      BY <2>1, <3>1, <3>2, LogInTypeOK, NothingNew DEF Traceable
  <2>2. CASE \E f \in Flows, s \in SessionIds, c \in Codes :
                RedirectToCaller(f, s, c)
    BY <2>2, RedirectToCallerTraceable, SignInAssumption
  <2>3. CASE \E r \in Redeemers, c \in Codes : RedeemToken(r, c)
    BY <2>3, RedeemTokenTraceable
  <2>4. CASE \E r \in Redeemers, u \in RedirectURIs : AuthorizationCode(r, u)
    BY <2>4, AuthorizationCodeTraceable
  <2>5. CASE Unnoticed
    BY <2>5, UnnoticedTraceable
  <2>6. CASE UNCHANGED signInVars
    BY <2>6 DEF signInVars, vars, loginVars, linkVars, Traceable, SignInTypeOK,
                Bound, Answered, InHand, Holds
  <2>7. QED
    BY <2>1, <2>2, <2>3, <2>4, <2>5, <2>6 DEF SignInNext
<1>3. QED
  BY <1>1, <1>2, RunsTokens, TypeCorrect, PTL DEF SignInSpec

(* An access token is only ever answered to a request with the redirect    *)
(* URI of a flow its session was answered to, a flow of the client the     *)
(* session was begun for, if LoginPromise is kept: however many clients    *)
(* share redirect URIs, and with codes that are contended, expired or lost *)
(* with a process and deletes that fail.                                   *)
THEOREM AccessIsTraced == SignInSpec => []AccessFollowsAnswer
<1>1. Traceable => AccessFollowsAnswer
  BY DEF Traceable, Answered, AccessFollowsAnswer
<1>2. QED
  BY <1>1, AlwaysTraceable, PTL

(* The codes of the whole sign-in are the atomic grants of OneTimeGrant,   *)
(* but for contended answers.                                              *)
COROLLARY SignInRedemption ==
    ASSUME ~DeleteMayFail
    PROVE  SignInSpec => ImplementsGrant
BY RunsTokens, Redemption, PTL
=============================================================================
