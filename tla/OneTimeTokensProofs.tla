------------------------- MODULE OneTimeTokensProofs -------------------------
(***************************************************************************)
(* What holds of the one-time tokens for any number of codes and requests. *)
(***************************************************************************)
EXTENDS OneTimeTokens, TLAPS

(* The state of the store is well formed, whatever the cache does.         *)
THEOREM TypeCorrect == Spec => []TypeOK
<1>1. Init => TypeOK
  BY DEF Init, TypeOK
<1>2. TypeOK /\ [Next]_vars => TypeOK'
  <2> SUFFICES ASSUME TypeOK, [Next]_vars PROVE TypeOK'
    OBVIOUS
  <2> USE DEF TypeOK
  <2>1. ASSUME NEW c \in Codes, GenerateToken(c) PROVE TypeOK'
    BY <2>1 DEF GenerateToken
  <2>2. ASSUME NEW c \in Codes, Expire(c) PROVE TypeOK'
    BY <2>2 DEF Expire
  <2>3. ASSUME NEW r \in Redeemers, NEW c \in Codes, GetToken(r, c)
        PROVE TypeOK'
    BY <2>3 DEF GetToken
  <2>4. ASSUME NEW r \in Redeemers, DeleteToken(r) PROVE TypeOK'
    BY <2>4 DEF DeleteToken
  <2>5. ASSUME NEW r \in Redeemers, Deliver(r) PROVE TypeOK'
    BY <2>5 DEF Deliver
  <2>6. ASSUME NEW r \in Redeemers, Refuse(r) PROVE TypeOK'
    BY <2>6 DEF Refuse
  <2>7. ASSUME NEW R \in SUBSET InFlight, Crash(R) PROVE TypeOK'
    BY <2>7 DEF Crash, InFlight
  <2>8. CASE UNCHANGED vars
    BY <2>8 DEF vars
  <2>9. QED
    BY <2>1, <2>2, <2>3, <2>4, <2>5, <2>6, <2>7, <2>8 DEF Next
<1>3. QED
  BY <1>1, <1>2, PTL DEF Spec

-----------------------------------------------------------------------------
(* A code that was exchanged is spent because a request has deleted the    *)
(* token it read before it answers. The token a request has read was       *)
(* issued, so it can never be generated again.                             *)
DeletedFirst ==
    /\ \A c \in Codes : delivered[c] > 0 => c \in issued \ store
    /\ \A r \in Redeemers : found[r] /\ phase[r] # "idle" => code[r] \in issued
    /\ \A r \in Redeemers : found[r] /\ phase[r] = "check" => code[r] \notin store

LEMMA DeletedFirstHolds ==
    ASSUME ~DeleteMayFail
    PROVE  Spec => []DeletedFirst
<1>1. Init => DeletedFirst
  BY DEF Init, DeletedFirst
<1>2. TypeOK /\ DeletedFirst /\ [Next]_vars => DeletedFirst'
  <2> SUFFICES ASSUME TypeOK, DeletedFirst, [Next]_vars PROVE DeletedFirst'
    OBVIOUS
  <2> USE DEF TypeOK, DeletedFirst
  <2>1. ASSUME NEW c \in Codes, GenerateToken(c) PROVE DeletedFirst'
    BY <2>1 DEF GenerateToken
  <2>2. ASSUME NEW c \in Codes, Expire(c) PROVE DeletedFirst'
    BY <2>2 DEF Expire
  <2>3. ASSUME NEW r \in Redeemers, NEW c \in Codes, GetToken(r, c)
        PROVE DeletedFirst'
    BY <2>3 DEF GetToken
  <2>4. ASSUME NEW r \in Redeemers, DeleteToken(r) PROVE DeletedFirst'
    BY <2>4 DEF DeleteToken
  <2>5. ASSUME NEW r \in Redeemers, Deliver(r) PROVE DeletedFirst'
    BY <2>5 DEF Deliver
  <2>6. ASSUME NEW r \in Redeemers, Refuse(r) PROVE DeletedFirst'
    BY <2>6 DEF Refuse
  <2>7. ASSUME NEW R \in SUBSET InFlight, Crash(R) PROVE DeletedFirst'
    BY <2>7 DEF Crash, InFlight
  <2>8. CASE UNCHANGED vars
    BY <2>8 DEF vars
  <2>9. QED
    BY <2>1, <2>2, <2>3, <2>4, <2>5, <2>6, <2>7, <2>8 DEF Next
<1>3. QED
  BY <1>1, <1>2, TypeCorrect, PTL DEF Spec

(* Once a code has been exchanged no later request can read it, however    *)
(* many are redeemed at once, as long as deletes from the cache work.      *)
THEOREM SpentOnceDelivered == Spec => []DeliveredIsSpent
<1>1. CASE DeleteMayFail
  <2>1. DeliveredIsSpent
    BY <1>1 DEF DeliveredIsSpent
  <2>2. QED
    BY <1>1, <2>1, PTL DEF DeliveredIsSpent
<1>2. CASE ~DeleteMayFail
  <2>1. DeletedFirst => DeliveredIsSpent
    BY DEF DeletedFirst, DeliveredIsSpent
  <2>2. QED
    BY <1>2, <2>1, DeletedFirstHolds, PTL
<1>3. QED
  BY <1>1, <1>2

(* A token that has left the cache does not come back, even if requests    *)
(* race and deletes fail.                                                  *)
THEOREM NeverRegenerated == Spec => SpentStaysSpent
<1>1. [Next]_vars => [\A c \in issued \ store : c \notin store']_vars
  BY DEF Next, vars, GenerateToken, Expire, GetToken, DeleteToken, Deliver,
         Refuse, Crash
<1>2. QED
  BY <1>1, PTL DEF Spec, SpentStaysSpent

-----------------------------------------------------------------------------
(* With deletes that work, every step of the store is a step of the atomic *)
(* grants of OneTimeGrant, but for the answer to a contended code.         *)
THEOREM Redemption ==
    ASSUME ~DeleteMayFail
    PROVE  Spec => ImplementsGrant
<1>1. Init => Grant!Init
  BY DEF Init, Grant!Init, InHand, Holds
<1>2. TypeOK /\ DeletedFirst /\ [Next]_vars
        => [Grant!Next \/ ContendedDelivery]_(Grant!vars)
  <2> SUFFICES ASSUME TypeOK, DeletedFirst, [Next]_vars
               PROVE  Grant!Next \/ ContendedDelivery \/ UNCHANGED Grant!vars
    OBVIOUS
  <2> DEFINE out == store \cup InHand
  <2>1. ASSUME NEW c \in Codes, GenerateToken(c) PROVE Grant!Issue(c)
    <3>1. InHand' = InHand
      BY <2>1 DEF GenerateToken, TypeOK, InHand, Holds
    <3>2. QED
      BY <2>1, <3>1 DEF GenerateToken, Grant!Issue
  <2>2. ASSUME NEW c \in Codes, Expire(c)
        PROVE  Grant!Withdraw({c}) \/ UNCHANGED Grant!vars
    <3>1. InHand' = InHand
      BY <2>2 DEF Expire, TypeOK, InHand, Holds
    <3>2. QED
      BY <2>2, <3>1 DEF Expire, Grant!Withdraw, Grant!vars
  <2>3. ASSUME NEW r \in Redeemers, NEW c \in Codes, GetToken(r, c)
        PROVE  UNCHANGED Grant!vars
    <3>1. out' = out
      BY <2>3 DEF GetToken, TypeOK, InHand, Holds
    <3>2. QED
      BY <2>3, <3>1 DEF GetToken, Grant!vars
  <2>4. ASSUME NEW r \in Redeemers, DeleteToken(r)
        PROVE  Grant!Withdraw({code[r]}) \/ UNCHANGED Grant!vars
    <3>1. InHand' = InHand
      BY <2>4 DEF DeleteToken, TypeOK, InHand, Holds
    <3>2. QED
      BY <2>4, <3>1 DEF DeleteToken, Grant!Withdraw, Grant!vars
  <2>5. ASSUME NEW r \in Redeemers, Deliver(r)
        PROVE  ContendedDelivery \/ Grant!Exchange(code[r])
    <3>1. CASE \E q \in Redeemers \ {r} : Holds(q, code[r])
      BY <2>5, <3>1 DEF ContendedDelivery
    <3>2. CASE ~ \E q \in Redeemers \ {r} : Holds(q, code[r])
      <4>1. code[r] \in out
        BY <2>5 DEF Deliver, TypeOK, InHand, Holds
      <4>2. out' = out \ {code[r]}
        BY <2>5, <3>2 DEF Deliver, DeletedFirst, TypeOK, InHand, Holds
      <4>3. QED
        BY <2>5, <4>1, <4>2 DEF Deliver, Grant!Exchange
    <3>3. QED
      BY <3>1, <3>2
  <2>6. ASSUME NEW r \in Redeemers, Refuse(r)
        PROVE  Grant!Withdraw({code[r]}) \/ UNCHANGED Grant!vars
    <3>1. CASE ~found[r] \/ \E q \in Redeemers \ {r} : Holds(q, code[r])
      <4>1. out' = out
        BY <2>6, <3>1 DEF Refuse, TypeOK, InHand, Holds
      <4>2. QED
        BY <2>6, <4>1 DEF Refuse, Grant!vars
    <3>2. CASE found[r] /\ ~ \E q \in Redeemers \ {r} : Holds(q, code[r])
      <4>1. code[r] \in out
        BY <2>6, <3>2 DEF Refuse, TypeOK, InHand, Holds
      <4>2. out' = out \ {code[r]}
        BY <2>6, <3>2 DEF Refuse, DeletedFirst, TypeOK, InHand, Holds
      <4>3. QED
        BY <2>6, <4>1, <4>2 DEF Refuse, Grant!Withdraw
    <3>3. QED
      BY <3>1, <3>2
  <2>7. ASSUME NEW R \in SUBSET InFlight, Crash(R)
        PROVE  Grant!Withdraw(out \ out')
    <3>1. InHand' \subseteq InHand
      BY <2>7 DEF Crash, InFlight, TypeOK, InHand, Holds
    <3>2. store' \subseteq store
      BY <2>7 DEF Crash
    <3>3. out' = out \ (out \ out')
      BY <3>1, <3>2
    <3>4. QED
      BY <2>7, <3>3 DEF Crash, Grant!Withdraw
  <2>8. CASE UNCHANGED vars
    BY <2>8 DEF vars, Grant!vars, InHand, Holds
  <2>9. /\ \A c \in Codes : {c} \in SUBSET Codes
        /\ \A r \in Redeemers : code[r] \in Codes /\ {code[r]} \in SUBSET Codes
        /\ out \ out' \in SUBSET Codes
    BY DEF TypeOK, InHand
  <2>10. QED
    BY <2>1, <2>2, <2>3, <2>4, <2>5, <2>6, <2>7, <2>8, <2>9
    DEF Next, Grant!Next
<1>3. QED
  BY <1>1, <1>2, TypeCorrect, DeletedFirstHolds, PTL DEF Spec, ImplementsGrant

(* Redeemed one at a time there is no contention, and tokens are the       *)
(* atomic grants.                                                          *)
COROLLARY SerialRedemption ==
    ASSUME ~DeleteMayFail, NEW one, Redeemers = {one}
    PROVE  Spec => Grant!Spec
<1>1. ~ContendedDelivery
  BY DEF ContendedDelivery
<1>2. QED
  BY <1>1, Redemption, PTL DEF ImplementsGrant, Grant!Spec
=============================================================================
