--------------------------- MODULE PushOutboxProofs ---------------------------
(* The outbox keeps its promises for any number of notifications, workers  *)
(* and attempts.  The invariant that carries the proof says that a claim   *)
(* never carries a number above its row's attemptCount: a fresh claim is   *)
(* therefore new to every worker and to the transport.                     *)
EXTENDS PushOutbox, TLAPS

(* No claim, held or already sent, is numbered above the row's counter.    *)
ClaimsNumbered ==
  /\ \A w \in Workers : \A c \in waiting[w] : c[2] <= attempts[c[1]]
  /\ \A c \in sent : c[2] <= attempts[c[1]]

(* What a worker has in hand was handed over, and its answer recorded.     *)
HandsSent ==
  \A w \in Workers : hand[w] # None =>
    /\ hand[w] \in sent
    /\ outcome[w] = "accepted" => hand[w] \in accepted

IInv ==
  /\ TypeOK
  /\ ClaimsNumbered
  /\ HandsSent
  /\ OneDeliveryPerAttempt
  /\ LatestClaimInFlight
  /\ OutcomeJustified

(* A new outbox has no rows and no claims.                                 *)
LEMMA InitInv == Init => IInv
  BY OutboxAssumption DEF Init, IInv, TypeOK, ClaimsNumbered, HandsSent,
     OneDeliveryPerAttempt, LatestClaimInFlight, OutcomeJustified, Held, RowStatus, Claims

(* A claim that stays within S and E is made by Attempt and by Drain.      *)
LEMMA ClaimKeeps ==
  ASSUME IInv, NEW w \in Workers, Free(w), NEW S \in SUBSET Notes, NEW E \in SUBSET Notes,
         \A n \in S : Claimable(n), \A n \in E : Exhausted(n), Claim(w, S, E)
  PROVE IInv'
<1> USE OutboxAssumption
<1>1. S \cap E = {}
  BY DEF Claimable, Exhausted, IInv, TypeOK
<1>2. \A n \in S : attempts[n] + 1 \in 1 .. MaxAttempts
  BY DEF Claimable, IInv, TypeOK
<1>3. \A n \in E : attempts[n] = MaxAttempts /\ status[n] = "IN_FLIGHT"
  BY DEF Exhausted, IInv, TypeOK
<1>4. TypeOK'
  <2>1. waiting' \in [Workers -> SUBSET Claims]
    BY <1>2 DEF Claim, IInv, TypeOK, Claims
  <2>2. attempts' \in [Notes -> 0 .. MaxAttempts]
    BY <1>2 DEF Claim, IInv, TypeOK
  <2> QED
    BY <2>1, <2>2 DEF Claim, IInv, TypeOK, RowStatus, transport
<1>5. ClaimsNumbered'
  BY <1>2 DEF Claim, Free, IInv, TypeOK, ClaimsNumbered, Claims, transport
<1>6. HandsSent'
  BY DEF Claim, IInv, HandsSent, transport
<1>7. \A n \in S : <<n, attempts[n] + 1>> \notin sent
             /\ \A v \in Workers : <<n, attempts[n] + 1>> \notin Held(v)
  BY DEF IInv, TypeOK, ClaimsNumbered, HandsSent, Held, Claims
<1>8. OneDeliveryPerAttempt'
  BY <1>7 DEF Claim, Free, IInv, TypeOK, OneDeliveryPerAttempt, Held, transport
<1>9. LatestClaimInFlight'
  BY <1>1, <1>2, <1>3, <1>7 DEF Claim, Free, IInv, TypeOK, LatestClaimInFlight, Held
<1>10. OutcomeJustified'
  BY <1>1, <1>2, <1>3 DEF Claim, Claimable, IInv, TypeOK, OutcomeJustified, transport
<1> QED
  BY <1>4, <1>5, <1>6, <1>8, <1>9, <1>10 DEF IInv

LEMMA EnvironmentKeeps ==
  ASSUME IInv, NEW n \in Notes, Enqueue(n) \/ Elapse(n)
  PROVE IInv'
<1> USE OutboxAssumption
<1>1. TypeOK'
  BY DEF Enqueue, Elapse, IInv, TypeOK, RowStatus, workerVars, transport
<1>2. ClaimsNumbered' /\ HandsSent' /\ OneDeliveryPerAttempt'
  BY DEF Enqueue, Elapse, IInv, ClaimsNumbered, HandsSent, OneDeliveryPerAttempt, Held,
     workerVars, transport
<1>3. LatestClaimInFlight' /\ OutcomeJustified'
  BY DEF Enqueue, Elapse, IInv, TypeOK, LatestClaimInFlight, OutcomeJustified, Held,
     workerVars, transport
<1> QED
  BY <1>1, <1>2, <1>3 DEF IInv

LEMMA DeliverKeeps ==
  ASSUME IInv, NEW w \in Workers, NEW c \in waiting[w], NEW result \in {"accepted", "failed"},
         Deliver(w, c, result)
  PROVE IInv'
<1> USE OutboxAssumption
<1>1. c \in Claims
  BY DEF IInv, TypeOK
<1>2. TypeOK'
  BY <1>1 DEF Deliver, IInv, TypeOK, rowVars
<1>3. ClaimsNumbered' /\ HandsSent'
  BY <1>1 DEF Deliver, IInv, TypeOK, ClaimsNumbered, HandsSent, rowVars
<1>4. OneDeliveryPerAttempt'
  BY <1>1 DEF Deliver, IInv, TypeOK, OneDeliveryPerAttempt, Held, HandsSent
<1>5. LatestClaimInFlight' /\ OutcomeJustified'
  BY <1>1 DEF Deliver, IInv, TypeOK, LatestClaimInFlight, OutcomeJustified, Held, rowVars
<1> QED
  BY <1>2, <1>3, <1>4, <1>5 DEF IInv

LEMMA RecordKeeps ==
  ASSUME IInv, NEW w \in Workers,
         RecordDispatched(w) \/ RecordFailure(w) \/ RecordingFails(w) \/ Abandon(w)
  PROVE IInv'
<1> USE OutboxAssumption
<1>1. TypeOK'
  <2>1. hand[w] # None => hand[w][1] \in Notes
    BY DEF IInv, TypeOK, Claims
  <2>2. CASE RecordDispatched(w)
    BY <2>1, <2>2 DEF RecordDispatched, Release, IInv, TypeOK, RowStatus, transport
  <2>3. CASE RecordFailure(w)
    BY <2>1, <2>3 DEF RecordFailure, Release, IInv, TypeOK, RowStatus, transport
  <2>4. CASE RecordingFails(w)
    BY <2>4 DEF RecordingFails, IInv, TypeOK, rowVars, transport
  <2>5. CASE Abandon(w)
    BY <2>5 DEF Abandon, Release, IInv, TypeOK, rowVars, transport
  <2> QED
    BY <2>2, <2>3, <2>4, <2>5
<1>2. ClaimsNumbered' /\ HandsSent'
  BY DEF RecordDispatched, RecordFailure, RecordingFails, Abandon, Release, IInv, TypeOK,
     ClaimsNumbered, HandsSent, rowVars, transport
<1>3. \A v \in Workers : Held(v)' \subseteq Held(v)
  BY DEF RecordDispatched, RecordFailure, RecordingFails, Abandon, Release, IInv, TypeOK, Held
<1>4. OneDeliveryPerAttempt'
  BY <1>3 DEF RecordDispatched, RecordFailure, RecordingFails, Abandon, Release, IInv, TypeOK,
     OneDeliveryPerAttempt, transport
<1>5. LatestClaimInFlight' /\ OutcomeJustified'
  <2>1. CASE RecordDispatched(w) \/ RecordFailure(w)
    <3>1. hand[w] \in Claims /\ hand[w] # None /\ hand[w] \in Held(w)
      BY <2>1 DEF RecordDispatched, RecordFailure, IInv, TypeOK, Held
    <3>2. hand[w] \notin Held(w)'
      BY <2>1, <3>1 DEF RecordDispatched, RecordFailure, Release, Held, IInv, TypeOK, HandsSent,
         OneDeliveryPerAttempt
    <3>3. \A v \in Workers : hand[w] \notin Held(v)'
      BY <1>3, <3>1, <3>2 DEF IInv, OneDeliveryPerAttempt
    <3>4. PICK n \in Notes, k \in 1 .. MaxAttempts : hand[w] = <<n, k>>
      BY <3>1 DEF Claims
    <3>5. attempts' = attempts /\ accepted' = accepted
      BY <2>1 DEF RecordDispatched, RecordFailure, transport
    <3>6. \A m \in Notes : status'[m] # status[m] => m = n /\ attempts[n] = k /\ status[n] = "IN_FLIGHT"
      BY <2>1, <3>4 DEF RecordDispatched, RecordFailure, Owns, IInv, TypeOK
    <3>7. LatestClaimInFlight'
      BY <1>3, <3>3, <3>4, <3>5, <3>6 DEF IInv, LatestClaimInFlight
    <3>8. status'[n] = "DISPATCHED" /\ status[n] # "DISPATCHED" => hand[w] \in accepted
      BY <2>1, <3>4 DEF RecordDispatched, RecordFailure, IInv, TypeOK, HandsSent
    <3>9. status'[n] = "FAILED" /\ status[n] # "FAILED" => k = MaxAttempts
      BY <2>1, <3>4 DEF RecordDispatched, RecordFailure, IInv, TypeOK
    <3>10. OutcomeJustified'
      BY <3>4, <3>5, <3>6, <3>8, <3>9 DEF IInv, OutcomeJustified
    <3> QED
      BY <3>7, <3>10
  <2>2. CASE RecordingFails(w) \/ Abandon(w)
    BY <1>3, <2>2 DEF RecordingFails, Abandon, IInv, LatestClaimInFlight, OutcomeJustified,
       rowVars, transport
  <2> QED
    BY <2>1, <2>2
<1> QED
  BY <1>1, <1>2, <1>4, <1>5 DEF IInv

(* Every step of the outbox keeps the invariant.                           *)
LEMMA NextKeeps == IInv /\ [Next]_vars => IInv'
<1> SUFFICES ASSUME IInv, [Next]_vars PROVE IInv'
  OBVIOUS
<1>1. CASE UNCHANGED vars
  BY <1>1 DEF vars, rowVars, workerVars, transport, IInv, TypeOK, ClaimsNumbered, HandsSent,
     OneDeliveryPerAttempt, LatestClaimInFlight, OutcomeJustified, Held
<1>2. ASSUME NEW n \in Notes, Enqueue(n) \/ Elapse(n) PROVE IInv'
  BY <1>2, EnvironmentKeeps
<1>3. ASSUME NEW w \in Workers, NEW n \in Notes, Attempt(w, n) PROVE IInv'
  BY <1>3, ClaimKeeps DEF Attempt
<1>4. ASSUME NEW w \in Workers, NEW S \in SUBSET Notes, Drain(w, S) PROVE IInv'
  BY <1>4, ClaimKeeps DEF Drain
<1>5. ASSUME NEW w \in Workers, NEW c \in waiting[w], NEW result \in {"accepted", "failed"},
             Deliver(w, c, result)
      PROVE IInv'
  BY <1>5, DeliverKeeps
<1>6. ASSUME NEW w \in Workers, Finish(w) \/ RecordingFails(w) \/ Abandon(w) PROVE IInv'
  BY <1>6, RecordKeeps DEF Finish
<1> QED
  BY <1>1, <1>2, <1>3, <1>4, <1>5, <1>6 DEF Next

LEMMA Inductive == Spec => []IInv
  BY InitInv, NextKeeps, PTL DEF Spec

(* attemptCount stays within PUSH_MAX_ATTEMPTS and rows keep their shape.  *)
THEOREM OutboxTyped == Spec => []TypeOK
  BY Inductive, PTL DEF IInv

(* A user is notified of one event at most PUSH_MAX_ATTEMPTS times: every  *)
(* delivery has an attempt number of its own.                              *)
THEOREM DeliveriesBounded == Spec => []OneDeliveryPerAttempt
  BY Inductive, PTL DEF IInv

(* A late worker never takes the row away from the worker that holds it.   *)
THEOREM LeaseRespected == Spec => []LatestClaimInFlight
  BY Inductive, PTL DEF IInv

(* A dispatched notification was accepted under its last attempt, and a    *)
(* failed one has used them all.                                           *)
THEOREM SettledWithReason == Spec => []OutcomeJustified
  BY Inductive, PTL DEF IInv

(* No step opens a settled notification again.                             *)
THEOREM SettledStays == Spec => SettledForGood
<1>1. IInv /\ [Next]_vars => (\A n \in Notes : Settled(n) => status'[n] = status[n])
  <2> SUFFICES ASSUME IInv, [Next]_vars, NEW n \in Notes, Settled(n)
               PROVE status'[n] = status[n]
    OBVIOUS
  <2>1. CASE UNCHANGED vars
    BY <2>1 DEF vars, rowVars
  <2>2. ASSUME NEW m \in Notes, Enqueue(m) \/ Elapse(m) PROVE status'[n] = status[n]
    BY <2>2 DEF Enqueue, Elapse, Settled, IInv, TypeOK
  <2>3. ASSUME NEW w \in Workers, NEW m \in Notes, Attempt(w, m) PROVE status'[n] = status[n]
    BY <2>3 DEF Attempt, Claim, Claimable, Exhausted, Settled, IInv, TypeOK
  <2>4. ASSUME NEW w \in Workers, NEW S \in SUBSET Notes, Drain(w, S) PROVE status'[n] = status[n]
    BY <2>4 DEF Drain, Claim, Claimable, Exhausted, Settled, IInv, TypeOK
  <2>5. ASSUME NEW w \in Workers, NEW c \in waiting[w], NEW result \in {"accepted", "failed"},
               Deliver(w, c, result)
        PROVE status'[n] = status[n]
    BY <2>5 DEF Deliver, rowVars
  <2>6. ASSUME NEW w \in Workers, Finish(w) \/ RecordingFails(w) \/ Abandon(w)
        PROVE status'[n] = status[n]
    BY <2>6 DEF Finish, RecordDispatched, RecordFailure, RecordingFails, Abandon, Owns, Settled,
       IInv, TypeOK, rowVars
  <2> QED
    BY <2>1, <2>2, <2>3, <2>4, <2>5, <2>6 DEF Next
<1> QED
  BY <1>1, Inductive, PTL DEF Spec, SettledForGood
=============================================================================
