------------------------------ MODULE PushOutbox ------------------------------
(***************************************************************************)
(* The durable outbox of direct push notifications:                        *)
(* notifications/push-delivery-outbox.service.ts.                          *)
(*                                                                         *)
(* A business event is one row, named by its target scope and dedupe key.  *)
(* A worker claims rows in one statement, hands them to the transport one  *)
(* after the other, and records each outcome in a statement of its own;    *)
(* a claim is the row and the attemptCount it was claimed with.            *)
(*                                                                         *)
(* Time is one flag a row: ripe says that the moment the row waits for has *)
(* passed, nextAttemptAt while it is PENDING and the end of the ten minute *)
(* lease while it is IN_FLIGHT.                                            *)
(***************************************************************************)
EXTENDS Naturals, FiniteSets

CONSTANTS
  Notes,        \* (target scope, dedupe key) of the business events
  Workers,      \* concurrent calls of attempt and drainDue, in any process
  MaxAttempts,  \* PUSH_MAX_ATTEMPTS
  BatchSize,    \* PUSH_BATCH_SIZE
  None

Claims == Notes \X (1 .. MaxAttempts)

ASSUME OutboxAssumption ==
  /\ MaxAttempts \in Nat \ {0}
  /\ BatchSize \in Nat \ {0}
  /\ None \notin Claims

VARIABLES
  status,    \* PushDeliveryOutbox.status, "NONE" while the row does not exist
  attempts,  \* attemptCount
  ripe,      \* the row's waiting time is over
  waiting,   \* claims of each worker it has not handed to the transport yet
  hand,      \* the claim each worker is delivering
  outcome,   \* what deliver(work) came to: "none", "accepted" or "failed"
  sent,      \* claims ever handed to the transport
  accepted   \* claims the transport accepted

rowVars == <<status, attempts, ripe>>
workerVars == <<waiting, hand, outcome>>
transport == <<sent, accepted>>
vars == <<rowVars, workerVars, transport>>

Held(w) == waiting[w] \cup ({hand[w]} \ {None})

Init ==
  /\ status = [n \in Notes |-> "NONE"]
  /\ attempts = [n \in Notes |-> 0]
  /\ ripe = [n \in Notes |-> FALSE]
  /\ waiting = [w \in Workers |-> {}]
  /\ hand = [w \in Workers |-> None]
  /\ outcome = [w \in Workers |-> "none"]
  /\ sent = {}
  /\ accepted = {}
-----------------------------------------------------------------------------
(* Mutant: a repeated business event makes its row due again.              *)
EnqueueResets(n) ==
  /\ status' = [status EXCEPT ![n] = "PENDING"]
  /\ ripe' = [ripe EXCEPT ![n] = TRUE]
  /\ UNCHANGED <<attempts, workerVars, transport>>

(* INSERT ... ON CONFLICT: the first event of a dedupe key makes a row     *)
(* that is due at once, a repetition only touches updatedAt.               *)
Enqueue(n) ==
  /\ status[n] = "NONE"
  /\ status' = [status EXCEPT ![n] = "PENDING"]
  /\ ripe' = [ripe EXCEPT ![n] = TRUE]
  /\ UNCHANGED <<attempts, workerVars, transport>>

(* The clock passes nextAttemptAt, or the end of the lease.                *)
Elapse(n) ==
  /\ status[n] \in {"PENDING", "IN_FLIGHT"}
  /\ ripe' = [ripe EXCEPT ![n] = TRUE]
  /\ UNCHANGED <<status, attempts, workerVars, transport>>

(* A row a worker may take: due, or in flight under a lease that is over.  *)
Claimable(n) ==
  /\ attempts[n] < MaxAttempts
  /\ status[n] \in {"PENDING", "IN_FLIGHT"}
  /\ ripe[n]

(* Mutant: nobody records a last attempt whose process died.               *)
ExhaustedNever(n) == FALSE

(* A last attempt whose lease is over.                                     *)
Exhausted(n) ==
  /\ attempts[n] >= MaxAttempts
  /\ status[n] = "IN_FLIGHT"
  /\ ripe[n]

(* Mutant: a reclaimed lease keeps its attempt number.                     *)
ClaimRenewing(w, S, E) ==
  /\ S \cup E # {}
  /\ status' = [n \in Notes |->
       IF n \in E THEN "FAILED" ELSE IF n \in S THEN "IN_FLIGHT" ELSE status[n]]
  /\ attempts' = [n \in Notes |->
       IF n \in S /\ status[n] = "PENDING" THEN attempts[n] + 1 ELSE attempts[n]]
  /\ ripe' = [n \in Notes |-> ripe[n] /\ n \notin S \cup E]
  /\ waiting' = [waiting EXCEPT ![w] = {<<n, attempts'[n]>> : n \in S}]
  /\ UNCHANGED <<hand, outcome, transport>>

(* One statement: the expired rows E become FAILED, and the worker takes   *)
(* the rows S under a new attempt number.                                  *)
Claim(w, S, E) ==
  /\ S \cup E # {}
  /\ status' = [n \in Notes |->
       IF n \in E THEN "FAILED" ELSE IF n \in S THEN "IN_FLIGHT" ELSE status[n]]
  /\ attempts' = [n \in Notes |-> IF n \in S THEN attempts[n] + 1 ELSE attempts[n]]
  /\ ripe' = [n \in Notes |-> ripe[n] /\ n \notin S \cup E]
  /\ waiting' = [waiting EXCEPT ![w] = {<<n, attempts[n] + 1>> : n \in S}]
  /\ UNCHANGED <<hand, outcome, transport>>

Free(w) == waiting[w] = {} /\ hand[w] = None

(* attempt(id), right after the event was enqueued.                        *)
Attempt(w, n) ==
  /\ Free(w)
  /\ Claim(w, {m \in {n} : Claimable(m)}, {m \in {n} : Exhausted(m)})

(* drainDue: a batch of due rows.  SKIP LOCKED may leave some of them out. *)
Drain(w, S) ==
  /\ Free(w)
  /\ S \subseteq {n \in Notes : Claimable(n)}
  /\ Cardinality(S) <= BatchSize
  /\ Claim(w, S, {n \in Notes : Exhausted(n)})

(* deliver(work) is called for one claim; it returns or throws, and even   *)
(* when it throws some device may have shown the notification.             *)
Deliver(w, c, result) ==
  /\ c \in waiting[w] /\ hand[w] = None
  /\ waiting' = [waiting EXCEPT ![w] = @ \ {c}]
  /\ hand' = [hand EXCEPT ![w] = c]
  /\ outcome' = [outcome EXCEPT ![w] = result]
  /\ sent' = sent \cup {c}
  /\ accepted' = IF result = "accepted" THEN accepted \cup {c} ELSE accepted
  /\ UNCHANGED rowVars

(* Mutant: the outcome is recorded on any row that is in flight.           *)
OwnsUnfenced(c) == status[c[1]] = "IN_FLIGHT"

(* The WHERE of both outcome updates: the claim is the row's latest.       *)
Owns(c) ==
  /\ status[c[1]] = "IN_FLIGHT"
  /\ attempts[c[1]] = c[2]

Release(w) ==
  /\ hand' = [hand EXCEPT ![w] = None]
  /\ outcome' = [outcome EXCEPT ![w] = "none"]

RecordDispatched(w) ==
  /\ outcome[w] = "accepted"
  /\ IF Owns(hand[w])
       THEN /\ status' = [status EXCEPT ![hand[w][1]] = "DISPATCHED"]
            /\ ripe' = [ripe EXCEPT ![hand[w][1]] = FALSE]
       ELSE UNCHANGED <<status, ripe>>
  /\ Release(w)
  /\ UNCHANGED <<attempts, waiting, transport>>

(* The DISPATCHED update throws: the catch block treats an accepted        *)
(* delivery like a failed one.                                             *)
RecordingFails(w) ==
  /\ outcome[w] = "accepted"
  /\ outcome' = [outcome EXCEPT ![w] = "failed"]
  /\ UNCHANGED <<rowVars, waiting, hand, transport>>

RecordFailure(w) ==
  /\ outcome[w] = "failed"
  /\ IF Owns(hand[w])
       THEN /\ status' = [status EXCEPT ![hand[w][1]] =
                            IF hand[w][2] >= MaxAttempts THEN "FAILED" ELSE "PENDING"]
            /\ ripe' = [ripe EXCEPT ![hand[w][1]] = FALSE]
       ELSE UNCHANGED <<status, ripe>>
  /\ Release(w)
  /\ UNCHANGED <<attempts, waiting, transport>>

(* The process dies, or the update of the catch block throws and leaves    *)
(* the loop of drainDue: the rest of the batch stays claimed.              *)
Abandon(w) ==
  /\ ~Free(w)
  /\ waiting' = [waiting EXCEPT ![w] = {}]
  /\ Release(w)
  /\ UNCHANGED <<rowVars, transport>>

Finish(w) == RecordDispatched(w) \/ RecordFailure(w)

Next ==
  \/ \E n \in Notes : Enqueue(n) \/ Elapse(n)
  \/ \E w \in Workers :
       \/ \E n \in Notes : Attempt(w, n)
       \/ \E S \in SUBSET Notes : Drain(w, S)
       \/ \E c \in waiting[w], result \in {"accepted", "failed"} : Deliver(w, c, result)
       \/ Finish(w) \/ RecordingFails(w) \/ Abandon(w)

Spec == Init /\ [][Next]_vars

(* The scheduler sweeps, clocks move, and a worker that stays alive goes   *)
(* through its batch; no process has to die.                               *)
Fairness ==
  /\ \A n \in Notes : WF_vars(Elapse(n))
  /\ WF_vars(\E w \in Workers, S \in SUBSET Notes : Drain(w, S))
  /\ \A w \in Workers :
       /\ WF_vars(\E c \in waiting[w], result \in {"accepted", "failed"} : Deliver(w, c, result))
       /\ WF_vars(Finish(w))

FairSpec == Spec /\ Fairness
-----------------------------------------------------------------------------
RowStatus == {"NONE", "PENDING", "IN_FLIGHT", "DISPATCHED", "FAILED"}

(* Rows, claims and control points keep their shape; attemptCount stays    *)
(* within PUSH_MAX_ATTEMPTS.                                               *)
TypeOK ==
  /\ status \in [Notes -> RowStatus]
  /\ attempts \in [Notes -> 0 .. MaxAttempts]
  /\ ripe \in [Notes -> BOOLEAN]
  /\ waiting \in [Workers -> SUBSET Claims]
  /\ hand \in [Workers -> Claims \cup {None}]
  /\ outcome \in [Workers -> {"none", "accepted", "failed"}]
  /\ \A w \in Workers : hand[w] = None <=> outcome[w] = "none"
  /\ sent \subseteq Claims /\ accepted \subseteq sent

(* An attempt number is used for one delivery: no two workers hold the     *)
(* same claim, however slow the first was when its lease ran out, and no   *)
(* claim is handed to the transport twice.  A user is notified of one      *)
(* event at most PUSH_MAX_ATTEMPTS times.                                  *)
OneDeliveryPerAttempt ==
  /\ \A v, w \in Workers : v # w => Held(v) \cap Held(w) = {}
  /\ \A w \in Workers : waiting[w] \cap sent = {}

(* While a worker holds the row's latest claim the row is IN_FLIGHT: no    *)
(* late answer of an older claim makes it PENDING or settles it under the  *)
(* worker.  Only a last attempt whose lease ran out may be FAILED.         *)
LatestClaimInFlight ==
  \A w \in Workers, n \in Notes : <<n, attempts[n]>> \in Held(w) =>
    \/ status[n] = "IN_FLIGHT"
    \/ status[n] = "FAILED" /\ attempts[n] = MaxAttempts

(* DISPATCHED is the transport's answer to the latest claim, not to an     *)
(* older one, and FAILED is written only when every attempt is used.       *)
OutcomeJustified ==
  \A n \in Notes :
    /\ status[n] = "DISPATCHED" => <<n, attempts[n]>> \in accepted
    /\ status[n] = "FAILED" => attempts[n] = MaxAttempts

Settled(n) == status[n] \in {"DISPATCHED", "FAILED"}

(* A settled notification is never opened again: not by a repetition of    *)
(* its business event, a late worker or an expiring lease.                 *)
SettledForGood == [][\A n \in Notes : Settled(n) => status'[n] = status[n]]_vars

(* Every queued notification is settled in the end, also when the process  *)
(* of its last attempt died and nobody may claim it again.                 *)
EveryNoteSettles == \A n \in Notes : status[n] = "PENDING" ~> Settled(n)
=============================================================================
