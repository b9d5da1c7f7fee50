--------------------------- MODULE AccountingExport ---------------------------
(***************************************************************************)
(* Accounting exports and their delivery to an outside bridge:             *)
(* accounting-export.service.ts and .runner.ts,                            *)
(* accounting-connector-delivery.service.ts and .runner.ts, and            *)
(* configured-http-accounting-connector.adapter.ts of accounting/.         *)
(*                                                                         *)
(* An exporter claims a job, reads the journals, and stores the artifact   *)
(* and the completion in one transaction.  A sender turns completed jobs   *)
(* into deliveries, claims what is due, and calls the bridge for one       *)
(* delivery after the other.  Any number of processes run both.  Neither   *)
(* runner fences its last UPDATE by the claim it works under: it asks for  *)
(* status PROCESSING, which a later claim has as well.                     *)
(*                                                                         *)
(* What a job reads is one number, the state of the books; it stands for   *)
(* the rows, their count and the bytes rendered from them.  Time is a flag *)
(* a row: a lease that is over, a nextAttemptAt that has come.  There is   *)
(* one provider, so a delivery is named by its job.                        *)
(***************************************************************************)
EXTENDS Naturals, FiniteSets

CONSTANTS
  Jobs,         \* idempotency keys of export requests
  Exporters,    \* AccountingExportRunner of each process
  Senders,      \* AccountingConnectorDeliveryRunner of each process
  MaxAttempts,  \* ACCOUNTING_CONNECTOR_MAX_ATTEMPTS
  MaxBooks,     \* bound: changes of the books
  MaxFaults,    \* bound: runs that are lost, answers that cannot be recorded
  None

Books == 0 .. MaxBooks

ASSUME ExportAssumption ==
  /\ MaxAttempts \in Nat \ {0}
  /\ MaxBooks \in Nat
  /\ MaxFaults \in Nat
  /\ None \notin Jobs \cup Books

VARIABLES
  books,     \* what an export would read now
  job,       \* AccountingExportJob.status
  lapsed,    \* jobs whose lease is over
  counted,   \* recordCount
  artifact,  \* AccountingExportArtifact
  task,      \* the job each exporter has claimed
  snap,      \* what it has read
  thrown,    \* exporters in their catch block
  delivery,  \* AccountingConnectorDelivery.status
  attempts,  \* attemptCount, up to MaxAttempts: beyond it nothing depends on it
  due,       \* deliveries whose lease is over or whose nextAttemptAt has come
  hand,      \* attempt number of each delivery a sender has claimed, or 0
  calling,   \* the delivery it is calling the bridge for
  answer,    \* what the call came to
  received,  \* contents the bridge was sent under the key of each delivery
  faults

exports == <<books, job, lapsed, counted, artifact, task, snap, thrown>>
rows == <<delivery, attempts, due>>
sending == <<hand, calling, answer, received>>
vars == <<exports, rows, sending, faults>>

Answers == {"ACCEPTED", "DELIVERED", "FAILED", "UNKNOWN"}
Final == {"DELIVERED", "FAILED"}

Init ==
  /\ books = 0
  /\ job = [j \in Jobs |-> "NONE"]
  /\ lapsed = {}
  /\ counted = [j \in Jobs |-> None]
  /\ artifact = [j \in Jobs |-> None]
  /\ task = [e \in Exporters |-> None]
  /\ snap = [e \in Exporters |-> None]
  /\ thrown = {}
  /\ delivery = [d \in Jobs |-> "NONE"]
  /\ attempts = [d \in Jobs |-> 0]
  /\ due = {}
  /\ hand = [s \in Senders |-> [d \in Jobs |-> 0]]
  /\ calling = [s \in Senders |-> None]
  /\ answer = [s \in Senders |-> None]
  /\ received = [d \in Jobs |-> {}]
  /\ faults = 0
-----------------------------------------------------------------------------
(* A journal is posted or reversed in the period of the exports.           *)
Post ==
  /\ books < MaxBooks
  /\ books' = books + 1
  /\ UNCHANGED <<job, lapsed, counted, artifact, task, snap, thrown, rows, sending, faults>>

(* create: one row a key; a repetition returns the row.                    *)
Request(j) ==
  /\ job[j] = "NONE"
  /\ job' = [job EXCEPT ![j] = "QUEUED"]
  /\ UNCHANGED <<books, lapsed, counted, artifact, task, snap, thrown, rows, sending, faults>>

(* Mutant: a job is never taken over from a process that died.             *)
ClaimableOnce(j) == job[j] = "QUEUED"

(* The rows claimOne selects.                                              *)
Claimable(j) ==
  \/ job[j] = "QUEUED"
  \/ job[j] = "PROCESSING" /\ j \in lapsed

ClaimJob(e, j) ==
  /\ task[e] = None
  /\ Claimable(j)
  /\ job' = [job EXCEPT ![j] = "PROCESSING"]
  /\ lapsed' = lapsed \ {j}
  /\ task' = [task EXCEPT ![e] = j]
  /\ UNCHANGED <<books, counted, artifact, snap, thrown, rows, sending, faults>>

LeaseEnds(j) ==
  /\ job[j] = "PROCESSING"
  /\ lapsed' = lapsed \cup {j}
  /\ UNCHANGED <<books, job, counted, artifact, task, snap, thrown, rows, sending, faults>>

(* executeClaimed reads and renders.                                       *)
Read(e) ==
  /\ task[e] # None /\ snap[e] = None /\ e \notin thrown
  /\ snap' = [snap EXCEPT ![e] = books]
  /\ UNCHANGED <<books, job, lapsed, counted, artifact, task, thrown, rows, sending, faults>>

(* An error anywhere up to the commit: too many rows or bytes, a failing   *)
(* statement, a transaction that is rolled back.                           *)
Throw(e) ==
  /\ task[e] # None /\ e \notin thrown
  /\ thrown' = thrown \cup {e}
  /\ UNCHANGED <<books, job, lapsed, counted, artifact, task, snap, rows, sending, faults>>

Leave(e) ==
  /\ task' = [task EXCEPT ![e] = None]
  /\ snap' = [snap EXCEPT ![e] = None]
  /\ thrown' = thrown \ {e}

Complete(e, j) ==
  IF job[j] = "PROCESSING"
    THEN /\ job' = [job EXCEPT ![j] = "COMPLETED"]
         /\ counted' = [counted EXCEPT ![j] = snap[e]]
         /\ lapsed' = lapsed \ {j}
    ELSE UNCHANGED <<job, counted, lapsed>>

(* Mutant: the artifact is stored by a statement of its own.               *)
StoreInTwo(e) ==
  LET j == task[e] IN
  /\ snap[e] # None /\ e \notin thrown
  /\ IF artifact[j] = None
       THEN /\ artifact' = [artifact EXCEPT ![j] = snap[e]]
            /\ UNCHANGED <<job, counted, lapsed, task, snap, thrown>>
       ELSE Complete(e, j) /\ Leave(e) /\ UNCHANGED artifact
  /\ UNCHANGED <<books, rows, sending, faults>>

(* Mutant: ON CONFLICT DO UPDATE.                                          *)
StoreReplacing(e) ==
  LET j == task[e] IN
  /\ snap[e] # None /\ e \notin thrown
  /\ artifact' = [artifact EXCEPT ![j] = snap[e]]
  /\ Complete(e, j)
  /\ Leave(e)
  /\ UNCHANGED <<books, rows, sending, faults>>

(* The transaction: the first artifact of a job stays, and the job is      *)
(* COMPLETED where it is still PROCESSING.                                 *)
Store(e) ==
  LET j == task[e] IN
  /\ snap[e] # None /\ e \notin thrown
  /\ artifact' = [artifact EXCEPT ![j] = IF @ = None THEN snap[e] ELSE @]
  /\ Complete(e, j)
  /\ Leave(e)
  /\ UNCHANGED <<books, rows, sending, faults>>

(* The catch block marks the job FAILED where it is still PROCESSING.      *)
Fail(e) ==
  LET j == task[e] IN
  /\ e \in thrown
  /\ job' = IF job[j] = "PROCESSING" THEN [job EXCEPT ![j] = "FAILED"] ELSE job
  /\ lapsed' = lapsed \ {j}
  /\ Leave(e)
  /\ UNCHANGED <<books, counted, artifact, rows, sending, faults>>

(* The process dies, or the UPDATE of the catch block throws.              *)
LoseExport(e) ==
  /\ task[e] # None
  /\ faults < MaxFaults
  /\ faults' = faults + 1
  /\ Leave(e)
  /\ UNCHANGED <<books, job, lapsed, counted, artifact, rows, sending>>
-----------------------------------------------------------------------------
Idle(s) == calling[s] = None /\ \A d \in Jobs : hand[s][d] = 0

(* seedCompletedExports, the first statement of a sender's run.            *)
Unseeded ==
  {d \in Jobs : delivery[d] = "NONE" /\ job[d] = "COMPLETED" /\ artifact[d] # None}

Seed(s) ==
  /\ Idle(s)
  /\ Unseeded # {}
  /\ delivery' = [d \in Jobs |-> IF d \in Unseeded THEN "QUEUED" ELSE delivery[d]]
  /\ due' = due \cup Unseeded
  /\ UNCHANGED <<exports, attempts, sending, faults>>

(* The clock passes nextAttemptAt, or the end of a lease.                  *)
FallDue(d) ==
  /\ delivery[d] \in {"PROCESSING", "ACCEPTED", "UNKNOWN"}
  /\ due' = due \cup {d}
  /\ UNCHANGED <<exports, delivery, attempts, sending, faults>>

Following(n) == IF n < MaxAttempts THEN n + 1 ELSE n

(* claim takes what is due, short of its limit and of the rows others have *)
(* locked.                                                                 *)
ClaimBatch(s, batch) ==
  /\ Idle(s)
  /\ delivery' = [d \in Jobs |-> IF d \in batch THEN "PROCESSING" ELSE delivery[d]]
  /\ attempts' = [d \in Jobs |-> IF d \in batch THEN Following(attempts[d]) ELSE attempts[d]]
  /\ due' = due \ batch
  /\ hand' = [hand EXCEPT ![s] = [d \in Jobs |->
                IF d \in batch THEN Following(attempts[d]) ELSE 0]]
  /\ UNCHANGED <<exports, calling, answer, received, faults>>

(* deliver hands the artifact to the bridge, which answers or does not: an *)
(* error may come before or after the bridge has taken the content.        *)
Call(s, d, a) ==
  /\ hand[s][d] # 0 /\ calling[s] = None
  /\ \/ received' = [received EXCEPT ![d] = @ \cup {artifact[d]}]
     \/ a = "ERROR" /\ UNCHANGED received
  /\ calling' = [calling EXCEPT ![s] = d]
  /\ answer' = [answer EXCEPT ![s] = a]
  /\ UNCHANGED <<exports, rows, hand, faults>>

(* The UPDATE that records an answer of the bridge throws.                 *)
RecordThrows(s) ==
  /\ calling[s] # None /\ answer[s] \in Answers
  /\ faults < MaxFaults
  /\ faults' = faults + 1
  /\ answer' = [answer EXCEPT ![s] = "ERROR"]
  /\ UNCHANGED <<exports, rows, hand, calling, received>>

(* An error is terminal once the claim had the last attempt.               *)
Outcome(s) ==
  IF answer[s] # "ERROR" THEN answer[s]
  ELSE IF hand[s][calling[s]] >= MaxAttempts THEN "FAILED"
  ELSE "UNKNOWN"

Drop(s) ==
  /\ hand' = [hand EXCEPT ![s][calling[s]] = 0]
  /\ calling' = [calling EXCEPT ![s] = None]
  /\ answer' = [answer EXCEPT ![s] = None]

(* Mutant: the outcome is written whatever the row has become.             *)
RecordBlindly(s) ==
  /\ calling[s] # None
  /\ delivery' = [delivery EXCEPT ![calling[s]] = Outcome(s)]
  /\ due' = due \ {calling[s]}
  /\ Drop(s)
  /\ UNCHANGED <<exports, attempts, received, faults>>

(* The outcome is written where the row is PROCESSING.                     *)
Record(s) ==
  LET d == calling[s] IN
  /\ d # None
  /\ IF delivery[d] = "PROCESSING"
       THEN /\ delivery' = [delivery EXCEPT ![d] = Outcome(s)]
            /\ due' = due \ {d}
       ELSE UNCHANGED <<delivery, due>>
  /\ Drop(s)
  /\ UNCHANGED <<exports, attempts, received, faults>>

(* The process dies, or the UPDATE of fail throws and leaves the loop.     *)
LoseRun(s) ==
  /\ ~Idle(s)
  /\ faults < MaxFaults
  /\ faults' = faults + 1
  /\ hand' = [hand EXCEPT ![s] = [d \in Jobs |-> 0]]
  /\ calling' = [calling EXCEPT ![s] = None]
  /\ answer' = [answer EXCEPT ![s] = None]
  /\ UNCHANGED <<exports, rows, received>>

(* retry, by an accountant.                                                *)
Retry(d) ==
  /\ delivery[d] \in {"FAILED", "UNKNOWN"}
  /\ delivery' = [delivery EXCEPT ![d] = "QUEUED"]
  /\ attempts' = [attempts EXCEPT ![d] = 0]
  /\ due' = due \cup {d}
  /\ UNCHANGED <<exports, sending, faults>>
-----------------------------------------------------------------------------
ExporterStep(e) ==
  \/ \E j \in Jobs : ClaimJob(e, j)
  \/ Read(e) \/ Throw(e) \/ Store(e) \/ Fail(e) \/ LoseExport(e)

Waiting == {d \in due : delivery[d] \in {"QUEUED", "PROCESSING", "ACCEPTED", "UNKNOWN"}}

SenderStep(s) ==
  \/ Seed(s)
  \/ \E batch \in SUBSET Waiting \ {{}} : ClaimBatch(s, batch)
  \/ \E d \in Jobs, a \in Answers \cup {"ERROR"} : Call(s, d, a)
  \/ RecordThrows(s) \/ Record(s) \/ LoseRun(s)

Next ==
  \/ Post
  \/ \E j \in Jobs : Request(j) \/ LeaseEnds(j)
  \/ \E e \in Exporters : ExporterStep(e)
  \/ \E s \in Senders : SenderStep(s)
  \/ \E d \in Jobs : FallDue(d) \/ Retry(d)

Spec == Init /\ [][Next]_vars
-----------------------------------------------------------------------------
TypeOK ==
  /\ books \in Books
  /\ job \in [Jobs -> {"NONE", "QUEUED", "PROCESSING", "COMPLETED", "FAILED"}]
  /\ lapsed \subseteq Jobs
  /\ counted \in [Jobs -> Books \cup {None}]
  /\ artifact \in [Jobs -> Books \cup {None}]
  /\ task \in [Exporters -> Jobs \cup {None}]
  /\ snap \in [Exporters -> Books \cup {None}]
  /\ thrown \subseteq Exporters
  /\ delivery \in [Jobs -> Answers \cup {"NONE", "QUEUED", "PROCESSING"}]
  /\ attempts \in [Jobs -> 0 .. MaxAttempts]
  /\ due \subseteq Jobs
  /\ hand \in [Senders -> [Jobs -> 0 .. MaxAttempts]]
  /\ calling \in [Senders -> Jobs \cup {None}]
  /\ answer \in [Senders -> Answers \cup {None, "ERROR"}]
  /\ received \in [Jobs -> SUBSET Books]
  /\ faults \in 0 .. MaxFaults

(* A completed job shows the count of the very rows its artifact holds,    *)
(* although two exporters may have read different books for it and either  *)
(* may have stored, failed or died at any point.                           *)
ArtifactMatchesJob ==
  \A j \in Jobs : job[j] = "COMPLETED" => artifact[j] # None /\ counted[j] = artifact[j]

(* Whatever is sent under one idempotency key, by any claim, any sender    *)
(* and in any retry cycle, is the one content the job was completed with.  *)
OneContentSent ==
  \A d \in Jobs : received[d] \subseteq {counted[d]} \ {None}

(* A late answer of an older claim never overrules a final answer: what is *)
(* DELIVERED stays so, and what FAILED is only opened again by a retry.    *)
FinalKept ==
  [][\A d \in Jobs : delivery[d] \in Final =>
       delivery'[d] \in {delivery[d]} \cup (IF delivery[d] = "FAILED" THEN {"QUEUED"} ELSE {})]_vars

(* The bridge answers for good, and the answer is recorded, before another *)
(* claim's answer has taken the row out of PROCESSING.                     *)
CallFinal(s, d) ==
  /\ delivery[d] = "PROCESSING"
  /\ Call(s, d, "DELIVERED") \/ Call(s, d, "FAILED")

RecordFinal(s, d) ==
  /\ calling[s] = d /\ delivery[d] = "PROCESSING" /\ answer[s] \in Final
  /\ Record(s)

(* A bridge that is asked again and again answers for good in the end, and *)
(* a lease does not always end under the call that gets the answer; a      *)
(* delivery that is due again and again is claimed, because the oldest go  *)
(* first; timers, clocks and the steps of a running process go on.         *)
Fairness ==
  /\ \A j \in Jobs :
       /\ WF_vars(LeaseEnds(j))
       /\ SF_vars(\E e \in Exporters : ClaimJob(e, j))
       /\ WF_vars(FallDue(j))
       /\ SF_vars(\E s \in Senders, batch \in SUBSET Waiting : j \in batch /\ ClaimBatch(s, batch))
       /\ SF_vars(\E s \in Senders : CallFinal(s, j))
       /\ SF_vars(\E s \in Senders : RecordFinal(s, j))
  /\ \A e \in Exporters : WF_vars(Read(e) \/ Store(e) \/ Fail(e))
  /\ \A s \in Senders :
       /\ WF_vars(Seed(s))
       /\ WF_vars(\E d \in Jobs, a \in Answers \cup {"ERROR"} : Call(s, d, a))
       /\ WF_vars(Record(s))

FairSpec == Spec /\ Fairness

(* Every requested export fails, or its delivery ends, through lost runs,  *)
(* leases that run out under slow workers, and errors of any call.         *)
ExportsSettle ==
  \A j \in Jobs : job[j] = "QUEUED" ~> job[j] = "FAILED" \/ delivery[j] \in Final
=============================================================================
