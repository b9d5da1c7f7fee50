----------------------- MODULE AccountingExportProofs -----------------------
(* For any number of jobs, processes, attempts and faults: a completed     *)
(* export counts what its artifact holds, the bridge is sent nothing else  *)
(* under its key, and no late answer reopens what was final.               *)
EXTENDS AccountingExport, TLAPS

(* An exporter that has read or thrown works on a job somebody claimed.    *)
Working ==
  \A e \in Exporters :
    /\ snap[e] # None \/ e \in thrown => task[e] # None
    /\ task[e] # None => job[task[e]] \notin {"NONE", "QUEUED"}

(* An artifact is stored in the transaction that ends its job, or later.   *)
StoredAtEnd == \A j \in Jobs : artifact[j] # None => job[j] \in {"COMPLETED", "FAILED"}

(* Only a completed job is delivered, claimed or sent.                     *)
CompletedFirst ==
  \A d \in Jobs :
    /\ delivery[d] # "NONE" => job[d] = "COMPLETED"
    /\ received[d] # {} => job[d] = "COMPLETED"
    /\ \A s \in Senders : hand[s][d] # 0 => delivery[d] # "NONE"

(* A call belongs to a claim, and has come to something.                   *)
Asking ==
  \A s \in Senders : calling[s] # None =>
    hand[s][calling[s]] # 0 /\ answer[s] \in Answers \cup {"ERROR"}

IInv ==
  /\ TypeOK /\ Working /\ StoredAtEnd /\ CompletedFirst /\ Asking
  /\ ArtifactMatchesJob /\ OneContentSent

LEMMA InitInv == Init => IInv
<1> USE ExportAssumption DEF Init, Answers, Books
<1> SUFFICES ASSUME Init PROVE IInv
  OBVIOUS
<1>1. TypeOK
  BY DEF TypeOK
<1>2. Working /\ StoredAtEnd /\ CompletedFirst /\ Asking
  BY DEF Working, StoredAtEnd, CompletedFirst, Asking
<1>3. ArtifactMatchesJob /\ OneContentSent
  BY DEF ArtifactMatchesJob, OneContentSent
<1> QED
  BY <1>1, <1>2, <1>3 DEF IInv
-----------------------------------------------------------------------------
(* The steps of exports                                                    *)

(* Requests, claims, reads and failures of an export keep the invariant.   *)
LEMMA ExportSteps ==
  ASSUME IInv,
         \/ Post
         \/ \E j \in Jobs : Request(j) \/ LeaseEnds(j)
         \/ \E e \in Exporters : \E j \in Jobs : ClaimJob(e, j)
         \/ \E e \in Exporters : Read(e) \/ Throw(e) \/ Fail(e) \/ LoseExport(e)
  PROVE  IInv'
<1> USE ExportAssumption
<1>1. TypeOK'
  <2>1. CASE Post
    BY <2>1 DEF Post, Books, IInv, TypeOK, rows, sending
  <2>2. ASSUME NEW j \in Jobs, Request(j) \/ LeaseEnds(j) PROVE TypeOK'
    <3>1. CASE Request(j)
      BY <3>1 DEF Request, IInv, TypeOK, rows, sending
    <3>2. CASE LeaseEnds(j)
      BY <3>2 DEF LeaseEnds, IInv, TypeOK, rows, sending
    <3> QED
      BY <2>2, <3>1, <3>2
  <2>3. ASSUME NEW e \in Exporters, NEW j \in Jobs, ClaimJob(e, j) PROVE TypeOK'
    BY <2>3 DEF ClaimJob, IInv, TypeOK, rows, sending
  <2>4. ASSUME NEW e \in Exporters, Read(e) \/ Throw(e) \/ LoseExport(e) PROVE TypeOK'
    <3>1. CASE Read(e)
      BY <3>1 DEF Read, IInv, TypeOK, rows, sending
    <3>2. CASE Throw(e)
      BY <3>2 DEF Throw, IInv, TypeOK, rows, sending
    <3>3. CASE LoseExport(e)
      BY <3>3 DEF LoseExport, Leave, IInv, TypeOK, rows, sending
    <3> QED
      BY <2>4, <3>1, <3>2, <3>3
  <2>5. ASSUME NEW e \in Exporters, Fail(e) PROVE TypeOK'
    <3>1. task[e] \in Jobs
      BY <2>5 DEF Fail, Working, IInv, TypeOK
    <3> QED
      BY <2>5, <3>1 DEF Fail, Leave, IInv, TypeOK, rows, sending
  <2> QED
    BY <2>1, <2>2, <2>3, <2>4, <2>5
<1>2. /\ UNCHANGED <<artifact, counted, delivery, hand, calling, answer, received>>
      /\ \A j \in Jobs : job[j] \in {"COMPLETED", "FAILED"} => job'[j] = job[j]
      /\ \A j \in Jobs : job'[j] = "COMPLETED" => job[j] = "COMPLETED"
  BY DEF IInv, TypeOK, Post, Request, LeaseEnds, ClaimJob, Claimable, Read, Throw, Fail, LoseExport,
     rows, sending
<1>3. Working'
  BY DEF IInv, TypeOK, Working, Books, Post, Request, LeaseEnds, ClaimJob, Claimable, Read, Throw, Fail, LoseExport,
     Leave, rows, sending
<1>4. StoredAtEnd' /\ CompletedFirst' /\ Asking' /\ ArtifactMatchesJob' /\ OneContentSent'
  BY <1>2 DEF IInv, StoredAtEnd, CompletedFirst, Asking, ArtifactMatchesJob, OneContentSent
<1> QED
  BY <1>1, <1>3, <1>4 DEF IInv

(* The transaction that stores an artifact keeps the invariant: a job that *)
(* is still PROCESSING has no artifact, so its count and its artifact come *)
(* from one reading.                                                       *)
LEMMA StoreStep ==
  ASSUME IInv, NEW e \in Exporters, Store(e)
  PROVE  IInv'
<1> USE ExportAssumption
<1> DEFINE j == task[e]
<1>1. j \in Jobs /\ snap[e] \in Books /\ snap[e] # None
  BY DEF IInv, TypeOK, Working, Store
<1>2. /\ artifact' = [artifact EXCEPT ![j] = IF @ = None THEN snap[e] ELSE @]
      /\ task' = [task EXCEPT ![e] = None]
      /\ snap' = [snap EXCEPT ![e] = None]
      /\ thrown' = thrown \ {e}
      /\ UNCHANGED <<books, delivery, attempts, due, hand, calling, answer, received, faults>>
  BY DEF Store, Leave, rows, sending
<1>3. CASE job[j] = "PROCESSING"
  <2>1. /\ job' = [job EXCEPT ![j] = "COMPLETED"]
        /\ counted' = [counted EXCEPT ![j] = snap[e]]
        /\ lapsed' = lapsed \ {j}
    BY <1>3 DEF Store, Complete
  <2>2. artifact[j] = None /\ delivery[j] = "NONE" /\ received[j] = {}
    BY <1>1, <1>3 DEF IInv, StoredAtEnd, CompletedFirst
  <2>3. TypeOK' /\ Working'
    BY <1>1, <1>2, <2>1 DEF IInv, TypeOK, Working
  <2>4. StoredAtEnd' /\ CompletedFirst' /\ Asking'
    BY <1>1, <1>2, <2>1 DEF IInv, TypeOK, StoredAtEnd, CompletedFirst, Asking
  <2>5. ArtifactMatchesJob'
    BY <1>1, <1>2, <2>1, <2>2 DEF IInv, TypeOK, ArtifactMatchesJob
  <2>6. OneContentSent'
    BY <1>1, <1>2, <2>1, <2>2 DEF IInv, TypeOK, OneContentSent
  <2> QED
    BY <2>3, <2>4, <2>5, <2>6 DEF IInv
<1>4. CASE job[j] # "PROCESSING"
  <2>1. UNCHANGED <<job, counted, lapsed>>
    BY <1>4 DEF Store, Complete
  <2>2. job[j] \in {"COMPLETED", "FAILED"}
    BY <1>1, <1>4 DEF IInv, TypeOK, Working
  <2>3. TypeOK' /\ Working'
    BY <1>1, <1>2, <2>1 DEF IInv, TypeOK, Working
  <2>4. StoredAtEnd' /\ CompletedFirst' /\ Asking' /\ ArtifactMatchesJob' /\ OneContentSent'
    BY <1>1, <1>2, <2>1, <2>2
    DEF IInv, TypeOK, StoredAtEnd, CompletedFirst, Asking, ArtifactMatchesJob, OneContentSent
  <2> QED
    BY <2>3, <2>4 DEF IInv
<1> QED
  BY <1>3, <1>4
-----------------------------------------------------------------------------
(* The steps of deliveries                                                 *)

(* Seeding, clocks, claims and retries move rows and nothing else.         *)
LEMMA RowSteps ==
  ASSUME IInv,
         \/ \E s \in Senders : Seed(s)
         \/ \E s \in Senders : \E batch \in SUBSET Waiting \ {{}} : ClaimBatch(s, batch)
         \/ \E d \in Jobs : FallDue(d) \/ Retry(d)
  PROVE  IInv'
<1> USE ExportAssumption
<1>1. UNCHANGED <<books, job, lapsed, counted, artifact, task, snap, thrown, calling, answer, received, faults>>
  BY DEF Seed, ClaimBatch, FallDue, Retry, exports, sending
<1>2. Working' /\ StoredAtEnd' /\ ArtifactMatchesJob' /\ OneContentSent'
  BY <1>1 DEF IInv, Working, StoredAtEnd, ArtifactMatchesJob, OneContentSent
<1>3. ASSUME NEW s \in Senders, Seed(s) PROVE IInv'
  <2>1. TypeOK'
    BY <1>1, <1>3 DEF Seed, Unseeded, IInv, TypeOK, sending
  <2>2. CompletedFirst' /\ Asking'
    BY <1>1, <1>3 DEF Seed, Unseeded, IInv, TypeOK, CompletedFirst, Asking, sending
  <2> QED
    BY <1>2, <2>1, <2>2 DEF IInv
<1>4. ASSUME NEW s \in Senders, NEW batch \in SUBSET Waiting, ClaimBatch(s, batch) PROVE IInv'
  <2>1. batch \subseteq Jobs /\ \A d \in batch : delivery[d] # "NONE"
    BY DEF Waiting, IInv, TypeOK
  <2>2. \A n \in 0 .. MaxAttempts : Following(n) \in 1 .. MaxAttempts
    BY DEF Following
  <2>3. TypeOK'
    BY <1>1, <1>4, <2>1, <2>2 DEF ClaimBatch, IInv, TypeOK
  <2>4. CompletedFirst' /\ Asking'
    BY <1>1, <1>4, <2>1, <2>2 DEF ClaimBatch, Idle, IInv, TypeOK, CompletedFirst, Asking
  <2> QED
    BY <1>2, <2>3, <2>4 DEF IInv
<1>5. ASSUME NEW d \in Jobs, FallDue(d) \/ Retry(d) PROVE IInv'
  <2>1. TypeOK'
    BY <1>1, <1>5 DEF FallDue, Retry, IInv, TypeOK, Answers, sending
  <2>2. CompletedFirst' /\ Asking'
    BY <1>1, <1>5 DEF FallDue, Retry, IInv, TypeOK, CompletedFirst, Asking, sending
  <2> QED
    BY <1>2, <2>1, <2>2 DEF IInv
<1> QED
  BY <1>3, <1>4, <1>5

(* A call sends the one artifact of a completed job, which its count is of.*)
LEMMA CallStep ==
  ASSUME IInv, NEW s \in Senders, NEW d \in Jobs, NEW a \in Answers \cup {"ERROR"}, Call(s, d, a)
  PROVE  IInv'
<1> USE ExportAssumption
<1>1. job[d] = "COMPLETED" /\ artifact[d] \in Books /\ artifact[d] # None /\ counted[d] = artifact[d]
  BY DEF Call, IInv, TypeOK, CompletedFirst, ArtifactMatchesJob
<1>2. received' = [received EXCEPT ![d] = @ \cup {artifact[d]}] \/ received' = received
  BY DEF Call
<1>3. /\ calling' = [calling EXCEPT ![s] = d]
      /\ answer' = [answer EXCEPT ![s] = a]
      /\ hand[s][d] # 0
      /\ UNCHANGED <<books, job, lapsed, counted, artifact, task, snap, thrown, delivery, attempts, due, hand, faults>>
  BY DEF Call, exports, rows
<1>4. TypeOK'
  BY <1>1, <1>2, <1>3 DEF IInv, TypeOK
<1>5. Working' /\ StoredAtEnd' /\ ArtifactMatchesJob'
  BY <1>3 DEF IInv, Working, StoredAtEnd, ArtifactMatchesJob
<1>6. CompletedFirst' /\ OneContentSent'
  <2>1. \A x \in Jobs : received'[x] = received[x] \/ (x = d /\ received'[x] = received[x] \cup {artifact[d]})
    BY <1>2 DEF IInv, TypeOK
  <2>2. CompletedFirst'
    BY <1>1, <1>3, <2>1 DEF IInv, CompletedFirst
  <2>3. OneContentSent'
    BY <1>1, <1>3, <2>1 DEF IInv, OneContentSent
  <2> QED
    BY <2>2, <2>3
<1>7. Asking'
  BY <1>3 DEF IInv, TypeOK, Asking
<1> QED
  BY <1>4, <1>5, <1>6, <1>7 DEF IInv

(* Recording an answer, or losing it, sends nothing.                       *)
LEMMA AnswerSteps ==
  ASSUME IInv, NEW s \in Senders, RecordThrows(s) \/ Record(s) \/ LoseRun(s)
  PROVE  IInv'
<1> USE ExportAssumption
<1>1. UNCHANGED <<books, job, lapsed, counted, artifact, task, snap, thrown, attempts, received>>
  BY DEF RecordThrows, Record, LoseRun, exports, rows
<1>2. Working' /\ StoredAtEnd' /\ ArtifactMatchesJob' /\ OneContentSent'
  BY <1>1 DEF IInv, Working, StoredAtEnd, ArtifactMatchesJob, OneContentSent
<1>3. CASE RecordThrows(s)
  <2>1. TypeOK' /\ CompletedFirst' /\ Asking'
    BY <1>1, <1>3 DEF RecordThrows, IInv, TypeOK, CompletedFirst, Asking, exports, rows
  <2> QED
    BY <1>2, <2>1 DEF IInv
<1>4. CASE Record(s)
  <2> DEFINE d == calling[s]
  <2>1. d \in Jobs /\ Outcome(s) \in Answers /\ delivery[d] # "NONE"
    BY <1>4 DEF Record, Outcome, Answers, IInv, TypeOK, Asking, CompletedFirst
  <2>2. (delivery' = [delivery EXCEPT ![d] = Outcome(s)] /\ due' = due \ {d}) \/ UNCHANGED <<delivery, due>>
    BY <1>4 DEF Record
  <2>3. /\ hand' = [hand EXCEPT ![s][d] = 0]
        /\ calling' = [calling EXCEPT ![s] = None]
        /\ answer' = [answer EXCEPT ![s] = None]
        /\ faults' = faults
    BY <1>4 DEF Record, Drop
  <2>4. Outcome(s) # "NONE"
    BY <2>1 DEF Answers
  <2>5. TypeOK'
    <3>1. delivery' \in [Jobs -> Answers \cup {"NONE", "QUEUED", "PROCESSING"}] /\ due' \subseteq Jobs
      BY <2>1, <2>2 DEF IInv, TypeOK
    <3>2. hand' \in [Senders -> [Jobs -> 0 .. MaxAttempts]]
      BY <2>1, <2>3 DEF IInv, TypeOK
    <3>3. calling' \in [Senders -> Jobs \cup {None}] /\ answer' \in [Senders -> Answers \cup {None, "ERROR"}]
      BY <2>3 DEF IInv, TypeOK
    <3> QED
      BY <1>1, <2>3, <3>1, <3>2, <3>3 DEF IInv, TypeOK
  <2>6. CompletedFirst'
    BY <1>1, <2>1, <2>2, <2>3, <2>4 DEF IInv, TypeOK, CompletedFirst
  <2>7. Asking'
    BY <1>1, <2>1, <2>3 DEF IInv, TypeOK, Asking
  <2> QED
    BY <1>2, <2>5, <2>6, <2>7 DEF IInv
<1>5. CASE LoseRun(s)
  <2>1. TypeOK' /\ CompletedFirst' /\ Asking'
    BY <1>1, <1>5 DEF LoseRun, IInv, TypeOK, CompletedFirst, Asking, exports, rows
  <2> QED
    BY <1>2, <2>1 DEF IInv
<1> QED
  BY <1>3, <1>4, <1>5
-----------------------------------------------------------------------------
LEMMA StutterStep ==
  ASSUME IInv, UNCHANGED vars
  PROVE  IInv'
BY DEF IInv, TypeOK, Working, StoredAtEnd, CompletedFirst, Asking, ArtifactMatchesJob, OneContentSent,
   vars, exports, rows, sending

LEMMA InvStep == IInv /\ [Next]_vars => IInv'
<1> SUFFICES ASSUME IInv, [Next]_vars PROVE IInv'
  OBVIOUS
<1>1. CASE Post \/ \E j \in Jobs : Request(j) \/ LeaseEnds(j)
  BY <1>1, ExportSteps
<1>2. ASSUME NEW e \in Exporters, ExporterStep(e) PROVE IInv'
  BY <1>2, ExportSteps, StoreStep DEF ExporterStep
<1>3. ASSUME NEW s \in Senders, SenderStep(s) PROVE IInv'
  BY <1>3, RowSteps, CallStep, AnswerSteps DEF SenderStep
<1>4. CASE \E d \in Jobs : FallDue(d) \/ Retry(d)
  BY <1>4, RowSteps
<1>5. CASE UNCHANGED vars
  BY <1>5, StutterStep
<1> QED
  BY <1>1, <1>2, <1>3, <1>4, <1>5 DEF Next

THEOREM InvHolds == Spec => []IInv
BY InitInv, InvStep, PTL DEF Spec

(* Jobs, artifacts, claims and calls keep their shape, and an attempt      *)
(* number stays within ACCOUNTING_CONNECTOR_MAX_ATTEMPTS.                  *)
THEOREM ExportTyped == Spec => []TypeOK
<1>1. IInv => TypeOK
  BY DEF IInv
<1> QED
  BY <1>1, InvHolds, PTL

(* executeClaimed: however many exporters run one job over changing books, *)
(* its count is of the rows in its artifact.                               *)
THEOREM ArtifactsTrue == Spec => []ArtifactMatchesJob
<1>1. IInv => ArtifactMatchesJob
  BY DEF IInv
<1> QED
  BY <1>1, InvHolds, PTL

(* deliver: all claims and retry cycles send one content under one key.    *)
THEOREM OneContent == Spec => []OneContentSent
<1>1. IInv => OneContentSent
  BY DEF IInv
<1> QED
  BY <1>1, InvHolds, PTL

(* deliver and fail: no step reopens a DELIVERED row, and only a retry     *)
(* reopens a FAILED one.                                                   *)
THEOREM FinalStays == Spec => FinalKept
<1> DEFINE Kept ==
      \A d \in Jobs : delivery[d] \in Final =>
        delivery'[d] \in {delivery[d]} \cup (IF delivery[d] = "FAILED" THEN {"QUEUED"} ELSE {})
<1>1. IInv /\ [Next]_vars => [Kept]_vars
  <2> SUFFICES ASSUME IInv, Next PROVE Kept
    OBVIOUS
  <2> USE DEF Final
  <2>1. CASE UNCHANGED delivery
    BY <2>1
  <2>2. ASSUME NEW s \in Senders, SenderStep(s) PROVE Kept
    <3>1. CASE Seed(s)
      BY <3>1 DEF Seed, Unseeded
    <3>2. ASSUME NEW batch \in SUBSET Waiting, ClaimBatch(s, batch) PROVE Kept
      BY <3>2 DEF ClaimBatch, Waiting
    <3>3. CASE Record(s)
      BY <3>3 DEF Record, IInv, TypeOK
    <3>4. CASE RecordThrows(s) \/ LoseRun(s) \/ \E d \in Jobs, a \in Answers \cup {"ERROR"} : Call(s, d, a)
      BY <3>4, <2>1 DEF RecordThrows, LoseRun, Call, rows
    <3> QED
      BY <2>2, <3>1, <3>2, <3>3, <3>4 DEF SenderStep
  <2>3. CASE \E d \in Jobs : Retry(d)
    BY <2>3 DEF Retry, IInv, TypeOK
  <2>4. CASE Post \/ (\E j \in Jobs : Request(j) \/ LeaseEnds(j) \/ FallDue(j)) \/ \E e \in Exporters : ExporterStep(e)
    BY <2>4, <2>1 DEF Post, Request, LeaseEnds, FallDue, ExporterStep, ClaimJob, Read, Throw, Store, Fail, LoseExport, rows
  <2> QED
    BY <2>2, <2>3, <2>4 DEF Next
<1>2. Spec => [][Next]_vars
  BY DEF Spec
<1> QED
  BY <1>1, <1>2, InvHolds, PTL DEF FinalKept
=============================================================================
