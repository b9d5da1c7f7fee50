------------------------ MODULE ProviderSettlementProofs ------------------------
(***************************************************************************)
(* Proofs about ServiceDispatch and ProviderSettlement.  Two invariants,   *)
(* one of the bookings and assignments, which no settlement step touches,  *)
(* and one of the money, which needs of the first only that a completed    *)
(* booking stays completed.                                                *)
(***************************************************************************)
EXTENDS ProviderSettlement, TLAPS

(* The rows of ServiceDispatch keep their shape.                           *)
RowsTyped ==
  /\ status \in [Bookings -> BookingStatus]
  /\ slot \in [Bookings -> Slots \cup {None}]
  /\ proposal \in [Bookings -> Slots \cup {None}]
  /\ job \in [Jobs -> JobRows]
  /\ active \in [Agents -> BOOLEAN]
  /\ leaving \subseteq Agents
  /\ recording \in [Jobs -> Verdicts \cup {None}]
  /\ held \in [Bookings -> Holds]

(* The rows of the payments and batches keep theirs.                       *)
MoneyTyped ==
  /\ payment \in [Payments -> PaymentStatus]
  /\ pays \in [Payments -> Bookings \cup {None}]
  /\ entry \in [Payments -> Batches \cup {None}]
  /\ batch \in [Batches -> {"NONE", "DRAFT", "APPROVED", "PAID", "CANCELLED"}]
  /\ recovery \in [Payments -> {"NONE", "OPEN", "RESOLVED"}]
  /\ refund \in [Payments -> {"idle", "paid out", "not paid out"}]
  /\ draft \subseteq Payments
  /\ review \subseteq Batches

(* An assignment belongs to a booking that was confirmed once, and so has  *)
(* a time no proposal changes any more; an assessment belongs to one.      *)
Placed(j) ==
  /\ job[j].of \in Bookings
  /\ job[j].by \in Agents
  /\ status[job[j].of] \notin {"NONE", "REQUESTED"}

JobsPlaced ==
  \A j \in Jobs :
    /\ job[j].state # "NONE" \/ job[j].confirmed \/ recording[j] # None => Placed(j)
    /\ job[j].state = "NONE" => ~job[j].confirmed

(* What a transaction read under the booking's lock is still so.           *)
AssignHolds ==
  \A b \in Bookings, a \in Agents :
    held[b] \in {Assigning(a), Checked(a)} => status[b] = "CONFIRMED" /\ ~Busy(b)

CheckHolds ==
  \A b \in Bookings, a \in Agents : held[b] = Checked(a) =>
    /\ ~Conflicting(a, b)
    /\ \A c \in Bookings : held[c] = Checked(a) => c = b

ConfirmHolds ==
  \A b \in Bookings, j \in Jobs : held[b] = Confirming(j) =>
    /\ status[b] = "IN_PROGRESS"
    /\ job[j].of = b
    /\ job[j].state = "ARRIVED"
    /\ job[j].asked
    /\ ChecksPass(j)

DispatchInv ==
  /\ RowsTyped
  /\ JobsPlaced
  /\ AssignHolds
  /\ CheckHolds
  /\ ConfirmHolds
  /\ NoDoubleWork
  /\ ConfirmedPassed

(* Captured money that a draft has seen or a batch has taken stays that of *)
(* a completed booking, and a refund in flight knows its batch.            *)
Settleable(p) ==
  /\ payment[p] \in {"CAPTURED"} \cup RefundStatus
  /\ pays[p] \in Bookings
  /\ status[pays[p]] = "COMPLETED"

DraftsKnown == \A p \in draft : entry[p] = None /\ Settleable(p)
RefundsKnown ==
  \A p \in Payments : refund[p] # "idle" =>
    /\ payment[p] = "CAPTURED"
    /\ refund[p] = "paid out" => PaidOut(p)
PaymentsPlaced == \A p \in Payments : payment[p] # "NONE" => pays[p] \in Bookings
EntriesKnown == \A p \in Payments : entry[p] # None => Settleable(p)

MoneyInv ==
  /\ MoneyTyped
  /\ PaymentsPlaced
  /\ DraftsKnown
  /\ EntriesKnown
  /\ RefundsKnown
  /\ RecoveryJustified

SettlementInv == DispatchInv /\ MoneyInv
-----------------------------------------------------------------------------
(* A booking is held by one transaction at one control point.              *)
LEMMA HoldsDiffer ==
  /\ \A a : Assigning(a) # Free /\ Checked(a) # Free /\ Confirming(a) # Free
  /\ \A a, c : Assigning(a) # Checked(c) /\ Assigning(a) # Confirming(c) /\ Checked(a) # Confirming(c)
  /\ \A a, c : Assigning(a) = Assigning(c) \/ Checked(a) = Checked(c) \/ Confirming(a) = Confirming(c) => a = c
BY DEF Assigning, Checked, Confirming, Free

(* The rows an assignment can be.                                          *)
LEMMA JobTypes ==
  /\ NoJob \in JobRows
  /\ \A b \in Bookings, a \in Agents :
       /\ Assigned(b, a) \in JobRows
       /\ Assigned(b, a).state = "ASSIGNED" /\ Assigned(b, a).of = b /\ Assigned(b, a).by = a
       /\ ~Assigned(b, a).asked /\ ~Assigned(b, a).confirmed
<1>1. NoJob \in JobRows
  BY DEF NoJob, JobRows, JobStatus
<1>2. ASSUME NEW b \in Bookings, NEW a \in Agents PROVE Assigned(b, a) \in JobRows
  BY DEF Assigned, JobRows, JobStatus
<1>3. ASSUME NEW b \in Bookings, NEW a \in Agents
      PROVE  /\ Assigned(b, a).state = "ASSIGNED" /\ Assigned(b, a).of = b /\ Assigned(b, a).by = a
             /\ ~Assigned(b, a).asked /\ ~Assigned(b, a).confirmed
  BY DEF Assigned
<1> QED BY <1>1, <1>2, <1>3

LEMMA HoldTypes ==
  /\ Free \in Holds
  /\ \A a \in Agents : Assigning(a) \in Holds /\ Checked(a) \in Holds
  /\ \A j \in Jobs : Confirming(j) \in Holds
BY DEF Holds

(* A dispatch transition moves an assignment that is at work.              *)
LEMMA MovesForward ==
  ASSUME NEW state \in JobStatus, NEW to \in JobStatus,
         <<state, to>> \in AllowedTransitions
  PROVE  to # "NONE" /\ state \in AtWork
BY DEF AllowedTransitions, JobStatus, AtWork

LEMMA FulfilsForward ==
  ASSUME NEW from, NEW to, <<from, to>> \in AllowedFrom
  PROVE  from \notin {"NONE", "COMPLETED"} /\ to \in BookingStatus \ {"NONE", "REQUESTED"}
BY DEF AllowedFrom, BookingStatus

(* At first nothing exists.                                                *)
LEMMA InitDispatch == DispatchInit => DispatchInv
<1> SUFFICES ASSUME DispatchInit PROVE DispatchInv
  OBVIOUS
<1>1. RowsTyped
  BY JobTypes, HoldTypes DEF DispatchInit, RowsTyped, BookingStatus
<1>2. \A j \in Jobs : job[j].state = "NONE" /\ ~job[j].confirmed /\ recording[j] = None
  BY DEF DispatchInit, NoJob
<1>3. JobsAtWork = {}
  BY <1>2 DEF JobsAtWork, AtWork
<1>4. \A b \in Bookings : held[b] = Free
  BY DEF DispatchInit
<1>5. JobsPlaced
  BY <1>2 DEF JobsPlaced
<1>6. AssignHolds /\ CheckHolds /\ ConfirmHolds
  BY <1>4, HoldsDiffer DEF AssignHolds, CheckHolds, ConfirmHolds
<1>7. NoDoubleWork /\ ConfirmedPassed
  BY <1>2, <1>3 DEF NoDoubleWork, ConfirmedPassed
<1> QED BY <1>1, <1>5, <1>6, <1>7 DEF DispatchInv

-----------------------------------------------------------------------------
(* Every action of the bookings keeps the rows in shape.                   *)
LEMMA RowsStep ==
  ASSUME RowsTyped, JobsPlaced, DispatchNext
  PROVE  RowsTyped'
<1> USE DEF RowsTyped
<1>1. ASSUME NEW b \in Bookings, BookingStep(b) PROVE RowsTyped'
  <2>1. ASSUME NEW s \in Slots, CreateBooking(b, s) PROVE RowsTyped'
    BY <2>1 DEF CreateBooking, BookingStatus
  <2>2. ASSUME NEW s \in Slots, ProposeTime(b, s) PROVE RowsTyped'
    BY <2>2 DEF ProposeTime
  <2>3. ASSUME NEW to \in BookingStatus, Fulfil(b, to) PROVE RowsTyped'
    BY <2>3 DEF Fulfil
  <2>4. CASE CancelBooking(b)
    BY <2>4 DEF CancelBooking, BookingStatus
  <2>5. ASSUME NEW accepted \in BOOLEAN, RespondToProposal(b, accepted) PROVE RowsTyped'
    BY <2>5 DEF RespondToProposal
  <2> QED BY <1>1, <2>1, <2>2, <2>3, <2>4, <2>5 DEF BookingStep
<1>2. ASSUME NEW b \in Bookings, NEW a \in Agents, AssignStep(b, a) PROVE RowsTyped'
  <2>1. ASSUME NEW j \in Jobs, AssignCommits(b, a, j) PROVE RowsTyped'
    BY <2>1, JobTypes, HoldTypes DEF AssignCommits
  <2>2. CASE AssignLocks(b, a) \/ AssignChecks(b, a) \/ AssignRefused(b, a)
    BY <2>2, HoldTypes DEF AssignLocks, AssignChecks, AssignRefused
  <2> QED BY <1>2, <2>1, <2>2 DEF AssignStep
<1>3. ASSUME NEW a \in Agents, AgentStep(a) PROVE RowsTyped'
  BY <1>3 DEF AgentStep, LeaveLooks, LeaveCommits, Rejoin
<1>4. ASSUME NEW j \in Jobs, JobStep(j) PROVE RowsTyped'
  <2>0. job[j] \in JobRows
    OBVIOUS
  <2>1. ASSUME NEW to \in JobStatus, MoveJob(j, to) PROVE RowsTyped'
    BY <2>0, <2>1 DEF MoveJob, JobRows
  <2>2. CASE StartByAgent(j)
    <3>1. Placed(j)
      BY <2>2 DEF StartByAgent, Arrived, JobsPlaced
    <3> QED BY <2>2, <3>1 DEF StartByAgent, BookingStatus, Placed
  <2>3. CASE RequestCompletion(j)
    BY <2>0, <2>3 DEF RequestCompletion, JobRows
  <2>4. ASSUME NEW verdict \in Verdicts, RecordReads(j, verdict) PROVE RowsTyped'
    BY <2>4 DEF RecordReads
  <2>5. CASE RecordCommits(j)
    <3>1. recording[j] \in Verdicts
      BY <2>5 DEF RecordCommits
    <3> QED BY <2>0, <2>5, <3>1 DEF RecordCommits, JobRows
  <2>6. CASE RecordRefused(j)
    BY <2>6 DEF RecordRefused
  <2>7. ASSUME NEW b \in Bookings, ConfirmChecks(b, j) PROVE RowsTyped'
    BY <2>7, HoldTypes DEF ConfirmChecks
  <2>8. ASSUME NEW b \in Bookings, ConfirmCommits(b, j) PROVE RowsTyped'
    <3>1. [job[j] EXCEPT !.state = "RELEASED", !.confirmed = TRUE] \in JobRows
      BY <2>0 DEF JobRows, JobStatus
    <3> QED BY <2>8, <3>1, HoldTypes DEF ConfirmCommits, BookingStatus
  <2> QED BY <1>4, <2>1, <2>2, <2>3, <2>4, <2>5, <2>6, <2>7, <2>8 DEF JobStep
<1> QED BY <1>1, <1>2, <1>3, <1>4 DEF DispatchNext

-----------------------------------------------------------------------------
(* A step that only moves one booking: its status when no transaction      *)
(* holds it, its time while it is not confirmed.                           *)
LEMMA BookingMoves ==
  ASSUME DispatchInv, RowsTyped', NEW b \in Bookings,
         UNCHANGED <<job, recording, held>>,
         \A c \in Bookings : c # b => status'[c] = status[c] /\ slot'[c] = slot[c],
         \/ status'[b] = status[b]
         \/ status[b] = "NONE"
         \/ /\ held[b] = Free
            /\ status[b] # "COMPLETED"
            /\ status'[b] \notin {"NONE", "REQUESTED"},
         status[b] \in {"NONE", "REQUESTED"} \/ slot'[b] = slot[b]
  PROVE  DispatchInv'
<1> USE DEF DispatchInv
<1>0. JobsAtWork' = JobsAtWork /\ (\A c : Busy(c)' <=> Busy(c))
  BY DEF JobsAtWork, Busy
<1>1. ASSUME NEW j \in Jobs, Placed(j)
      PROVE  Placed(j)' /\ slot'[job[j].of] = slot[job[j].of]
  BY <1>1 DEF Placed
<1>2. JobsPlaced'
  BY <1>1 DEF JobsPlaced
<1>3. \A j \in JobsAtWork : Placed(j)
  BY DEF JobsPlaced, JobsAtWork, AtWork
<1>4. ASSUME NEW c \in Bookings, status[c] \in {"CONFIRMED", "IN_PROGRESS", "COMPLETED"},
             c # b \/ held[b] # Free \/ status[b] = "COMPLETED"
      PROVE  status'[c] = status[c] /\ slot'[c] = slot[c]
  BY <1>4
<1>5. AssignHolds'
  BY <1>0, <1>4, HoldsDiffer DEF AssignHolds
<1>6. CheckHolds'
  <2> SUFFICES ASSUME NEW c \in Bookings, NEW a \in Agents, held[c] = Checked(a)
               PROVE  /\ ~Conflicting(a, c)'
                      /\ \A d \in Bookings : held[d] = Checked(a) => d = c
    BY DEF CheckHolds
  <2>1. slot'[c] = slot[c]
    BY <1>4, HoldsDiffer DEF AssignHolds
  <2>2. ~Conflicting(a, c)
    BY DEF CheckHolds
  <2>3. ~Conflicting(a, c)'
    BY <2>1, <2>2, <1>0, <1>1, <1>3 DEF Conflicting, JobsAtWork
  <2> QED BY <2>3 DEF CheckHolds
<1>7. ConfirmHolds'
  BY <1>4, HoldsDiffer DEF ConfirmHolds, ChecksPass
<1>8. NoDoubleWork'
  BY <1>0, <1>1, <1>3 DEF NoDoubleWork, JobsAtWork
<1>9. ConfirmedPassed'
  <2> SUFFICES ASSUME NEW j \in Jobs, job[j].confirmed
               PROVE  status'[job[j].of] = "COMPLETED" /\ job[j].state = "RELEASED" /\ job[j].asked /\ ChecksPass(j)
    BY DEF ConfirmedPassed, ChecksPass
  <2>1. status[job[j].of] = "COMPLETED" /\ job[j].of \in Bookings
    BY DEF ConfirmedPassed, JobsPlaced, Placed
  <2> QED BY <2>1, <1>4 DEF ConfirmedPassed
<1> QED BY <1>2, <1>5, <1>6, <1>7, <1>8, <1>9

(* A step that only takes or gives back a booking's lock.                  *)
LEMMA HoldMoves ==
  ASSUME DispatchInv, RowsTyped', NEW b \in Bookings,
         UNCHANGED <<status, slot, job, recording>>,
         \A c \in Bookings : c # b => held'[c] = held[c],
         \/ held'[b] = Free
         \/ \E a \in Agents :
              /\ held'[b] = Assigning(a)
              /\ status[b] = "CONFIRMED"
              /\ ~Busy(b)
         \/ \E a \in Agents :
              /\ held'[b] = Checked(a)
              /\ held[b] = Assigning(a)
              /\ AgentFree(a)
              /\ ~Conflicting(a, b)
         \/ \E j \in Jobs :
              /\ held'[b] = Confirming(j)
              /\ status[b] = "IN_PROGRESS"
              /\ job[j].of = b /\ job[j].state = "ARRIVED" /\ job[j].asked
              /\ ChecksPass(j)
  PROVE  DispatchInv'
<1> USE DEF DispatchInv
<1>0. /\ JobsAtWork' = JobsAtWork
      /\ \A c : Busy(c)' <=> Busy(c)
      /\ \A a, c : Conflicting(a, c)' <=> Conflicting(a, c)
      /\ \A j : ChecksPass(j)' <=> ChecksPass(j)
  BY DEF JobsAtWork, Busy, Conflicting, ChecksPass
<1>1. JobsPlaced' /\ NoDoubleWork' /\ ConfirmedPassed'
  BY <1>0 DEF JobsPlaced, Placed, NoDoubleWork, ConfirmedPassed, JobsAtWork
<1>2. AssignHolds'
  BY <1>0, HoldsDiffer DEF AssignHolds
<1>3. CheckHolds'
  BY <1>0, HoldsDiffer DEF CheckHolds, AgentFree
<1>4. ConfirmHolds'
  BY <1>0, HoldsDiffer DEF ConfirmHolds
<1> QED BY <1>1, <1>2, <1>3, <1>4

(* A step that only changes one assignment: one that no confirmation has   *)
(* locked, or nothing that a confirmation reads.                           *)
LEMMA JobMoves ==
  ASSUME DispatchInv, RowsTyped', NEW j \in Jobs,
         UNCHANGED <<status, slot, held>>,
         \A i \in Jobs : i # j => job'[i] = job[i],
         \A i \in Jobs : recording'[i] # None => recording[i] # None \/ job[i].state # "NONE",
         job'[j].of = job[j].of, job'[j].by = job[j].by,
         job'[j].confirmed <=> job[j].confirmed,
         job'[j].state = "NONE" <=> job[j].state = "NONE",
         job'[j].state \in AtWork => job[j].state \in AtWork,
         \/ /\ JobFree(j)
            /\ ~job[j].confirmed
         \/ /\ job'[j].state = job[j].state
            /\ job'[j].asked <=> job[j].asked
            /\ job'[j].check = job[j].check
  PROVE  DispatchInv'
<1> USE DEF DispatchInv
<1>0. /\ JobsAtWork' \subseteq JobsAtWork
      /\ \A i \in Jobs : job'[i].of = job[i].of /\ job'[i].by = job[i].by
  BY DEF JobsAtWork
<1>1. JobsPlaced'
  BY <1>0 DEF JobsPlaced, Placed
<1>2. ASSUME NEW c, Busy(c)' PROVE Busy(c)
  BY <1>0, <1>2 DEF Busy, JobsAtWork
<1>3. ASSUME NEW a, NEW c, Conflicting(a, c)' PROVE Conflicting(a, c)
  BY <1>0, <1>3 DEF Conflicting, JobsAtWork
<1>4. AssignHolds'
  BY <1>2 DEF AssignHolds
<1>5. CheckHolds'
  BY <1>3 DEF CheckHolds
<1>6. ConfirmHolds'
  <2> SUFFICES ASSUME NEW b \in Bookings, NEW i \in Jobs, held[b] = Confirming(i)
               PROVE  /\ status[b] = "IN_PROGRESS"
                      /\ job'[i].of = b /\ job'[i].state = "ARRIVED" /\ job'[i].asked
                      /\ ChecksPass(i)'
    BY DEF ConfirmHolds
  <2>1. ConfirmHolds
    OBVIOUS
  <2>2. CASE i # j
    BY <2>1, <2>2 DEF ConfirmHolds, ChecksPass
  <2>3. CASE i = j
    BY <2>1, <2>3 DEF ConfirmHolds, ChecksPass, JobFree
  <2> QED BY <2>2, <2>3
<1>7. NoDoubleWork'
  BY <1>0 DEF NoDoubleWork, JobsAtWork
<1>8. ConfirmedPassed'
  BY DEF ConfirmedPassed, ChecksPass
<1> QED BY <1>1, <1>4, <1>5, <1>6, <1>7, <1>8

-----------------------------------------------------------------------------
(* An assignment is inserted for a booking and an agent that are both      *)
(* locked, so neither is at work elsewhere at that time.                   *)
LEMMA AssignCommitsKeeps ==
  ASSUME DispatchInv, RowsTyped', DispatchAssumption,
         NEW b \in Bookings, NEW a \in Agents, NEW j \in Jobs, AssignCommits(b, a, j)
  PROVE  DispatchInv'
<1> USE DEF DispatchInv
<1>1. /\ held[b] = Checked(a) /\ job[j].state = "NONE"
      /\ UNCHANGED <<status, slot, proposal, active, leaving, recording>>
  BY DEF AssignCommits
<1>2. /\ job'[j] = Assigned(b, a) /\ \A i \in Jobs : i # j => job'[i] = job[i]
      /\ held'[b] = Free /\ \A c \in Bookings : c # b => held'[c] = held[c]
  BY DEF AssignCommits, RowsTyped
<1>3. job'[j].state = "ASSIGNED" /\ job'[j].of = b /\ job'[j].by = a /\ ~job'[j].confirmed
  BY <1>2, JobTypes
<1>4. JobsAtWork' = JobsAtWork \cup {j} /\ j \notin JobsAtWork
  BY <1>1, <1>2, <1>3 DEF JobsAtWork, AtWork
<1>5. status[b] = "CONFIRMED" /\ ~Busy(b) /\ ~Conflicting(a, b)
  BY <1>1 DEF AssignHolds, CheckHolds
<1>6. \A i \in JobsAtWork : job'[i] = job[i] /\ Placed(i)
  BY <1>2, <1>4 DEF JobsPlaced, JobsAtWork, AtWork
<1>7. JobsPlaced'
  BY <1>1, <1>2, <1>3, <1>5 DEF JobsPlaced, Placed
<1>8. AssignHolds'
  BY <1>1, <1>2, <1>3, <1>4, <1>6, HoldsDiffer DEF AssignHolds, Busy
<1>9. CheckHolds'
  <2> SUFFICES ASSUME NEW c \in Bookings, NEW d \in Agents, held'[c] = Checked(d)
               PROVE  /\ ~Conflicting(d, c)'
                      /\ \A e \in Bookings : held'[e] = Checked(d) => e = c
    BY DEF CheckHolds
  <2>1. c # b /\ held[c] = Checked(d)
    BY <1>2, HoldsDiffer
  <2>2. d # a
    BY <1>1, <2>1 DEF CheckHolds
  <2>3. ~Conflicting(d, c)
    BY <2>1 DEF CheckHolds
  <2>4. ~Conflicting(d, c)'
    BY <1>1, <1>3, <1>4, <1>6, <2>2, <2>3 DEF Conflicting
  <2> QED BY <1>2, <2>1, <2>4, HoldsDiffer DEF CheckHolds
<1>10. ConfirmHolds'
  <2> SUFFICES ASSUME NEW c \in Bookings, NEW i \in Jobs, held'[c] = Confirming(i)
               PROVE  /\ status[c] = "IN_PROGRESS"
                      /\ job'[i].of = c /\ job'[i].state = "ARRIVED" /\ job'[i].asked
                      /\ ChecksPass(i)'
    BY <1>1 DEF ConfirmHolds
  <2>1. c # b /\ held[c] = Confirming(i)
    BY <1>2, HoldsDiffer
  <2>2. i # j
    BY <1>1, <2>1 DEF ConfirmHolds
  <2> QED BY <1>2, <2>1, <2>2 DEF ConfirmHolds, ChecksPass
<1>11. NoDoubleWork'
  <2> SUFFICES ASSUME NEW i \in JobsAtWork', NEW k \in JobsAtWork', i # k
               PROVE  /\ job'[i].of # job'[k].of
                      /\ job'[i].by = job'[k].by => <<slot[job'[i].of], slot[job'[k].of]>> \notin Clashing
    BY <1>1 DEF NoDoubleWork
  <2>1. CASE i # j /\ k # j
    BY <2>1, <1>4, <1>6 DEF NoDoubleWork
  <2>2. CASE k = j
    BY <2>2, <1>3, <1>4, <1>5, <1>6 DEF Busy, Conflicting
  <2>3. CASE i = j
    <3>1. k \in JobsAtWork /\ job'[k] = job[k] /\ job[k].of \in Bookings
      BY <2>3, <1>4, <1>6 DEF Placed
    <3>2. job[k].of # b /\ (job[k].by = a => <<slot[job[k].of], slot[b]>> \notin Clashing)
      BY <3>1, <1>5 DEF Busy, Conflicting
    <3>3. <<slot[b], slot[job[k].of]>> \in Clashing => <<slot[job[k].of], slot[b]>> \in Clashing
      BY DispatchAssumption DEF DispatchAssumption
    <3> QED BY <2>3, <3>1, <3>2, <3>3, <1>3
  <2> QED BY <2>1, <2>2, <2>3
<1>12. ConfirmedPassed'
  <2> SUFFICES ASSUME NEW i \in Jobs, job'[i].confirmed
               PROVE  /\ status[job'[i].of] = "COMPLETED"
                      /\ job'[i].state = "RELEASED" /\ job'[i].asked /\ ChecksPass(i)'
    BY <1>1 DEF ConfirmedPassed
  <2>1. i # j
    BY <1>3
  <2> QED BY <1>2, <2>1 DEF ConfirmedPassed, ChecksPass
<1> QED BY <1>7, <1>8, <1>9, <1>10, <1>11, <1>12

(* A confirmation completes the booking and the job it has locked.         *)
LEMMA ConfirmCommitsKeeps ==
  ASSUME DispatchInv, RowsTyped', NEW b \in Bookings, NEW j \in Jobs, ConfirmCommits(b, j)
  PROVE  DispatchInv'
<1> USE DEF DispatchInv
<1>1. /\ held[b] = Confirming(j)
      /\ status[b] = "IN_PROGRESS" /\ job[j].of = b /\ job[j].state = "ARRIVED"
      /\ job[j].asked /\ ChecksPass(j)
      /\ UNCHANGED <<slot, recording>>
  BY DEF ConfirmCommits, ConfirmHolds
<1>2. /\ \A i \in Jobs : i # j => job'[i] = job[i]
      /\ held'[b] = Free /\ \A c \in Bookings : c # b => held'[c] = held[c]
      /\ status'[b] = "COMPLETED" /\ \A c \in Bookings : c # b => status'[c] = status[c]
  BY DEF ConfirmCommits, RowsTyped
<1>3. job'[j] = [job[j] EXCEPT !.state = "RELEASED", !.confirmed = TRUE] /\ job[j] \in JobRows
  BY DEF ConfirmCommits, RowsTyped
<1>4. /\ job'[j].state = "RELEASED" /\ job'[j].confirmed
      /\ job'[j].of = b /\ job'[j].by = job[j].by
      /\ job'[j].asked = job[j].asked /\ job'[j].check = job[j].check
  BY <1>1, <1>3 DEF JobRows
<1>5. JobsAtWork' \subseteq JobsAtWork /\ \A i \in JobsAtWork' : job'[i] = job[i]
  BY <1>2, <1>4 DEF JobsAtWork, AtWork
<1>6. JobsPlaced'
  BY <1>1, <1>2, <1>4 DEF JobsPlaced, Placed
<1>7. AssignHolds'
  BY <1>2, <1>5, HoldsDiffer DEF AssignHolds, Busy
<1>8. CheckHolds'
  <2>1. ASSUME NEW c \in Bookings, NEW a \in Agents, Conflicting(a, c)'
        PROVE  Conflicting(a, c)
    BY <1>1, <1>5, <2>1 DEF Conflicting
  <2>2. ASSUME NEW c \in Bookings, NEW a \in Agents, held'[c] = Checked(a)
        PROVE  held[c] = Checked(a)
    BY <1>2, <2>2, HoldsDiffer
  <2> QED BY <2>1, <2>2 DEF CheckHolds
<1>9. ConfirmHolds'
  <2> SUFFICES ASSUME NEW c \in Bookings, NEW i \in Jobs, held'[c] = Confirming(i)
               PROVE  /\ status'[c] = "IN_PROGRESS"
                      /\ job'[i].of = c /\ job'[i].state = "ARRIVED" /\ job'[i].asked
                      /\ ChecksPass(i)'
    BY DEF ConfirmHolds
  <2>1. c # b /\ held[c] = Confirming(i)
    BY <1>2, HoldsDiffer
  <2>2. i # j
    BY <1>1, <2>1 DEF ConfirmHolds
  <2> QED BY <1>2, <2>1, <2>2 DEF ConfirmHolds, ChecksPass
<1>10. NoDoubleWork'
  BY <1>1, <1>5 DEF NoDoubleWork
<1>11. ConfirmedPassed'
  <2> SUFFICES ASSUME NEW i \in Jobs, job'[i].confirmed
               PROVE  /\ status'[job'[i].of] = "COMPLETED"
                      /\ job'[i].state = "RELEASED" /\ job'[i].asked /\ ChecksPass(i)'
    BY DEF ConfirmedPassed
  <2>1. CASE i = j
    BY <1>1, <1>2, <1>4, <2>1 DEF ChecksPass
  <2>2. CASE i # j
    BY <1>2, <2>2 DEF ConfirmedPassed, ChecksPass, JobsPlaced, Placed
  <2> QED BY <2>1, <2>2
<1> QED BY <1>6, <1>7, <1>8, <1>9, <1>10, <1>11

-----------------------------------------------------------------------------
(* Every action of the bookings keeps their invariant.                     *)
LEMMA DispatchStep ==
  ASSUME DispatchInv, DispatchNext, DispatchAssumption
  PROVE  DispatchInv'
<1>0. RowsTyped'
  BY RowsStep DEF DispatchInv
<1> USE DEF RowsTyped
<1>t. RowsTyped /\ JobsPlaced /\ ConfirmHolds /\ AssignHolds /\ ConfirmedPassed
  BY DEF DispatchInv
<1>n. \A b \in Bookings : status[b] = "NONE" => status[b] # "COMPLETED"
  OBVIOUS
<1>1. ASSUME NEW b \in Bookings, BookingStep(b) PROVE DispatchInv'
  <2>1. ASSUME NEW s \in Slots, CreateBooking(b, s) PROVE DispatchInv'
    BY <1>0, <1>t, <2>1, BookingMoves DEF CreateBooking
  <2>2. ASSUME NEW s \in Slots, ProposeTime(b, s) PROVE DispatchInv'
    BY <1>0, <1>t, <2>2, BookingMoves DEF ProposeTime
  <2>3. ASSUME NEW to \in BookingStatus, Fulfil(b, to) PROVE DispatchInv'
    <3>1. held[b] = Free /\ status[b] # "COMPLETED" /\ status'[b] \notin {"NONE", "REQUESTED"}
      BY <1>t, <2>3, FulfilsForward DEF Fulfil, BookingFree
    <3> QED BY <1>0, <1>t, <2>3, <3>1, BookingMoves DEF Fulfil
  <2>4. CASE CancelBooking(b)
    <3>1. held[b] = Free /\ status[b] # "COMPLETED" /\ status'[b] = "CANCELLED"
      BY <1>t, <2>4 DEF CancelBooking, BookingFree
    <3> QED BY <1>0, <1>t, <2>4, <3>1, BookingMoves DEF CancelBooking
  <2>5. ASSUME NEW accepted \in BOOLEAN, RespondToProposal(b, accepted) PROVE DispatchInv'
    BY <1>0, <1>t, <2>5, BookingMoves DEF RespondToProposal
  <2> QED BY <1>1, <2>1, <2>2, <2>3, <2>4, <2>5 DEF BookingStep
<1>2. ASSUME NEW b \in Bookings, NEW a \in Agents, AssignStep(b, a) PROVE DispatchInv'
  <2>1. CASE AssignLocks(b, a)
    BY <1>0, <1>t, <2>1, HoldMoves DEF AssignLocks
  <2>2. CASE AssignChecks(b, a)
    BY <1>0, <1>t, <2>2, HoldMoves DEF AssignChecks
  <2>3. CASE AssignRefused(b, a)
    BY <1>0, <1>t, <2>3, HoldMoves DEF AssignRefused
  <2>4. ASSUME NEW j \in Jobs, AssignCommits(b, a, j) PROVE DispatchInv'
    BY <1>0, <2>4, AssignCommitsKeeps
  <2> QED BY <1>2, <2>1, <2>2, <2>3, <2>4 DEF AssignStep
<1>3. ASSUME NEW a \in Agents, AgentStep(a) PROVE DispatchInv'
  <2>1. UNCHANGED <<status, slot, job, recording, held>>
    BY <1>3 DEF AgentStep, LeaveLooks, LeaveCommits, Rejoin
  <2>2. JobsPlaced' /\ AssignHolds' /\ CheckHolds' /\ ConfirmHolds' /\ NoDoubleWork' /\ ConfirmedPassed'
    BY <2>1 DEF DispatchInv, JobsPlaced, Placed, AssignHolds, CheckHolds, ConfirmHolds,
       NoDoubleWork, ConfirmedPassed, ChecksPass, Busy, Conflicting, JobsAtWork
  <2> QED BY <1>0, <2>2 DEF DispatchInv
<1>4. ASSUME NEW j \in Jobs, JobStep(j) PROVE DispatchInv'
  <2>0. job[j] \in JobRows
    BY <1>t
  <2>1. ASSUME NEW to \in JobStatus, MoveJob(j, to) PROVE DispatchInv'
    <3>1. /\ job'[j] = [job[j] EXCEPT !.state = to]
          /\ \A i \in Jobs : i # j => job'[i] = job[i]
          /\ JobFree(j) /\ UNCHANGED <<status, slot, held, recording>>
      BY <1>t, <2>1 DEF MoveJob
    <3>2. to # "NONE" /\ job[j].state \in AtWork
      BY <2>0, <2>1, MovesForward DEF MoveJob, JobRows
    <3>3. /\ job'[j].state = to /\ job'[j].of = job[j].of /\ job'[j].by = job[j].by
          /\ job'[j].confirmed = job[j].confirmed
      BY <2>0, <3>1 DEF JobRows
    <3>4. ~job[j].confirmed /\ job[j].state # "NONE"
      BY <1>t, <3>2 DEF ConfirmedPassed, AtWork
    <3> QED BY <1>0, <3>1, <3>2, <3>3, <3>4, JobMoves
  <2>2. CASE StartByAgent(j)
    <3>1. job[j].of \in Bookings
      BY <1>t, <2>2 DEF StartByAgent, Arrived, JobsPlaced, Placed
    <3>2. status'[job[j].of] = "IN_PROGRESS" /\ held[job[j].of] = Free /\ status[job[j].of] = "CONFIRMED"
      BY <1>t, <2>2, <3>1 DEF StartByAgent, BookingFree
    <3> QED BY <1>0, <1>t, <2>2, <3>1, <3>2, BookingMoves DEF StartByAgent
  <2>3. CASE RequestCompletion(j)
    <3>1. /\ job'[j] = [job[j] EXCEPT !.asked = TRUE]
          /\ \A i \in Jobs : i # j => job'[i] = job[i]
          /\ JobFree(j) /\ job[j].state = "ARRIVED"
          /\ UNCHANGED <<status, slot, held, recording>>
      BY <1>t, <2>3 DEF RequestCompletion, Arrived
    <3>2. /\ job'[j].state = job[j].state /\ job'[j].of = job[j].of /\ job'[j].by = job[j].by
          /\ job'[j].confirmed = job[j].confirmed
      BY <2>0, <3>1 DEF JobRows
    <3>3. ~job[j].confirmed
      BY <1>t, <3>1 DEF ConfirmedPassed
    <3> QED BY <1>0, <3>1, <3>2, <3>3, JobMoves
  <2>4. ASSUME NEW verdict \in Verdicts, RecordReads(j, verdict) PROVE DispatchInv'
    <3>1. \A i \in Jobs : recording'[i] # None => recording[i] # None \/ job[i].state # "NONE"
      BY <1>t, <2>4 DEF RecordReads, Arrived
    <3> QED BY <1>0, <2>4, <3>1, JobMoves DEF RecordReads
  <2>5. CASE RecordCommits(j)
    <3>1. /\ job'[j] = [job[j] EXCEPT !.check = recording[j]]
          /\ \A i \in Jobs : i # j => job'[i] = job[i]
          /\ \A i \in Jobs : recording'[i] # None => recording[i] # None
          /\ held[job[j].of] = Free /\ status[job[j].of] = "IN_PROGRESS"
          /\ UNCHANGED <<status, slot, held>>
      BY <1>t, <2>5 DEF RecordCommits, BookingFree
    <3>2. /\ job'[j].state = job[j].state /\ job'[j].of = job[j].of /\ job'[j].by = job[j].by
          /\ job'[j].confirmed = job[j].confirmed
      BY <2>0, <3>1 DEF JobRows
    <3>3. ~job[j].confirmed
      BY <1>t, <3>1 DEF ConfirmedPassed
    <3>4. JobFree(j)
      BY <1>t, <3>1, HoldsDiffer DEF JobFree, ConfirmHolds
    <3> QED BY <1>0, <3>1, <3>2, <3>3, <3>4, JobMoves
  <2>6. CASE RecordRefused(j)
    <3>1. \A i \in Jobs : recording'[i] # None => recording[i] # None
      BY <1>t, <2>6 DEF RecordRefused
    <3> QED BY <1>0, <2>6, <3>1, JobMoves DEF RecordRefused
  <2>7. ASSUME NEW b \in Bookings, ConfirmChecks(b, j) PROVE DispatchInv'
    BY <1>0, <1>t, <2>7, HoldMoves DEF ConfirmChecks
  <2>8. ASSUME NEW b \in Bookings, ConfirmCommits(b, j) PROVE DispatchInv'
    BY <1>0, <2>8, ConfirmCommitsKeeps
  <2> QED BY <1>4, <2>1, <2>2, <2>3, <2>4, <2>5, <2>6, <2>7, <2>8 DEF JobStep
<1> QED BY <1>1, <1>2, <1>3, <1>4 DEF DispatchNext

-----------------------------------------------------------------------------
(* Nothing moves a completed booking.                                      *)
LEMMA FinishedStays ==
  ASSUME DispatchInv, DispatchNext, NEW c \in Bookings, status[c] = "COMPLETED"
  PROVE  status'[c] = "COMPLETED"
<1>t. RowsTyped /\ ConfirmHolds
  BY DEF DispatchInv
<1> USE DEF RowsTyped
<1>1. ASSUME NEW b \in Bookings, BookingStep(b) PROVE status'[c] = "COMPLETED"
  <2>1. ASSUME NEW to \in BookingStatus, Fulfil(b, to) PROVE status'[c] = "COMPLETED"
    BY <1>t, <2>1, FulfilsForward DEF Fulfil
  <2>2. ASSUME NEW s \in Slots, CreateBooking(b, s) \/ ProposeTime(b, s)
        PROVE  status'[c] = "COMPLETED"
    BY <1>t, <2>2 DEF CreateBooking, ProposeTime
  <2>3. CASE CancelBooking(b)
    BY <1>t, <2>3 DEF CancelBooking
  <2>4. ASSUME NEW accepted \in BOOLEAN, RespondToProposal(b, accepted)
        PROVE  status'[c] = "COMPLETED"
    BY <2>4 DEF RespondToProposal
  <2> QED BY <1>1, <2>1, <2>2, <2>3, <2>4 DEF BookingStep
<1>2. ASSUME NEW b \in Bookings, NEW a \in Agents, AssignStep(b, a) PROVE status' = status
  BY <1>2 DEF AssignStep, AssignLocks, AssignChecks, AssignRefused, AssignCommits
<1>3. ASSUME NEW a \in Agents, AgentStep(a) PROVE status' = status
  BY <1>3 DEF AgentStep, LeaveLooks, LeaveCommits, Rejoin
<1>4. ASSUME NEW j \in Jobs, JobStep(j) PROVE status'[c] = "COMPLETED"
  <2>1. CASE StartByAgent(j)
    BY <1>t, <2>1 DEF StartByAgent
  <2>2. ASSUME NEW b \in Bookings, ConfirmCommits(b, j) PROVE status'[c] = "COMPLETED"
    BY <1>t, <2>2 DEF ConfirmCommits
  <2>3. ASSUME status' # status PROVE StartByAgent(j) \/ \E b \in Bookings : ConfirmCommits(b, j)
    BY <1>4, <2>3 DEF JobStep, MoveJob, RequestCompletion, RecordReads, RecordCommits,
       RecordRefused, ConfirmChecks
  <2> QED BY <2>1, <2>2, <2>3
<1> QED BY <1>1, <1>2, <1>3, <1>4 DEF DispatchNext

(* The settlement never touches the rows of ServiceDispatch.               *)
LEMMA DispatchStays ==
  ASSUME DispatchInv, UNCHANGED dispatchVars
  PROVE  DispatchInv'
BY DEF dispatchVars, DispatchInv, RowsTyped, JobsPlaced, Placed, AssignHolds, CheckHolds,
   ConfirmHolds, NoDoubleWork, ConfirmedPassed, ChecksPass, Busy, Conflicting, JobsAtWork

LEMMA InitMoney == Init => MoneyInv
<1> SUFFICES ASSUME Init PROVE MoneyInv
  OBVIOUS
<1>1. MoneyTyped
  BY DEF Init, MoneyTyped, PaymentStatus
<1>2. PaymentsPlaced /\ DraftsKnown /\ EntriesKnown /\ RefundsKnown /\ RecoveryJustified
  BY DEF Init, PaymentsPlaced, DraftsKnown, EntriesKnown, RefundsKnown, RecoveryJustified
<1> QED BY <1>1, <1>2 DEF MoneyInv

(* A step of the bookings, or a stutter, leaves the money in order when    *)
(* it leaves completed bookings alone.                                     *)
LEMMA MoneyStays ==
  ASSUME MoneyInv, UNCHANGED moneyVars,
         \A c \in Bookings : status[c] = "COMPLETED" => status'[c] = "COMPLETED"
  PROVE  MoneyInv'
<1>1. MoneyTyped' /\ PaymentsPlaced' /\ RefundsKnown' /\ RecoveryJustified'
  BY DEF MoneyInv, moneyVars, MoneyTyped, PaymentsPlaced, RefundsKnown, RecoveryJustified, PaidOut
<1>2. \A p : Settleable(p) => Settleable(p)'
  BY DEF moneyVars, Settleable
<1>3. DraftsKnown' /\ EntriesKnown'
  BY <1>2 DEF MoneyInv, moneyVars, DraftsKnown, EntriesKnown
<1> QED BY <1>1, <1>3 DEF MoneyInv

(* A payment whose money is in or on its way back only moves on to         *)
(* refunded outside the transaction that starts the refund.                *)
LEMMA PaysForward ==
  ASSUME NEW from, NEW to, <<from, to>> \in AllowedAfter
  PROVE  /\ from \notin {"NONE", "REFUNDED"} /\ to \in PaymentStatus \ {"NONE"}
         /\ to = "REFUND_PENDING" <=> from = "CAPTURED"
         /\ from = "REFUND_PENDING" => to = "REFUNDED"
BY DEF AllowedAfter, PaymentStatus

(* Every action on a payment keeps the money's invariant.                  *)
LEMMA PaymentKeeps ==
  ASSUME MoneyInv, NEW p \in Payments, PaymentStep(p), UNCHANGED dispatchVars
  PROVE  MoneyInv'
<1>t. /\ MoneyTyped /\ PaymentsPlaced /\ DraftsKnown /\ EntriesKnown
      /\ RefundsKnown /\ RecoveryJustified
  BY DEF MoneyInv
<1>s. status' = status
  BY DEF dispatchVars
<1>1. ASSUME NEW b \in Bookings, CreateIntent(p, b) PROVE MoneyInv'
  <2>1. MoneyTyped' /\ PaymentsPlaced'
    BY <1>t, <1>1 DEF CreateIntent, MoneyTyped, PaymentsPlaced, PaymentStatus
  <2>2. p \notin draft /\ entry[p] = None /\ refund[p] = "idle" /\ recovery[p] = "NONE"
    BY <1>t, <1>1 DEF CreateIntent, DraftsKnown, EntriesKnown, Settleable, RefundsKnown,
       RecoveryJustified, RefundStatus
  <2>3. \A q \in Payments \ {p} : Settleable(q) => Settleable(q)'
    BY <1>t, <1>s, <1>1 DEF CreateIntent, MoneyTyped, Settleable
  <2>4. DraftsKnown' /\ EntriesKnown'
    BY <1>t, <1>1, <2>2, <2>3 DEF CreateIntent, DraftsKnown, EntriesKnown, MoneyTyped
  <2>5. RefundsKnown' /\ RecoveryJustified'
    BY <1>t, <1>1, <2>2 DEF CreateIntent, RefundsKnown, RecoveryJustified, PaidOut, MoneyTyped
  <2> QED BY <2>1, <2>4, <2>5 DEF MoneyInv
<1>2. ASSUME NEW to \in PaymentStatus, MovePayment(p, to) PROVE MoneyInv'
  <2>1. /\ payment'[p] = to /\ \A q \in Payments \ {p} : payment'[q] = payment[q]
        /\ payment[p] \notin {"NONE", "CAPTURED", "REFUNDED"} /\ to # "NONE"
        /\ payment[p] = "REFUND_PENDING" => to = "REFUNDED"
        /\ refund[p] = "idle"
        /\ UNCHANGED <<pays, entry, batch, recovery, refund, draft, review>>
    <3>1. /\ payment' = [payment EXCEPT ![p] = to] /\ refund[p] = "idle"
          /\ to # "REFUND_PENDING" /\ <<payment[p], to>> \in AllowedAfter
          /\ UNCHANGED <<pays, entry, batch, recovery, refund, draft, review>>
      BY <1>2 DEF MovePayment, PaymentFree
    <3>2. /\ payment[p] \notin {"NONE", "CAPTURED", "REFUNDED"} /\ to # "NONE"
          /\ payment[p] = "REFUND_PENDING" => to = "REFUNDED"
      BY <3>1, PaysForward
    <3> QED BY <1>t, <3>1, <3>2 DEF MoneyTyped
  <2>2. MoneyTyped' /\ PaymentsPlaced'
    BY <1>t, <1>2, <2>1 DEF MovePayment, MoneyTyped, PaymentsPlaced
  <2>3. \A q \in Payments : Settleable(q) => Settleable(q)'
    BY <1>s, <2>1 DEF Settleable, RefundStatus
  <2>4. DraftsKnown' /\ EntriesKnown'
    BY <1>t, <2>1, <2>3 DEF DraftsKnown, EntriesKnown, MoneyTyped
  <2>5. \A q : PaidOut(q)' <=> PaidOut(q)
    BY <2>1 DEF PaidOut
  <2>6. RefundsKnown' /\ RecoveryJustified'
    BY <1>t, <2>1, <2>5 DEF RefundsKnown, RecoveryJustified, RefundStatus
  <2> QED BY <2>2, <2>4, <2>6 DEF MoneyInv
<1>3. CASE RefundLooks(p)
  <2>1. payment[p] = "CAPTURED"
    BY <1>3, PaysForward DEF RefundLooks
  <2>2. UNCHANGED <<payment, pays, entry, batch, recovery, draft, review>>
    BY <1>3 DEF RefundLooks
  <2>3. RefundsKnown' /\ MoneyTyped'
    BY <1>t, <1>3, <2>1 DEF RefundLooks, RefundsKnown, MoneyTyped, PaidOut
  <2>4. PaymentsPlaced' /\ DraftsKnown' /\ EntriesKnown' /\ RecoveryJustified'
    BY <1>t, <1>s, <2>2 DEF PaymentsPlaced, DraftsKnown, EntriesKnown, Settleable,
       RecoveryJustified, PaidOut
  <2> QED BY <2>3, <2>4 DEF MoneyInv
<1>4. CASE RefundCommits(p)
  <2>1. /\ payment'[p] = "REFUND_PENDING" /\ \A q \in Payments \ {p} : payment'[q] = payment[q]
        /\ payment[p] = "CAPTURED" /\ (refund[p] = "paid out" => PaidOut(p))
        /\ recovery'[p] # "NONE" => recovery[p] # "NONE" \/ refund[p] = "paid out"
        /\ \A q \in Payments \ {p} : recovery'[q] = recovery[q]
        /\ refund'[p] = "idle" /\ \A q \in Payments \ {p} : refund'[q] = refund[q]
        /\ UNCHANGED <<pays, entry, batch, draft, review>>
    BY <1>t, <1>4 DEF RefundCommits, RefundsKnown, MoneyTyped
  <2>2. MoneyTyped' /\ PaymentsPlaced'
    BY <1>t, <1>4, <2>1 DEF RefundCommits, MoneyTyped, PaymentsPlaced, PaymentStatus
  <2>3. \A q \in Payments : Settleable(q) => Settleable(q)'
    BY <1>s, <2>1 DEF Settleable, RefundStatus
  <2>4. DraftsKnown' /\ EntriesKnown'
    BY <1>t, <2>1, <2>3 DEF DraftsKnown, EntriesKnown, MoneyTyped
  <2>5. \A q : PaidOut(q)' <=> PaidOut(q)
    BY <2>1 DEF PaidOut
  <2>6. RefundsKnown' /\ RecoveryJustified'
    BY <1>t, <2>1, <2>5 DEF RefundsKnown, RecoveryJustified, RefundStatus
  <2> QED BY <2>2, <2>4, <2>6 DEF MoneyInv
<1>5. CASE ResolveRecovery(p)
  <2>1. MoneyTyped' /\ RecoveryJustified'
    BY <1>t, <1>5 DEF ResolveRecovery, MoneyTyped, RecoveryJustified, PaidOut
  <2>2. PaymentsPlaced' /\ DraftsKnown' /\ EntriesKnown' /\ RefundsKnown'
    BY <1>t, <1>s, <1>5 DEF ResolveRecovery, PaymentsPlaced, DraftsKnown, EntriesKnown,
       Settleable, RefundsKnown, PaidOut
  <2> QED BY <2>1, <2>2 DEF MoneyInv
<1> QED BY <1>1, <1>2, <1>3, <1>4, <1>5 DEF PaymentStep

(* Only a draft that commits puts a payment into a batch, and the payments *)
(* it has locked are still due.                                            *)
LEMMA DraftsDue ==
  ASSUME MoneyInv, NEW n \in Batches, DraftCommits(n), NEW p \in Payments, entry'[p] # entry[p]
  PROVE  /\ p \in draft /\ entry[p] = None
         /\ payment[p] = "CAPTURED" /\ refund[p] = "idle" /\ status[pays[p]] = "COMPLETED"
<1>1. p \in StillCaptured
  BY DEF DraftCommits
<1> QED BY <1>1 DEF StillCaptured, DraftCommits, PaymentFree, MoneyInv, DraftsKnown, Settleable

(* Every action on a batch keeps the money's invariant.                    *)
LEMMA BatchKeeps ==
  ASSUME MoneyInv, NEW n \in Batches, BatchStep(n), UNCHANGED dispatchVars
  PROVE  MoneyInv'
<1>t. /\ MoneyTyped /\ PaymentsPlaced /\ DraftsKnown /\ EntriesKnown
      /\ RefundsKnown /\ RecoveryJustified
  BY DEF MoneyInv
<1>s. status' = status
  BY DEF dispatchVars
<1>1. CASE DraftCommits(n)
  <2>1. /\ UNCHANGED <<payment, pays, recovery, refund, review>> /\ draft' = {}
        /\ batch[n] = "NONE" /\ batch' = [batch EXCEPT ![n] = "DRAFT"]
    BY <1>1 DEF DraftCommits
  <2>2. MoneyTyped'
    BY <1>t, <1>1, <2>1 DEF DraftCommits, MoneyTyped
  <2>3. \A p \in Payments : entry[p] # None => entry'[p] = entry[p]
    BY <1>1, DraftsDue
  <2>4. \A p \in Payments : PaidOut(p) => PaidOut(p)'
    BY <1>t, <2>1, <2>3 DEF PaidOut, MoneyTyped
  <2>5. \A p \in Payments : Settleable(p)' <=> Settleable(p)
    BY <1>s, <2>1 DEF Settleable
  <2>6. EntriesKnown'
    BY <1>t, <1>1, <2>5, DraftsDue DEF EntriesKnown, DraftsKnown
  <2>7. PaymentsPlaced' /\ DraftsKnown'
    BY <1>t, <2>1 DEF PaymentsPlaced, DraftsKnown
  <2>8. RefundsKnown' /\ RecoveryJustified'
    BY <1>t, <2>1, <2>4 DEF RefundsKnown, RecoveryJustified
  <2> QED BY <2>2, <2>6, <2>7, <2>8 DEF MoneyInv
<1>2. CASE ReviewAccepts(n) \/ Approve(n) \/ MarkPaid(n) \/ CancelBatch(n)
  <2>1. UNCHANGED <<payment, pays, entry, recovery, refund, draft>>
    BY <1>2 DEF ReviewAccepts, Approve, MarkPaid, CancelBatch
  <2>2. MoneyTyped'
    BY <1>t, <1>2 DEF ReviewAccepts, Approve, MarkPaid, CancelBatch, MoneyTyped
  <2>3. \A m \in Batches : batch[m] = "PAID" => batch'[m] = "PAID"
    BY <1>t, <1>2 DEF ReviewAccepts, Approve, MarkPaid, CancelBatch, MoneyTyped
  <2>4. ASSUME NEW p \in Payments, PaidOut(p) PROVE PaidOut(p)'
    <3>1. entry[p] \in Batches /\ entry'[p] = entry[p]
      BY <1>t, <2>1, <2>4 DEF PaidOut, MoneyTyped
    <3> QED BY <2>3, <2>4, <3>1 DEF PaidOut
  <2>5. PaymentsPlaced' /\ DraftsKnown' /\ EntriesKnown'
    BY <1>t, <1>s, <2>1 DEF PaymentsPlaced, DraftsKnown, EntriesKnown, Settleable
  <2>6. RefundsKnown' /\ RecoveryJustified'
    BY <1>t, <2>1, <2>4 DEF RefundsKnown, RecoveryJustified
  <2> QED BY <2>2, <2>5, <2>6 DEF MoneyInv
<1> QED BY <1>1, <1>2 DEF BatchStep

LEMMA MoneyKeeps ==
  ASSUME MoneyInv, MoneyStep, UNCHANGED dispatchVars
  PROVE  MoneyInv'
<1>1. CASE DraftReads
  <2>1. UNCHANGED <<status, payment, pays, entry, batch, recovery, refund, review>> /\ draft' = Eligible
    BY <1>1 DEF DraftReads, dispatchVars
  <2>2. MoneyTyped' /\ PaymentsPlaced' /\ EntriesKnown' /\ RefundsKnown' /\ RecoveryJustified'
    BY <2>1 DEF MoneyInv, MoneyTyped, Eligible, PaymentsPlaced, EntriesKnown, Settleable,
       RefundsKnown, RecoveryJustified, PaidOut
  <2>3. DraftsKnown'
    BY <2>1 DEF MoneyInv, PaymentsPlaced, DraftsKnown, Eligible, Settleable
  <2> QED BY <2>2, <2>3 DEF MoneyInv
<1>2. CASE DraftRefused
  <2>1. UNCHANGED <<status, payment, pays, entry, batch, recovery, refund, review>> /\ draft' = {}
    BY <1>2 DEF DraftRefused, dispatchVars
  <2> QED BY <2>1 DEF MoneyInv, MoneyTyped, PaymentsPlaced, EntriesKnown, Settleable,
       RefundsKnown, RecoveryJustified, PaidOut, DraftsKnown
<1> QED BY <1>1, <1>2, PaymentKeeps, BatchKeeps DEF MoneyStep
-----------------------------------------------------------------------------
(* The invariant of bookings and money holds at first and is kept by every *)
(* step: each side is kept by its own steps, and is out of the other's     *)
(* reach but for completed bookings, which stay completed.                 *)
THEOREM SettlementInductive == Spec => []SettlementInv
<1>1. Init => SettlementInv
  BY InitDispatch, InitMoney DEF Init, SettlementInv
<1>2. SettlementInv /\ [Next]_vars => SettlementInv'
  <2> SUFFICES ASSUME SettlementInv, [Next]_vars PROVE SettlementInv'
    OBVIOUS
  <2>1. CASE DispatchNext /\ UNCHANGED moneyVars
    <3>1. DispatchInv'
      BY <2>1, DispatchStep, DispatchAssumption DEF SettlementInv
    <3>2. MoneyInv'
      BY <2>1, FinishedStays, MoneyStays DEF SettlementInv
    <3> QED BY <3>1, <3>2 DEF SettlementInv
  <2>2. CASE MoneyStep /\ UNCHANGED dispatchVars
    BY <2>2, DispatchStays, MoneyKeeps DEF SettlementInv
  <2>3. CASE UNCHANGED vars
    <3>1. UNCHANGED dispatchVars /\ UNCHANGED moneyVars /\ UNCHANGED status
      BY <2>3 DEF vars, dispatchVars, moneyVars
    <3> QED BY <3>1, DispatchStays, MoneyStays DEF SettlementInv
  <2> QED BY <2>1, <2>2, <2>3 DEF Next
<1> QED BY <1>1, <1>2, PTL DEF Spec

(* Every row and control point of bookings and settlement keeps its type.  *)
THEOREM SettlementTyped == Spec => []TypeOK
<1>1. SettlementInv => TypeOK
  BY DEF SettlementInv, DispatchInv, MoneyInv, RowsTyped, MoneyTyped, TypeOK
<1> QED BY <1>1, SettlementInductive, PTL

(* No booking has two agents at work and no agent two bookings at a time,  *)
(* for any number of bookings, agents and assignments.                     *)
THEOREM OneVisitAtATime == Spec => []NoDoubleWork
<1>1. SettlementInv => NoDoubleWork
  BY DEF SettlementInv, DispatchInv
<1> QED BY <1>1, SettlementInductive, PTL

(* A confirmed completion was asked for and its checks have passed.        *)
THEOREM ChecksHold == Spec => []ConfirmedPassed
<1>1. SettlementInv => ConfirmedPassed
  BY DEF SettlementInv, DispatchInv
<1> QED BY <1>1, SettlementInductive, PTL

(* A recovery is opened only against a payout that was made.               *)
THEOREM DebtsTrue == Spec => []RecoveryJustified
<1>1. SettlementInv => RecoveryJustified
  BY DEF SettlementInv, MoneyInv
<1> QED BY <1>1, SettlementInductive, PTL

(* A payment enters a batch once, while it is captured and its booking     *)
(* complete, whatever happened since the draft read it.                    *)
THEOREM DraftsTrue == Spec => DraftedWhenDue
<1> DEFINE Due == \A p \in Payments : entry'[p] # entry[p] =>
             /\ entry[p] = None
             /\ payment[p] = "CAPTURED"
             /\ refund[p] = "idle"
             /\ status[pays[p]] = "COMPLETED"
<1>1. SettlementInv /\ [Next]_vars => [Due]_vars
  <2> SUFFICES ASSUME SettlementInv, Next PROVE Due
    OBVIOUS
  <2>1. ASSUME NEW n \in Batches, DraftCommits(n) PROVE Due
    BY <2>1, DraftsDue DEF SettlementInv
  <2>2. ASSUME entry' # entry PROVE \E n \in Batches : DraftCommits(n)
    BY <2>2 DEF Next, MoneyStep, moneyVars, PaymentStep, CreateIntent, MovePayment, RefundLooks,
       RefundCommits, ResolveRecovery, BatchStep, ReviewAccepts, Approve, MarkPaid, CancelBatch,
       DraftReads, DraftRefused
  <2> QED BY <2>1, <2>2
<1> QED BY <1>1, SettlementInductive, PTL DEF Spec, DraftedWhenDue
=============================================================================
