---------------------------- MODULE ServiceDispatch ----------------------------
(***************************************************************************)
(* Consumer service bookings of one provider and the field agents that are *)
(* sent to them: consumer-bookings, consumer-fulfilment, consumer-dispatch,*)
(* consumer-service-completion and service-quality-evidence, and the       *)
(* counter-proposals of provider-marketplace-completion.                   *)
(*                                                                         *)
(* A transaction that can be overtaken between two statements has two      *)
(* steps; the rows it locks in between are read off held.  A refused call  *)
(* changes nothing and is a step that is not enabled.  Whether a time has  *)
(* room in the provider's availability window is left out, so a booking or *)
(* an accepted proposal never has to be refused for want of it.            *)
(***************************************************************************)


CONSTANTS
  Bookings,     \* ConsumerServiceBooking rows that can exist
  Slots,        \* service times that can be asked for
  Clashing,     \* pairs of slots that overlap
  Agents,       \* ConsumerProviderAgent rows
  Jobs,         \* ConsumerServiceAssignment rows that can exist
  Checklisted,  \* bookings whose offering has required quality checks
  None

ASSUME DispatchAssumption ==
  /\ Clashing \subseteq Slots \X Slots
  /\ \A s \in Slots : <<s, s>> \in Clashing
  /\ \A s, t \in Slots : <<s, t>> \in Clashing => <<t, s>> \in Clashing
  /\ Checklisted \subseteq Bookings
  /\ None \notin Slots \cup Agents \cup Jobs \cup Bookings

VARIABLES
  status,     \* ConsumerServiceBooking.status, "NONE" before the row exists
  slot,       \* its scheduledFrom and scheduledUntil
  proposal,   \* the pending time a REQUESTED booking can still answer
  job,        \* the assignment rows
  active,     \* ConsumerProviderAgent.active
  leaving,    \* agents whom setAgentActive(false) found without work
  recording,  \* the assessment that waits for the booking's lock, per job
  held        \* the transaction that holds each booking FOR UPDATE

dispatchVars == <<status, slot, proposal, job, active, leaving, recording, held>>

BookingStatus == {"NONE", "REQUESTED", "CONFIRMED", "IN_PROGRESS", "COMPLETED", "CANCELLED"}
JobStatus == {"NONE", "ASSIGNED", "ACCEPTED", "REJECTED", "EN_ROUTE", "ARRIVED", "RELEASED"}
AtWork == {"ASSIGNED", "ACCEPTED", "EN_ROUTE", "ARRIVED"}
Verdicts == {"passed", "failed"}

(* asked and confirmed are the events COMPLETION_REQUESTED and             *)
(* CUSTOMER_CONFIRMED_COMPLETION; check is the latest assessment.          *)
JobRows == [state : JobStatus, of : Bookings \cup {None}, by : Agents \cup {None},
            asked : BOOLEAN, check : Verdicts \cup {None}, confirmed : BOOLEAN]

NoJob == [state |-> "NONE", of |-> None, by |-> None,
          asked |-> FALSE, check |-> None, confirmed |-> FALSE]

Assigned(b, a) == [state |-> "ASSIGNED", of |-> b, by |-> a,
                   asked |-> FALSE, check |-> None, confirmed |-> FALSE]

(* What a transaction that holds a booking is doing: nothing, assigning an *)
(* agent whose row it does not or does hold yet, or confirming a job.      *)
Free == [doing |-> "nothing", who |-> None]
Assigning(a) == [doing |-> "assigning", who |-> a]
Checked(a) == [doing |-> "checked", who |-> a]
Confirming(j) == [doing |-> "confirming", who |-> j]
Holds == {Free} \cup {Assigning(a) : a \in Agents} \cup {Checked(a) : a \in Agents}
                \cup {Confirming(j) : j \in Jobs}

DispatchInit ==
  /\ status = [b \in Bookings |-> "NONE"]
  /\ slot = [b \in Bookings |-> None]
  /\ proposal = [b \in Bookings |-> None]
  /\ job = [j \in Jobs |-> NoJob]
  /\ active = [a \in Agents |-> TRUE]
  /\ leaving = {}
  /\ recording = [j \in Jobs |-> None]
  /\ held = [b \in Bookings |-> Free]
-----------------------------------------------------------------------------
(* Locks.                                                                  *)
BookingFree(b) == held[b] = Free
AgentFree(a) == \A b \in Bookings : held[b] # Checked(a)
JobFree(j) == \A b \in Bookings : held[b] # Confirming(j)

JobsAtWork == {j \in Jobs : job[j].state \in AtWork}
Busy(b) == \E j \in JobsAtWork : job[j].of = b

(* The agent has active work at a time that overlaps the booking's.        *)
Conflicting(a, b) ==
  \E j \in JobsAtWork : job[j].by = a /\ <<slot[job[j].of], slot[b]>> \in Clashing

(* Every required item of the booking's checklist passed in its latest     *)
(* assessment, or the booking has no required item.                        *)
ChecksPass(j) == job[j].of \in Checklisted => job[j].check = "passed"
-----------------------------------------------------------------------------
(* Bookings.                                                               *)
CreateBooking(b, s) ==
  /\ status[b] = "NONE"
  /\ status' = [status EXCEPT ![b] = "REQUESTED"]
  /\ slot' = [slot EXCEPT ![b] = s]
  /\ UNCHANGED <<proposal, job, active, leaving, recording, held>>

AllowedFrom == {
  <<"REQUESTED", "CONFIRMED">>,
  <<"REQUESTED", "CANCELLED">>, <<"CONFIRMED", "CANCELLED">>,
  <<"CONFIRMED", "IN_PROGRESS">>,
  <<"IN_PROGRESS", "COMPLETED">>}

(* The platform or the provider moves a booking, whatever its agent does.  *)
Fulfil(b, to) ==
  /\ BookingFree(b)
  /\ <<status[b], to>> \in AllowedFrom
  /\ status' = [status EXCEPT ![b] = to]
  /\ proposal' = [proposal EXCEPT ![b] = None]
  /\ UNCHANGED <<slot, job, active, leaving, recording, held>>

(* The resident cancels; an agent already assigned keeps the job.          *)
CancelBooking(b) ==
  /\ BookingFree(b)
  /\ status[b] \in {"REQUESTED", "CONFIRMED"}
  /\ status' = [status EXCEPT ![b] = "CANCELLED"]
  /\ proposal' = [proposal EXCEPT ![b] = None]
  /\ UNCHANGED <<slot, job, active, leaving, recording, held>>

(* A counter-proposal for a booking that is not confirmed yet.             *)
ProposeTime(b, s) ==
  /\ BookingFree(b)
  /\ status[b] = "REQUESTED"
  /\ proposal[b] = None
  /\ proposal' = [proposal EXCEPT ![b] = s]
  /\ UNCHANGED <<status, slot, job, active, leaving, recording, held>>

RespondToProposal(b, accepted) ==
  /\ BookingFree(b)
  /\ status[b] = "REQUESTED"
  /\ proposal[b] # None
  /\ slot' = IF accepted THEN [slot EXCEPT ![b] = proposal[b]] ELSE slot
  /\ proposal' = [proposal EXCEPT ![b] = None]
  /\ UNCHANGED <<status, job, active, leaving, recording, held>>
-----------------------------------------------------------------------------
(* Dispatch.  assign locks the booking, then the agent, then looks for     *)
(* overlapping work and inserts.                                           *)
AssignLocks(b, a) ==
  /\ BookingFree(b)
  /\ status[b] = "CONFIRMED"
  /\ ~Busy(b)
  /\ held' = [held EXCEPT ![b] = Assigning(a)]
  /\ UNCHANGED <<status, slot, proposal, job, active, leaving, recording>>

(* Mutant: looks for overlapping work without the lock of the agent.       *)
AssignChecksUnlocked(b, a) ==
  /\ held[b] = Assigning(a)
  /\ active[a]
  /\ ~Conflicting(a, b)
  /\ held' = [held EXCEPT ![b] = Checked(a)]
  /\ UNCHANGED <<status, slot, proposal, job, active, leaving, recording>>

AssignChecks(b, a) ==
  /\ held[b] = Assigning(a)
  /\ AgentFree(a)
  /\ active[a]
  /\ ~Conflicting(a, b)
  /\ held' = [held EXCEPT ![b] = Checked(a)]
  /\ UNCHANGED <<status, slot, proposal, job, active, leaving, recording>>

AssignRefused(b, a) ==
  /\ held[b] = Assigning(a)
  /\ AgentFree(a)
  /\ active[a] => Conflicting(a, b)
  /\ held' = [held EXCEPT ![b] = Free]
  /\ UNCHANGED <<status, slot, proposal, job, active, leaving, recording>>

AssignCommits(b, a, j) ==
  /\ held[b] = Checked(a)
  /\ job[j].state = "NONE"
  /\ job' = [job EXCEPT ![j] = Assigned(b, a)]
  /\ held' = [held EXCEPT ![b] = Free]
  /\ UNCHANGED <<status, slot, proposal, active, leaving, recording>>

AllowedTransitions == {
  <<"ASSIGNED", "ACCEPTED">>, <<"ASSIGNED", "REJECTED">>, <<"ASSIGNED", "RELEASED">>,
  <<"ACCEPTED", "EN_ROUTE">>, <<"ACCEPTED", "RELEASED">>,
  <<"EN_ROUTE", "ARRIVED">>, <<"EN_ROUTE", "RELEASED">>,
  <<"ARRIVED", "RELEASED">>}

(* transition locks the assignment and never looks at the booking.         *)
MoveJob(j, to) ==
  /\ JobFree(j)
  /\ <<job[j].state, to>> \in AllowedTransitions
  /\ job' = [job EXCEPT ![j].state = to]
  /\ UNCHANGED <<status, slot, proposal, active, leaving, recording, held>>

(* setAgentActive looks for active work in one statement and updates the   *)
(* agent in another, outside a transaction: work assigned in between stays *)
(* with an agent who is no longer active.                                  *)
LeaveLooks(a) ==
  /\ a \notin leaving
  /\ \A j \in JobsAtWork : job[j].by # a
  /\ leaving' = leaving \cup {a}
  /\ UNCHANGED <<status, slot, proposal, job, active, recording, held>>

LeaveCommits(a) ==
  /\ a \in leaving
  /\ AgentFree(a)
  /\ active' = [active EXCEPT ![a] = FALSE]
  /\ leaving' = leaving \ {a}
  /\ UNCHANGED <<status, slot, proposal, job, recording, held>>

Rejoin(a) ==
  /\ AgentFree(a)
  /\ active' = [active EXCEPT ![a] = TRUE]
  /\ UNCHANGED <<status, slot, proposal, job, leaving, recording, held>>
-----------------------------------------------------------------------------
(* Completion.  The agent's calls need an active agent at the place.       *)
Arrived(j) == job[j].state = "ARRIVED" /\ active[job[j].by]

StartByAgent(j) ==
  /\ Arrived(j) /\ JobFree(j) /\ BookingFree(job[j].of)
  /\ status[job[j].of] = "CONFIRMED"
  /\ status' = [status EXCEPT ![job[j].of] = "IN_PROGRESS"]
  /\ UNCHANGED <<slot, proposal, job, active, leaving, recording, held>>

RequestCompletion(j) ==
  /\ Arrived(j) /\ JobFree(j) /\ BookingFree(job[j].of)
  /\ status[job[j].of] = "IN_PROGRESS"
  /\ ChecksPass(j)
  /\ job' = [job EXCEPT ![j].asked = TRUE]
  /\ UNCHANGED <<status, slot, proposal, active, leaving, recording, held>>

(* recordForAgent finds the arrived job and its booking in one snapshot    *)
(* and then waits for the booking's lock, after which only the booking is  *)
(* looked at again.                                                        *)
RecordReads(j, verdict) ==
  /\ Arrived(j)
  /\ job[j].of \in Checklisted
  /\ status[job[j].of] = "IN_PROGRESS"
  /\ recording[j] = None
  /\ recording' = [recording EXCEPT ![j] = verdict]
  /\ UNCHANGED <<status, slot, proposal, job, active, leaving, held>>

(* Mutant: does not wait for the lock of the booking.                      *)
RecordCommitsAtOnce(j) ==
  /\ recording[j] # None
  /\ status[job[j].of] = "IN_PROGRESS"
  /\ job' = [job EXCEPT ![j].check = recording[j]]
  /\ recording' = [recording EXCEPT ![j] = None]
  /\ UNCHANGED <<status, slot, proposal, active, leaving, held>>

RecordCommits(j) ==
  /\ recording[j] # None
  /\ BookingFree(job[j].of)
  /\ status[job[j].of] = "IN_PROGRESS"
  /\ job' = [job EXCEPT ![j].check = recording[j]]
  /\ recording' = [recording EXCEPT ![j] = None]
  /\ UNCHANGED <<status, slot, proposal, active, leaving, held>>

RecordRefused(j) ==
  /\ recording[j] # None
  /\ BookingFree(job[j].of)
  /\ status[job[j].of] # "IN_PROGRESS"
  /\ recording' = [recording EXCEPT ![j] = None]
  /\ UNCHANGED <<status, slot, proposal, job, active, leaving, held>>

(* confirmByConsumer locks the booking and its arrived job, reads the      *)
(* checklist and then completes the one and releases the other.            *)
ConfirmChecks(b, j) ==
  /\ BookingFree(b) /\ JobFree(j)
  /\ status[b] = "IN_PROGRESS"
  /\ job[j].of = b
  /\ job[j].state = "ARRIVED"
  /\ job[j].asked
  /\ ChecksPass(j)
  /\ held' = [held EXCEPT ![b] = Confirming(j)]
  /\ UNCHANGED <<status, slot, proposal, job, active, leaving, recording>>

ConfirmCommits(b, j) ==
  /\ held[b] = Confirming(j)
  /\ status' = [status EXCEPT ![b] = "COMPLETED"]
  /\ job' = [job EXCEPT ![j].state = "RELEASED", ![j].confirmed = TRUE]
  /\ held' = [held EXCEPT ![b] = Free]
  /\ UNCHANGED <<slot, proposal, active, leaving, recording>>
-----------------------------------------------------------------------------
BookingStep(b) ==
  \/ \E s \in Slots : CreateBooking(b, s) \/ ProposeTime(b, s)
  \/ \E to \in BookingStatus : Fulfil(b, to)
  \/ CancelBooking(b)
  \/ \E accepted \in BOOLEAN : RespondToProposal(b, accepted)

AssignStep(b, a) ==
  \/ AssignLocks(b, a)
  \/ AssignChecks(b, a)
  \/ AssignRefused(b, a)
  \/ \E j \in Jobs : AssignCommits(b, a, j)

AgentStep(a) == LeaveLooks(a) \/ LeaveCommits(a) \/ Rejoin(a)

JobStep(j) ==
  \/ \E to \in JobStatus : MoveJob(j, to)
  \/ StartByAgent(j)
  \/ RequestCompletion(j)
  \/ \E verdict \in Verdicts : RecordReads(j, verdict)
  \/ RecordCommits(j)
  \/ RecordRefused(j)
  \/ \E b \in Bookings : ConfirmChecks(b, j) \/ ConfirmCommits(b, j)

DispatchNext ==
  \/ \E b \in Bookings : BookingStep(b)
  \/ \E b \in Bookings, a \in Agents : AssignStep(b, a)
  \/ \E a \in Agents : AgentStep(a)
  \/ \E j \in Jobs : JobStep(j)
=============================================================================
