---------------------------- MODULE AmenityBookings ----------------------------
(***************************************************************************)
(* The bookings of one amenity: amenities.service.ts (reviews, releases,   *)
(* attendance, waitlist, deposit deadline, schedule), the booking          *)
(* transaction of amenity-booking-creator.ts, the deposit branch of        *)
(* payment-order.service.ts and payment-webhook.processor.ts, and the      *)
(* triggers and indexes of the amenity migrations.                         *)
(*                                                                         *)
(* A transaction that can wait in the middle has two steps; locks are read *)
(* off the control points.  What it wrote before it waits is not committed *)
(* and so written in its last step.  A refused call changes nothing and is *)
(* a step that is not enabled.  The amenity stays active; quotas per unit, *)
(* guest limits, cut-offs and no-show pauses are rules it does not have,   *)
(* and a window that has started does not end.                             *)
(***************************************************************************)
EXTENDS Integers, FiniteSets

CONSTANTS
  Units,     \* a unit and the resident who books for it
  Windows,   \* bookable windows, each the set of instants it covers
  Bookings,  \* AmenityBooking rows that can exist
  Policies,  \* [capacity, approval, deposit] an administrator may set
  Opening,   \* the policy at first
  Hours,     \* operating hours: the windows that fit, or None for no limit
  Requests,  \* slots for calls that wait for a lock
  None

ASSUME AmenityAssumption ==
  /\ \A w \in Windows : w # {}
  /\ Policies \subseteq [capacity : Nat \ {0}, approval : BOOLEAN, deposit : BOOLEAN]
  /\ Opening \in Policies
  /\ \A h \in Hours : h = None \/ h \subseteq Windows
  /\ IsFiniteSet(Bookings) /\ None \notin Bookings

VARIABLES
  policy,     \* maxConcurrentBookings, requiresApproval, refundableDepositPaise > 0
  blackouts,  \* schedule.blackouts
  hours,      \* schedule.weekly
  phase,      \* "ahead", "open" for check-in, or "started": the clock of each window
  status,     \* AmenityBooking.status, "NONE" while the row does not exist
  slot,       \* its unit and window
  deposit,    \* AmenityBooking.depositStatus
  late,       \* bookings whose depositDueAt has passed
  payment,    \* status of the last deposit order of a booking
  waiting,    \* <<unit, window>> of the WAITING entries
  at,         \* control point of each call
  on          \* the row it holds or waits for

amenity == <<policy, blackouts, hours>>
rows == <<status, slot, deposit>>
money == <<late, payment>>
calls == <<at, on>>
vars == <<amenity, phase, rows, money, waiting, calls>>

NoSlot == [unit |-> None, window |-> {}]
Unit(b) == slot[b].unit
Window(b) == slot[b].window

Active == {"PENDING", "CONFIRMED", "CHECKED_IN"}
Overlaps(v, w) == v \cap w # {}

Init ==
  /\ policy = Opening
  /\ blackouts = {}
  /\ hours = None
  /\ phase = [w \in Windows |-> "ahead"]
  /\ status = [b \in Bookings |-> "NONE"]
  /\ slot = [b \in Bookings |-> NoSlot]
  /\ deposit = [b \in Bookings |-> "NOT_REQUIRED"]
  /\ late = {}
  /\ payment = [b \in Bookings |-> "NONE"]
  /\ waiting = {}
  /\ at = [r \in Requests |-> "idle"]
  /\ on = [r \in Requests |-> None]
-----------------------------------------------------------------------------
(* Locks.  cancelMine, revoke, reject and the deadline sweep hold their    *)
(* booking FOR UPDATE when they ask for the amenity's advisory lock;       *)
(* markNoShow asks for its booking, and createBooking waits for a row that *)
(* may free its unique slot, while they hold the advisory lock.            *)
Releasing == {"cancelling", "rejecting", "sweeping"}
Leading == {"noshow", "inserting"}

RowLocked(b) == \E r \in Requests : at[r] \in Releasing /\ on[r] = b
AmenityLocked == \E r \in Requests : at[r] \in Leading

WaitsForAmenity(r) ==
  \/ at[r] = "sweeping"
  \/ at[r] \in {"cancelling", "rejecting"} /\ phase[Window(on[r])] # "started"

(* Mutant: a release that promotes counts the other bookings FOR UPDATE.   *)
WaitsToCount(r) ==
  \/ WaitsForAmenity(r) /\ (AmenityLocked \/ \E b \in Bookings \ {on[r]} : RowLocked(b))
  \/ at[r] \in Leading /\ RowLocked(on[r])

(* A release takes no second lock once its window has started: it promotes *)
(* nobody then.                                                            *)
Waits(r) ==
  \/ WaitsForAmenity(r) /\ AmenityLocked
  \/ at[r] \in Leading /\ RowLocked(on[r])

Start(r, op, b) ==
  /\ at[r] = "idle"
  /\ at' = [at EXCEPT ![r] = op]
  /\ on' = [on EXCEPT ![r] = b]
  /\ UNCHANGED <<amenity, phase, rows, money, waiting>>

End(r) ==
  /\ at' = [at EXCEPT ![r] = "idle"]
  /\ on' = [on EXCEPT ![r] = None]
-----------------------------------------------------------------------------
(* Capacity, as the overlap counts of the code see it: the bookings of the *)
(* status function st whose windows overlap w.                             *)
TakenIn(st, w) == {b \in Bookings : st[b] \in Active /\ Overlaps(Window(b), w)}
FreeIn(st, w) == Cardinality(TakenIn(st, w)) < policy.capacity
BusyIn(st, u, w) == \E b \in TakenIn(st, w) : Unit(b) = u

Unused == {b \in Bookings : status[b] = "NONE"}

(* A bound of the model: every waiting entry has a row left to become.     *)
RowToSpare == Cardinality(waiting) < Cardinality(Unused)

(* assertScheduleWindowOpen, and the guards of the booking and waitlist    *)
(* tables that repeat it.                                                  *)
OpenWindow(w) ==
  /\ hours # None => w \in hours
  /\ \A v \in blackouts : ~Overlaps(v, w)

FirstStatus == IF policy.approval THEN "PENDING" ELSE "CONFIRMED"
FirstDeposit ==
  IF ~policy.deposit THEN "NOT_REQUIRED"
  ELSE IF policy.approval THEN "APPROVAL_PENDING" ELSE "PAYMENT_REQUIRED"

(* The row of a new booking, on top of what st and dep say of the others.  *)
Insert(b, u, w, st, dep) ==
  /\ status' = [st EXCEPT ![b] = FirstStatus]
  /\ deposit' = [dep EXCEPT ![b] = FirstDeposit]
  /\ slot' = [slot EXCEPT ![b] = [unit |-> u, window |-> w]]

(* The unique index on the unit's PENDING and CONFIRMED bookings of one    *)
(* window.  A row that a release has updated but not committed makes the   *)
(* inserting transaction wait.                                             *)
SameSlot(u, w) ==
  {b \in Bookings : status[b] \in {"PENDING", "CONFIRMED"}
                      /\ slot[b] = [unit |-> u, window |-> w]}
Undecided(b) == \E r \in Requests : at[r] \in {"cancelling", "rejecting"} /\ on[r] = b

(* Mutant: the place is promised to whoever asks.                          *)
BookableUncounted(w) == phase[w] # "started" /\ OpenWindow(w)

Bookable(w) == phase[w] # "started" /\ OpenWindow(w) /\ FreeIn(status, w)

(* createBooking: all of it under the advisory lock of the amenity.  A     *)
(* repeated idempotency key is answered with its row.                      *)
CreateBooking(u, w, b) ==
  /\ ~AmenityLocked /\ RowToSpare
  /\ Bookable(w)
  /\ SameSlot(u, w) = {}
  /\ b \in Unused
  /\ Insert(b, u, w, status, deposit)
  /\ UNCHANGED <<amenity, phase, money, waiting, calls>>

CreateWaits(r, u, w, b) ==
  /\ ~AmenityLocked /\ RowToSpare
  /\ Bookable(w)
  /\ b \in SameSlot(u, w) /\ Undecided(b)
  /\ Start(r, "inserting", b)

CreateWaited(r, b) ==
  /\ at[r] = "inserting" /\ ~Waits(r)
  /\ IF SameSlot(Unit(on[r]), Window(on[r])) = {} /\ b \in Unused
       THEN Insert(b, Unit(on[r]), Window(on[r]), status, deposit)
       ELSE UNCHANGED rows
  /\ End(r)
  /\ UNCHANGED <<amenity, phase, money, waiting>>
-----------------------------------------------------------------------------
(* joinWaitlist, under the advisory lock, and cancelWaitlistMine.          *)
JoinWaitlist(u, w) ==
  /\ ~AmenityLocked /\ RowToSpare
  /\ phase[w] # "started" /\ OpenWindow(w)
  /\ ~BusyIn(status, u, w)
  /\ ~FreeIn(status, w)
  /\ waiting' = waiting \cup {<<u, w>>}
  /\ UNCHANGED <<amenity, phase, rows, money, calls>>

CancelWaitlist(e) ==
  /\ e \in waiting
  /\ waiting' = waiting \ {e}
  /\ UNCHANGED <<amenity, phase, rows, money, calls>>

(* The waiters promoteNextWaitlist may choose from when st are the         *)
(* statuses it sees.  It takes the one that joined first; what is said     *)
(* below does not depend on which one it takes.                            *)
Eligible(st, w) == {u \in Units : <<u, w>> \in waiting /\ ~BusyIn(st, u, w)}

(* Mutant: whoever leaves does not make room yet.                          *)
PromotableStale(st, w) ==
  IF phase[w] # "started" /\ OpenWindow(w) /\ FreeIn(status, w) THEN Eligible(st, w) ELSE {}

Promotable(st, w) ==
  IF phase[w] # "started" /\ OpenWindow(w) /\ FreeIn(st, w) THEN Eligible(st, w) ELSE {}

(* promoteNextWaitlist after a release from window w left st and dep.      *)
Promote(st, dep, w) ==
  \/ /\ Promotable(st, w) = {}
     /\ status' = st /\ deposit' = dep
     /\ UNCHANGED <<slot, waiting>>
  \/ \E u \in Promotable(st, w), b \in Unused :
       /\ Insert(b, u, w, st, dep)
       /\ waiting' = waiting \ {<<u, w>>}

(* What becomes of the deposit of a booking that is cancelled or rejected. *)
Released(b) ==
  IF deposit[b] = "CAPTURED" THEN "REFUND_REQUIRED"
  ELSE IF deposit[b] \in {"APPROVAL_PENDING", "PAYMENT_REQUIRED"} THEN "VOIDED"
  ELSE deposit[b]

(* cancelMine and revoke; reject of review.                                *)
StartCancel(r, b) ==
  /\ status[b] \in {"PENDING", "CONFIRMED"} /\ ~RowLocked(b)
  /\ Start(r, "cancelling", b)

StartReject(r, b) ==
  /\ status[b] = "PENDING" /\ ~RowLocked(b)
  /\ Start(r, "rejecting", b)

EndRelease(r) ==
  LET b == on[r] IN
  /\ at[r] \in {"cancelling", "rejecting"} /\ ~Waits(r)
  /\ Promote([status EXCEPT ![b] = IF at[r] = "rejecting" THEN "REJECTED" ELSE "CANCELLED"],
             [deposit EXCEPT ![b] = Released(b)], Window(b))
  /\ End(r)
  /\ UNCHANGED <<amenity, phase, money>>

Approve(b) ==
  /\ status[b] = "PENDING" /\ ~RowLocked(b)
  /\ status' = [status EXCEPT ![b] = "CONFIRMED"]
  /\ deposit' = [deposit EXCEPT ![b] = IF @ = "NOT_REQUIRED" THEN @ ELSE "PAYMENT_REQUIRED"]
  /\ UNCHANGED <<amenity, phase, slot, money, waiting, calls>>

CheckIn(b) ==
  /\ status[b] = "CONFIRMED" /\ ~RowLocked(b)
  /\ deposit[b] \in {"NOT_REQUIRED", "CAPTURED"}
  /\ phase[Window(b)] # "ahead"
  /\ status' = [status EXCEPT ![b] = "CHECKED_IN"]
  /\ UNCHANGED <<amenity, phase, slot, deposit, money, waiting, calls>>

Owed(b) == IF deposit[b] = "CAPTURED" THEN "REFUND_REQUIRED" ELSE deposit[b]

Complete(b) ==
  /\ status[b] = "CHECKED_IN"
  /\ status' = [status EXCEPT ![b] = "COMPLETED"]
  /\ deposit' = [deposit EXCEPT ![b] = Owed(b)]
  /\ UNCHANGED <<amenity, phase, slot, money, waiting, calls>>

(* markNoShow: the advisory lock, then the booking, then the checks.       *)
StartNoShow(r, b) ==
  /\ status[b] # "NONE" /\ ~AmenityLocked
  /\ Start(r, "noshow", b)

EndNoShow(r) ==
  LET b == on[r] IN
  /\ at[r] = "noshow" /\ ~Waits(r)
  /\ IF status[b] = "CONFIRMED" /\ phase[Window(b)] = "started"
       THEN /\ status' = [status EXCEPT ![b] = "NO_SHOW"]
            /\ deposit' = [deposit EXCEPT ![b] = Owed(b)]
       ELSE UNCHANGED <<status, deposit>>
  /\ End(r)
  /\ UNCHANGED <<amenity, phase, slot, money, waiting>>

(* depositDueAt is never later than the start of the window.               *)
PastDue(b) == b \in late \/ phase[Window(b)] = "started"

Overdue(b) ==
  /\ status[b] = "CONFIRMED"
  /\ deposit[b] = "PAYMENT_REQUIRED"
  /\ PastDue(b)

(* expireUnpaidDeposits(1): the first overdue booking nobody else holds,   *)
(* its amenity's lock, the checks again, release and promotion.            *)
StartSweep(r, b) ==
  /\ Overdue(b) /\ ~RowLocked(b)
  /\ Start(r, "sweeping", b)

EndSweep(r) ==
  LET b == on[r] IN
  /\ at[r] = "sweeping" /\ ~Waits(r)
  /\ IF Overdue(b)
       THEN Promote([status EXCEPT ![b] = "CANCELLED"],
                    [deposit EXCEPT ![b] = "VOIDED"], Window(b))
       ELSE UNCHANGED <<rows, waiting>>
  /\ End(r)
  /\ UNCHANGED <<amenity, phase, money>>
-----------------------------------------------------------------------------
(* Deposits.  createAmenityDepositPayment answers with the live order if   *)
(* there is one; a gateway report is applied in one transaction that waits *)
(* for the booking row.                                                    *)
OrderDeposit(b) ==
  /\ status[b] = "CONFIRMED" /\ ~RowLocked(b)
  /\ deposit[b] = "PAYMENT_REQUIRED" /\ ~PastDue(b)
  /\ payment[b] \in {"NONE", "FAILED"}
  /\ payment' = [payment EXCEPT ![b] = "CREATED"]
  /\ UNCHANGED <<amenity, phase, rows, late, waiting, calls>>

Report(b, from, to) ==
  /\ payment[b] = from /\ ~RowLocked(b)
  /\ payment' = [payment EXCEPT ![b] = to]
  /\ UNCHANGED <<amenity, phase, status, slot, late, waiting, calls>>

(* Mutant: only a deposit that is still asked for can be captured.         *)
CapturedIfAsked(b) ==
  /\ Report(b, "CREATED", "CAPTURED")
  /\ deposit' = [deposit EXCEPT ![b] = IF @ = "PAYMENT_REQUIRED" THEN "CAPTURED" ELSE @]

Captured(b) ==
  /\ Report(b, "CREATED", "CAPTURED")
  /\ deposit' = [deposit EXCEPT ![b] =
       IF @ \notin {"PAYMENT_REQUIRED", "VOIDED"} THEN @
       ELSE IF status[b] \in Active THEN "CAPTURED" ELSE "REFUND_REQUIRED"]

Failed(b) == Report(b, "CREATED", "FAILED") /\ UNCHANGED deposit

Refunded(b) ==
  /\ Report(b, "CAPTURED", "REFUNDED")
  /\ deposit' = [deposit EXCEPT ![b] =
       IF @ \in {"CAPTURED", "REFUND_REQUIRED"} THEN "REFUNDED" ELSE @]
-----------------------------------------------------------------------------
(* Mutant: the waitlist guards do not exist.                               *)
ScheduleAcceptedUnguarded(bl, h) ==
  h # None /\ <<bl, h>> # <<blackouts, hours>> =>
    \A b \in Bookings : status[b] \notin {"PENDING", "CONFIRMED"}

(* What the triggers on the amenity's schedule accept.  The booking guard  *)
(* returns early when the new schedule has no weekly hours, and otherwise  *)
(* refuses every change while a booking is to come; the waitlist guards    *)
(* look at the entries a change would leave in a closed window.            *)
ScheduleAccepted(bl, h) ==
  /\ h # None /\ <<bl, h>> # <<blackouts, hours>> =>
       \A b \in Bookings : status[b] \notin {"PENDING", "CONFIRMED"}
  /\ bl # blackouts => \A e \in waiting, v \in bl : ~Overlaps(v, e[2])
  /\ h # hours => waiting = {}

Reschedule(bl, h) ==
  /\ ~AmenityLocked
  /\ ScheduleAccepted(bl, h)
  /\ blackouts' = bl /\ hours' = h
  /\ UNCHANGED <<phase, rows, money, waiting, calls>>

(* updateAmenity: the rules, and a schedule if one is sent.                *)
UpdateAmenity(p, bl, h) ==
  /\ p.capacity # policy.capacity => \A b \in Bookings : status[b] \notin Active
  /\ Reschedule(bl, h)
  /\ policy' = p

(* applyBlackout repeats the assessment of the preview.                    *)
Impacted(w) ==
  \/ TakenIn(status, w) # {}
  \/ \E e \in waiting : Overlaps(e[2], w)

ApplyBlackout(w) ==
  /\ \A v \in blackouts : ~Overlaps(v, w)
  /\ ~Impacted(w)
  /\ Reschedule(blackouts \cup {w}, hours)
  /\ UNCHANGED policy

RemoveBlackout(w) ==
  /\ w \in blackouts
  /\ Reschedule(blackouts \ {w}, hours)
  /\ UNCHANGED policy

ApplyOperatingHours(h) ==
  /\ waiting = {} /\ \A b \in Bookings : status[b] \notin Active
  /\ Reschedule(blackouts, h)
  /\ UNCHANGED policy
-----------------------------------------------------------------------------
(* The clock: check-in opens before the window starts; a payment deadline  *)
(* passes.                                                                 *)
Later == [x \in {"ahead", "open"} |-> IF x = "ahead" THEN "open" ELSE "started"]

TimePasses(w) ==
  /\ phase[w] # "started"
  /\ phase' = [phase EXCEPT ![w] = Later[@]]
  /\ UNCHANGED <<amenity, rows, money, waiting, calls>>

DeadlinePasses(b) ==
  /\ deposit[b] = "PAYMENT_REQUIRED" /\ b \notin late
  /\ late' = late \cup {b}
  /\ UNCHANGED <<amenity, phase, rows, payment, waiting, calls>>

(* A transaction is lost and rolled back.                                  *)
Abort(r) ==
  /\ at[r] # "idle"
  /\ End(r)
  /\ UNCHANGED <<amenity, phase, rows, money, waiting>>

(* One call leads the amenity and wants a booking whose holder wants the   *)
(* amenity: PostgreSQL aborts one of the two.                              *)
Crossed(q, r) == at[q] \in Leading /\ WaitsForAmenity(r) /\ on[q] = on[r]

Deadlocked(r) == \E q \in Requests : Crossed(q, r) \/ Crossed(r, q)

Victim(r) == Deadlocked(r) /\ Abort(r)

Begin(r) == \E b \in Bookings :
  \/ StartCancel(r, b) \/ StartReject(r, b) \/ StartNoShow(r, b) \/ StartSweep(r, b)
  \/ \E u \in Units, w \in Windows : CreateWaits(r, u, w, b)

Finish(r) ==
  \/ EndRelease(r) \/ EndNoShow(r) \/ EndSweep(r)
  \/ \E b \in Bookings : CreateWaited(r, b)

OneStepCall ==
  \/ \E u \in Units, w \in Windows :
       JoinWaitlist(u, w) \/ \E b \in Bookings : CreateBooking(u, w, b)
  \/ \E e \in waiting : CancelWaitlist(e)
  \/ \E b \in Bookings : Approve(b) \/ CheckIn(b) \/ Complete(b)

Administer ==
  \/ \E p \in Policies, bl \in SUBSET Windows, h \in Hours : UpdateAmenity(p, bl, h)
  \/ \E w \in Windows : ApplyBlackout(w) \/ RemoveBlackout(w)
  \/ \E h \in Hours : ApplyOperatingHours(h)

Gateway == \E b \in Bookings : OrderDeposit(b) \/ Captured(b) \/ Failed(b) \/ Refunded(b)

Clock ==
  \/ \E w \in Windows : TimePasses(w)
  \/ \E b \in Bookings : DeadlinePasses(b)

Next ==
  \/ OneStepCall \/ Administer \/ Gateway \/ Clock
  \/ \E r \in Requests : Begin(r) \/ Finish(r) \/ Abort(r) \/ Victim(r)

Spec == Init /\ [][Next]_vars
-----------------------------------------------------------------------------
BookingStatus == {"NONE", "PENDING", "CONFIRMED", "CHECKED_IN", "COMPLETED", "NO_SHOW",
                  "REJECTED", "CANCELLED"}
DepositStatus == {"NOT_REQUIRED", "APPROVAL_PENDING", "PAYMENT_REQUIRED", "CAPTURED",
                  "REFUND_REQUIRED", "REFUNDED", "VOIDED"}
Slots == [unit : Units, window : Windows]

(* Rows and control points keep their shape; a booking has a slot.         *)
TypeOK ==
  /\ policy \in Policies
  /\ blackouts \subseteq Windows
  /\ hours \in Hours \cup {None}
  /\ phase \in [Windows -> {"ahead", "open", "started"}]
  /\ status \in [Bookings -> BookingStatus]
  /\ slot \in [Bookings -> Slots \cup {NoSlot}]
  /\ \A b \in Bookings : status[b] # "NONE" => slot[b] \in Slots
  /\ deposit \in [Bookings -> DepositStatus]
  /\ late \subseteq Bookings
  /\ payment \in [Bookings -> {"NONE", "CREATED", "CAPTURED", "FAILED", "REFUNDED"}]
  /\ waiting \subseteq Units \X Windows
  /\ at \in [Requests -> {"idle"} \cup Releasing \cup Leading]
  /\ on \in [Requests -> Bookings \cup {None}]

(* At no instant do more bookings stand than the amenity has places,       *)
(* however direct bookings, promotions, releases and capacity changes      *)
(* interleave between their counts and their writes.                       *)
NeverOverbooked ==
  \A w \in Windows : \A t \in w :
    Cardinality({b \in Bookings : status[b] \in Active /\ t \in Window(b)}) <= policy.capacity

(* Nobody who could have the place is left waiting beside it: every        *)
(* release of exactly this window promotes someone, whatever was locked or *)
(* uncommitted when it looked.  A booking of another overlapping window,   *)
(* or one completed before the start, frees its place without promotion.   *)
NoIdlePlace ==
  \A w \in Windows :
    phase[w] # "started" /\ FreeIn(status, w) /\ Eligible(status, w) # {} =>
      \E b \in Bookings :
        /\ status[b] # "NONE" /\ Overlaps(Window(b), w)
        /\ Window(b) # w \/ status[b] = "COMPLETED"

(* The deposit status of a booking and the money the gateway holds for it  *)
(* never disagree, whichever of cancellation, sweep, no-show, completion   *)
(* and gateway report comes first: captured money of a booking that no     *)
(* longer stands is always owed back, and never forgotten as VOIDED.       *)
DepositMatchesMoney ==
  \A b \in Bookings :
    /\ payment[b] = "CAPTURED" <=> deposit[b] \in {"CAPTURED", "REFUND_REQUIRED"}
    /\ payment[b] = "REFUNDED" <=> deposit[b] = "REFUNDED"
    /\ deposit[b] = "CAPTURED" => status[b] \in Active
    /\ deposit[b] = "REFUND_REQUIRED" => status[b] \notin Active

(* Nobody waits for a window that is blacked out or outside the operating  *)
(* hours: such an entry could never be promoted.                           *)
NoWaiterWhileClosed == \A e \in waiting : OpenWindow(e[2])

(* Calls that lock a booking and its amenity in opposite orders never      *)
(* leave everyone waiting: the one cycle they can form is two calls on one *)
(* booking, of which PostgreSQL aborts one (cancelMine, markNoShow).       *)
SomeCallCanEnd ==
  (\E r \in Requests : at[r] # "idle") =>
    \E r \in Requests : at[r] # "idle" /\ (~Waits(r) \/ Deadlocked(r))
=============================================================================
