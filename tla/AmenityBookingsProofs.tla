------------------------- MODULE AmenityBookingsProofs -------------------------
(* For any number of units, windows, rows, policies and concurrent calls:  *)
(* an amenity is never overbooked, its deposits agree with the money, and  *)
(* no place stays free beside somebody who waits for it.  The base of all  *)
(* of it is what the two kinds of locks guarantee.                         *)
EXTENDS AmenityBookings, TLAPS, FiniteSetTheorems

(* The row of a call exists, and stays cancellable while it is held.       *)
Knows ==
  \A r \in Requests :
    /\ at[r] # "idle" => on[r] \in Bookings /\ status[on[r]] # "NONE"
    /\ at[r] \in Releasing => status[on[r]] \in {"PENDING", "CONFIRMED"}

(* One call leads the amenity, one holds a row.                            *)
Exclusion ==
  \A q, r \in Requests : q # r =>
    /\ ~(at[q] \in Leading /\ at[r] \in Leading)
    /\ ~(at[q] \in Releasing /\ at[r] \in Releasing /\ on[q] = on[r])

Locks == TypeOK /\ Knows /\ Exclusion

LEMMA InitLocks == Init => Locks
<1> SUFFICES ASSUME Init PROVE Locks
  OBVIOUS
<1> USE AmenityAssumption DEF Init
<1>1. TypeOK
  BY DEF TypeOK, BookingStatus, DepositStatus, NoSlot
<1>2. Knows /\ Exclusion
  BY DEF Knows, Exclusion, Releasing, Leading
<1> QED
  BY <1>1, <1>2 DEF Locks

(* The first step of a call that may wait locks a row and changes nothing. *)
LEMMA BeginKeeps ==
  ASSUME Locks, NEW r \in Requests, Begin(r)
  PROVE /\ UNCHANGED <<amenity, phase, rows, money, waiting>>
        /\ Locks'
<1>1. PICK b \in Bookings, op \in Releasing \cup Leading :
         /\ Start(r, op, b)
         /\ status[b] # "NONE"
         /\ op \in Releasing => status[b] \in {"PENDING", "CONFIRMED"} /\ ~RowLocked(b)
         /\ op \in Leading => ~AmenityLocked
  <2>1. PICK b \in Bookings :
          \/ StartCancel(r, b) \/ StartReject(r, b) \/ StartNoShow(r, b) \/ StartSweep(r, b)
          \/ \E u \in Units, w \in Windows : CreateWaits(r, u, w, b)
    BY DEF Begin
  <2>2. CASE StartCancel(r, b)
    BY <2>2 DEF StartCancel, Releasing, Leading
  <2>3. CASE StartReject(r, b)
    BY <2>3 DEF StartReject, Releasing, Leading
  <2>4. CASE StartNoShow(r, b)
    BY <2>4 DEF StartNoShow, Releasing, Leading
  <2>5. CASE StartSweep(r, b)
    BY <2>5 DEF StartSweep, Overdue, Releasing, Leading
  <2>6. CASE \E u \in Units, w \in Windows : CreateWaits(r, u, w, b)
    BY <2>6 DEF CreateWaits, SameSlot, Releasing, Leading
  <2> QED
    BY <2>1, <2>2, <2>3, <2>4, <2>5, <2>6
<1>2. UNCHANGED <<amenity, phase, rows, money, waiting>>
  BY <1>1 DEF Start
<1>3. TypeOK'
  BY <1>1, <1>2 DEF Start, Locks, TypeOK, amenity, rows, money
<1>4. Knows' /\ Exclusion'
  <2>1. \A q \in Requests : q # r => at'[q] = at[q] /\ on'[q] = on[q]
    BY <1>1 DEF Start, Locks, TypeOK
  <2>2. at'[r] = op /\ on'[r] = b /\ status' = status
    BY <1>1, <1>2 DEF Start, Locks, TypeOK, rows
  <2>3. Knows'
    BY <1>1, <2>1, <2>2 DEF Locks, Knows
  <2>4. \A q \in Requests : q # r =>
          /\ ~(at[q] \in Leading /\ op \in Leading)
          /\ ~(at[q] \in Releasing /\ op \in Releasing /\ on[q] = b)
    BY <1>1 DEF RowLocked, AmenityLocked
  <2>5. Exclusion'
    BY <2>1, <2>2, <2>4 DEF Locks, Exclusion
  <2> QED
    BY <2>3, <2>5
<1> QED
  BY <1>2, <1>3, <1>4 DEF Locks

(* A call that ends gives its locks back; rows that change were its own,   *)
(* or did not exist.                                                       *)
LEMMA EndKeeps ==
  ASSUME Locks, NEW r \in Requests, End(r), at[r] # "idle",
         \A b \in Bookings \ {on[r]} :
           status'[b] = status[b] \/ (status[b] = "NONE" /\ status'[b] # "NONE"),
         status'[on[r]] # "NONE",
         \/ status'[on[r]] = status[on[r]]
         \/ \A q \in Requests : q # r /\ at[q] \in Releasing => on[q] # on[r]
  PROVE Knows' /\ Exclusion'
<1>1. /\ at'[r] = "idle"
      /\ \A q \in Requests : q # r => at'[q] = at[q] /\ on'[q] = on[q]
  BY DEF End, Locks, TypeOK
<1>2. Exclusion'
  BY <1>1 DEF Locks, Exclusion, Releasing, Leading
<1>3. ASSUME NEW q \in Requests, q # r, at[q] # "idle"
      PROVE /\ on[q] \in Bookings /\ status'[on[q]] # "NONE"
            /\ at[q] \in Releasing => status'[on[q]] \in {"PENDING", "CONFIRMED"}
  <2>1. on[q] \in Bookings /\ status[on[q]] # "NONE"
    BY <1>3 DEF Locks, Knows
  <2>2. CASE on[q] # on[r]
    BY <1>3, <2>1, <2>2 DEF Locks, Knows
  <2>3. CASE on[q] = on[r]
    BY <1>3, <2>1, <2>3 DEF Locks, Knows
  <2> QED
    BY <2>1, <2>2, <2>3
<1>4. Knows'
  BY <1>1, <1>3 DEF Knows, Releasing
<1> QED
  BY <1>2, <1>4

(* A step of no call moves rows that nobody holds.                         *)
LEMMA RowKeeps ==
  ASSUME Locks, UNCHANGED calls,
         \A b \in Bookings :
           \/ status'[b] = status[b]
           \/ status[b] = "NONE" /\ status'[b] # "NONE"
           \/ ~RowLocked(b) /\ status'[b] # "NONE"
  PROVE Knows' /\ Exclusion'
<1>1. Knows'
  <2> SUFFICES ASSUME NEW r \in Requests, at[r] # "idle"
               PROVE  /\ on[r] \in Bookings /\ status'[on[r]] # "NONE"
                      /\ at[r] \in Releasing => status'[on[r]] \in {"PENDING", "CONFIRMED"}
    BY DEF Knows, calls, Releasing
  <2>1. on[r] \in Bookings /\ status[on[r]] # "NONE"
    BY DEF Locks, Knows
  <2> QED
    BY <2>1 DEF Locks, Knows, RowLocked
<1>2. Exclusion'
  BY DEF Locks, Exclusion, calls
<1> QED
  BY <1>1, <1>2

(* What a new booking and a promotion do to the rows and to the waiters.   *)
Typed ==
  /\ status' \in [Bookings -> BookingStatus]
  /\ deposit' \in [Bookings -> DepositStatus]
  /\ slot' \in [Bookings -> Slots \cup {NoSlot}]
  /\ \A b \in Bookings : status'[b] # "NONE" => slot'[b] \in Slots
  /\ waiting' \subseteq Units \X Windows

LEMMA InsertTyped ==
  ASSUME TypeOK, NEW st \in [Bookings -> BookingStatus], NEW dep \in [Bookings -> DepositStatus],
         NEW b \in Unused, NEW u \in Units, NEW w \in Windows,
         \A c \in Bookings : status[c] = "NONE" <=> st[c] = "NONE",
         Insert(b, u, w, st, dep), waiting' \subseteq waiting
  PROVE /\ Typed
        /\ \A c \in Bookings \ {b} : status'[c] = st[c] /\ slot'[c] = slot[c] /\ deposit'[c] = dep[c]
        /\ status'[b] = FirstStatus /\ deposit'[b] = FirstDeposit
        /\ slot'[b] = [unit |-> u, window |-> w]
        /\ FirstStatus \in {"PENDING", "CONFIRMED"}
<1>1. b \in Bookings /\ status[b] = "NONE"
  BY DEF Unused
<1>2. FirstStatus \in {"PENDING", "CONFIRMED"} /\ FirstDeposit \in DepositStatus
  BY DEF FirstStatus, FirstDeposit, DepositStatus
<1>3. [unit |-> u, window |-> w] \in Slots
  BY DEF Slots
<1> QED
  BY <1>1, <1>2, <1>3 DEF Insert, Typed, TypeOK, BookingStatus

LEMMA PromoteTyped ==
  ASSUME TypeOK, NEW st \in [Bookings -> BookingStatus], NEW dep \in [Bookings -> DepositStatus],
         NEW w \in Windows,
         \A c \in Bookings : status[c] = "NONE" <=> st[c] = "NONE",
         Promote(st, dep, w)
  PROVE /\ Typed
        /\ \A c \in Bookings : status'[c] = st[c] \/ (status[c] = "NONE" /\ status'[c] # "NONE")
<1>1. CASE status' = st /\ deposit' = dep /\ UNCHANGED <<slot, waiting>>
  BY <1>1 DEF Typed, TypeOK
<1>2. ASSUME NEW u \in Promotable(st, w), NEW b \in Unused,
             Insert(b, u, w, st, dep), waiting' = waiting \ {<<u, w>>}
      PROVE /\ Typed
            /\ \A c \in Bookings : status'[c] = st[c] \/ (status[c] = "NONE" /\ status'[c] # "NONE")
  <2>1. u \in Units
    BY DEF Promotable, Eligible
  <2>2. waiting' \subseteq waiting
    BY <1>2
  <2>3. /\ Typed
        /\ \A c \in Bookings \ {b} : status'[c] = st[c]
        /\ status'[b] = FirstStatus /\ FirstStatus \in {"PENDING", "CONFIRMED"}
    BY <1>2, <2>1, <2>2, InsertTyped
  <2> QED
    BY <2>3 DEF Unused
<1> QED
  BY <1>1, <1>2 DEF Promote

(* A release, with the promotion it may bring.                             *)
LEMMA EndReleaseKeeps ==
  ASSUME Locks, NEW r \in Requests, EndRelease(r)
  PROVE Locks'
<1> DEFINE b == on[r]
           st == [status EXCEPT ![b] = IF at[r] = "rejecting" THEN "REJECTED" ELSE "CANCELLED"]
           dep == [deposit EXCEPT ![b] = Released(b)]
<1>1. /\ at[r] \in Releasing /\ at[r] # "idle" /\ b \in Bookings
      /\ status[b] \in {"PENDING", "CONFIRMED"} /\ Window(b) \in Windows
  BY DEF EndRelease, Locks, Knows, TypeOK, Releasing, Slots, Window
<1>2. /\ Promote(st, dep, Window(b)) /\ End(r)
      /\ UNCHANGED <<amenity, phase, money>>
  BY DEF EndRelease
<1>3. st \in [Bookings -> BookingStatus] /\ dep \in [Bookings -> DepositStatus]
  BY <1>1 DEF Locks, TypeOK, BookingStatus, DepositStatus, Released
<1>4. \A c \in Bookings : status[c] = "NONE" <=> st[c] = "NONE"
  BY <1>1 DEF Locks, TypeOK
<1>5. /\ Typed
      /\ \A c \in Bookings : status'[c] = st[c] \/ (status[c] = "NONE" /\ status'[c] # "NONE")
  BY <1>1, <1>2, <1>3, <1>4, PromoteTyped DEF Locks
<1>6. TypeOK'
  BY <1>1, <1>2, <1>5 DEF Locks, TypeOK, Typed, End, amenity, money
<1>7. status'[b] # "NONE" /\ \A c \in Bookings \ {b} :
         status'[c] = status[c] \/ (status[c] = "NONE" /\ status'[c] # "NONE")
  BY <1>1, <1>5 DEF Locks, TypeOK
<1>8. \A q \in Requests : q # r /\ at[q] \in Releasing => on[q] # b
  BY <1>1 DEF Locks, Exclusion
<1>9. Knows' /\ Exclusion'
  BY <1>1, <1>2, <1>7, <1>8, EndKeeps
<1> QED
  BY <1>6, <1>9 DEF Locks

LEMMA EndSweepKeeps ==
  ASSUME Locks, NEW r \in Requests, EndSweep(r)
  PROVE Locks'
<1> DEFINE b == on[r]
           st == [status EXCEPT ![b] = "CANCELLED"]
           dep == [deposit EXCEPT ![b] = "VOIDED"]
<1>1. /\ at[r] \in Releasing /\ at[r] # "idle" /\ b \in Bookings
      /\ status[b] \in {"PENDING", "CONFIRMED"} /\ Window(b) \in Windows
  BY DEF EndSweep, Locks, Knows, TypeOK, Releasing, Slots, Window
<1>2. End(r) /\ UNCHANGED <<amenity, phase, money>>
  BY DEF EndSweep
<1>3. st \in [Bookings -> BookingStatus] /\ dep \in [Bookings -> DepositStatus]
  BY <1>1 DEF Locks, TypeOK, BookingStatus, DepositStatus
<1>4. \A c \in Bookings : status[c] = "NONE" <=> st[c] = "NONE"
  BY <1>1 DEF Locks, TypeOK
<1>5. CASE Promote(st, dep, Window(b))
  <2>1. /\ Typed
        /\ \A c \in Bookings : status'[c] = st[c] \/ (status[c] = "NONE" /\ status'[c] # "NONE")
    BY <1>1, <1>3, <1>4, <1>5, PromoteTyped DEF Locks
  <2>2. TypeOK'
    BY <1>1, <1>2, <2>1 DEF Locks, TypeOK, Typed, End, amenity, money
  <2>3. status'[b] # "NONE" /\ \A c \in Bookings \ {b} :
           status'[c] = status[c] \/ (status[c] = "NONE" /\ status'[c] # "NONE")
    BY <1>1, <2>1 DEF Locks, TypeOK
  <2>4. \A q \in Requests : q # r /\ at[q] \in Releasing => on[q] # b
    BY <1>1 DEF Locks, Exclusion
  <2>5. Knows' /\ Exclusion'
    BY <1>1, <1>2, <2>3, <2>4, EndKeeps
  <2> QED
    BY <2>2, <2>5 DEF Locks
<1>6. CASE UNCHANGED <<rows, waiting>>
  <2>1. TypeOK'
    BY <1>1, <1>2, <1>6 DEF Locks, TypeOK, End, amenity, money, rows
  <2>2. Knows' /\ Exclusion'
    BY <1>1, <1>2, <1>6, EndKeeps DEF rows
  <2> QED
    BY <2>1, <2>2 DEF Locks
<1> QED
  BY <1>5, <1>6 DEF EndSweep

LEMMA EndNoShowKeeps ==
  ASSUME Locks, NEW r \in Requests, EndNoShow(r)
  PROVE Locks'
<1>1. /\ at[r] = "noshow" /\ on[r] \in Bookings /\ status[on[r]] # "NONE"
      /\ End(r) /\ UNCHANGED <<amenity, phase, slot, money, waiting>>
  BY DEF EndNoShow, Locks, Knows
<1>2. /\ status' \in [Bookings -> BookingStatus] /\ deposit' \in [Bookings -> DepositStatus]
      /\ \A c \in Bookings \ {on[r]} : status'[c] = status[c]
      /\ status'[on[r]] \in {status[on[r]], "NO_SHOW"}
  BY <1>1 DEF EndNoShow, Locks, TypeOK, Owed, BookingStatus, DepositStatus
<1>3. TypeOK'
  BY <1>1, <1>2 DEF Locks, TypeOK, End, amenity, money
<1>4. \A q \in Requests : q # r /\ at[q] \in Releasing => on[q] # on[r]
  BY DEF EndNoShow, Waits, RowLocked, Leading
<1>5. Knows' /\ Exclusion'
  BY <1>1, <1>2, <1>4, EndKeeps
<1> QED
  BY <1>3, <1>5 DEF Locks

LEMMA CreateWaitedKeeps ==
  ASSUME Locks, NEW r \in Requests, NEW b \in Bookings, CreateWaited(r, b)
  PROVE Locks'
<1>1. /\ at[r] = "inserting" /\ on[r] \in Bookings /\ status[on[r]] # "NONE"
      /\ End(r) /\ UNCHANGED <<amenity, phase, money, waiting>>
      /\ Unit(on[r]) \in Units /\ Window(on[r]) \in Windows
  BY DEF CreateWaited, Locks, Knows, TypeOK, Slots, Unit, Window
<1>2. \A q \in Requests : q # r /\ at[q] \in Releasing => on[q] # on[r]
  BY DEF CreateWaited, Waits, RowLocked, Leading
<1>3. CASE UNCHANGED rows
  <2>1. TypeOK'
    BY <1>1, <1>3 DEF Locks, TypeOK, End, amenity, money, rows
  <2>2. Knows' /\ Exclusion'
    BY <1>1, <1>2, <1>3, EndKeeps DEF rows
  <2> QED
    BY <2>1, <2>2 DEF Locks
<1>4. CASE b \in Unused /\ Insert(b, Unit(on[r]), Window(on[r]), status, deposit)
  <2>1. /\ Typed /\ status'[b] \in {"PENDING", "CONFIRMED"}
        /\ \A c \in Bookings \ {b} : status'[c] = status[c]
    <3>1. TypeOK /\ status \in [Bookings -> BookingStatus] /\ deposit \in [Bookings -> DepositStatus]
      BY DEF Locks, TypeOK
    <3>2. waiting' \subseteq waiting /\ \A c \in Bookings : status[c] = "NONE" <=> status[c] = "NONE"
      BY <1>1
    <3>3. PICK u \in Units, w \in Windows : Insert(b, u, w, status, deposit)
      BY <1>1, <1>4
    <3> QED
      BY <1>4, <3>1, <3>2, <3>3, InsertTyped
  <2>2. TypeOK'
    BY <1>1, <2>1 DEF Locks, TypeOK, Typed, End, amenity, money
  <2>3. Knows' /\ Exclusion'
    BY <1>1, <1>2, <1>4, <2>1, EndKeeps DEF Unused
  <2> QED
    BY <2>2, <2>3 DEF Locks
<1> QED
  BY <1>3, <1>4 DEF CreateWaited

(* The steps of no call, and those that move a row nobody holds.           *)
LEMMA CreateBookingKeeps ==
  ASSUME Locks, NEW u \in Units, NEW w \in Windows, NEW b \in Bookings, CreateBooking(u, w, b)
  PROVE Locks'
<1>1. /\ b \in Unused /\ Insert(b, u, w, status, deposit)
      /\ UNCHANGED <<amenity, phase, money, waiting, calls>>
      /\ waiting' \subseteq waiting
  BY DEF CreateBooking
<1>2. TypeOK /\ status \in [Bookings -> BookingStatus] /\ deposit \in [Bookings -> DepositStatus]
  BY DEF Locks, TypeOK
<1>3. \A c \in Bookings : status[c] = "NONE" <=> status[c] = "NONE"
  OBVIOUS
<1>4. /\ Typed /\ status'[b] \in {"PENDING", "CONFIRMED"}
      /\ \A c \in Bookings \ {b} : status'[c] = status[c]
  BY <1>1, <1>2, <1>3, InsertTyped
<1>5. TypeOK'
  BY <1>1, <1>4 DEF Locks, TypeOK, Typed, amenity, money, calls
<1>6. Knows' /\ Exclusion'
  BY <1>1, <1>4, RowKeeps DEF Unused
<1> QED
  BY <1>5, <1>6 DEF Locks

LEMMA AttendKeeps ==
  ASSUME Locks, NEW b \in Bookings, Approve(b) \/ CheckIn(b) \/ Complete(b)
  PROVE Locks'
<1>1. UNCHANGED <<amenity, phase, slot, money, waiting, calls>>
  BY DEF Approve, CheckIn, Complete
<1>2. /\ status' \in [Bookings -> BookingStatus] /\ deposit' \in [Bookings -> DepositStatus]
      /\ status[b] # "NONE" /\ status'[b] # "NONE"
      /\ \A c \in Bookings \ {b} : status'[c] = status[c]
  BY DEF Approve, CheckIn, Complete, Owed, Locks, TypeOK, BookingStatus, DepositStatus
<1>3. ~RowLocked(b)
  BY DEF Approve, CheckIn, Complete, RowLocked, Locks, Knows
<1>4. TypeOK'
  BY <1>1, <1>2 DEF Locks, TypeOK, amenity, money, calls
<1>5. Knows' /\ Exclusion'
  BY <1>1, <1>2, <1>3, RowKeeps
<1> QED
  BY <1>4, <1>5 DEF Locks

LEMMA AsideKeeps ==
  ASSUME Locks, UNCHANGED <<status, slot, calls>>, Administer \/ Gateway \/ Clock
                  \/ (\E u \in Units, w \in Windows : JoinWaitlist(u, w))
                  \/ (\E e \in waiting : CancelWaitlist(e))
  PROVE Locks'
<1>1. Knows' /\ Exclusion'
  BY RowKeeps
<1>2. TypeOK'
  <2>1. CASE Administer
    <3>1. policy' \in Policies /\ blackouts' \subseteq Windows /\ hours' \in Hours \cup {None}
      BY <2>1 DEF Administer, UpdateAmenity, ApplyBlackout, RemoveBlackout, ApplyOperatingHours,
         Reschedule, Locks, TypeOK
    <3>2. UNCHANGED <<phase, deposit, money, waiting>>
      BY <2>1 DEF Administer, UpdateAmenity, ApplyBlackout, RemoveBlackout, ApplyOperatingHours,
         Reschedule, rows
    <3> QED
      BY <3>1, <3>2 DEF Locks, TypeOK, money, calls
  <2>2. CASE Gateway
    <3>1. /\ payment' \in [Bookings -> {"NONE", "CREATED", "CAPTURED", "FAILED", "REFUNDED"}]
          /\ deposit' \in [Bookings -> DepositStatus]
      BY <2>2 DEF Gateway, OrderDeposit, Captured, Failed, Refunded, Report, Locks, TypeOK,
         DepositStatus, rows
    <3>2. UNCHANGED <<amenity, phase, late, waiting>>
      BY <2>2 DEF Gateway, OrderDeposit, Captured, Failed, Refunded, Report
    <3> QED
      BY <3>1, <3>2 DEF Locks, TypeOK, amenity, calls
  <2>3. CASE Clock
    BY <2>3 DEF Clock, TimePasses, DeadlinePasses, Later, Locks, TypeOK, amenity, money, rows, calls
  <2>4. CASE \E u \in Units, w \in Windows : JoinWaitlist(u, w)
    BY <2>4 DEF JoinWaitlist, Locks, TypeOK, amenity, money, rows, calls
  <2>5. CASE \E e \in waiting : CancelWaitlist(e)
    BY <2>5 DEF CancelWaitlist, Locks, TypeOK, amenity, money, rows, calls
  <2> QED
    BY <2>1, <2>2, <2>3, <2>4, <2>5
<1> QED
  BY <1>1, <1>2 DEF Locks

LEMMA AsideQuiet ==
  ASSUME Administer \/ Gateway \/ Clock
           \/ (\E u \in Units, w \in Windows : JoinWaitlist(u, w))
           \/ (\E e \in waiting : CancelWaitlist(e))
  PROVE UNCHANGED <<status, slot, calls>>
<1>1. CASE Administer
  BY <1>1 DEF Administer, UpdateAmenity, ApplyBlackout, RemoveBlackout, ApplyOperatingHours,
     Reschedule, rows
<1>2. CASE Gateway
  BY <1>2 DEF Gateway, OrderDeposit, Captured, Failed, Refunded, Report, rows
<1>3. CASE Clock
  BY <1>3 DEF Clock, TimePasses, DeadlinePasses, rows
<1>4. CASE \E u \in Units, w \in Windows : JoinWaitlist(u, w)
  BY <1>4 DEF JoinWaitlist, rows
<1>5. CASE \E e \in waiting : CancelWaitlist(e)
  BY <1>5 DEF CancelWaitlist, rows
<1> QED
  BY <1>1, <1>2, <1>3, <1>4, <1>5

LEMMA AbortKeeps ==
  ASSUME Locks, NEW r \in Requests, Abort(r)
  PROVE Locks'
<1>1. /\ at[r] # "idle" /\ End(r) /\ UNCHANGED <<amenity, phase, rows, money, waiting>>
      /\ on[r] \in Bookings /\ status[on[r]] # "NONE"
  BY DEF Abort, Locks, Knows
<1>2. TypeOK'
  BY <1>1 DEF Locks, TypeOK, End, amenity, money, rows
<1>3. Knows' /\ Exclusion'
  BY <1>1, EndKeeps DEF rows
<1> QED
  BY <1>2, <1>3 DEF Locks

(* Every step is one of these.                                             *)
Aside ==
  \/ Administer \/ Gateway \/ Clock
  \/ \E u \in Units, w \in Windows : JoinWaitlist(u, w)
  \/ \E e \in waiting : CancelWaitlist(e)

Attend == \E b \in Bookings : Approve(b) \/ CheckIn(b) \/ Complete(b)

LEMMA StepCases ==
  ASSUME [Next]_vars
  PROVE \/ UNCHANGED vars \/ Aside \/ Attend
        \/ \E u \in Units, w \in Windows, b \in Bookings : CreateBooking(u, w, b)
        \/ \E r \in Requests :
             \/ Begin(r) \/ EndRelease(r) \/ EndNoShow(r) \/ EndSweep(r) \/ Abort(r)
             \/ \E b \in Bookings : CreateWaited(r, b)
  BY Zenon DEF Next, OneStepCall, Finish, Victim, Aside, Attend

LEMMA LocksKept == Locks /\ [Next]_vars => Locks'
<1> SUFFICES ASSUME Locks, [Next]_vars PROVE Locks'
  OBVIOUS
<1>1. CASE UNCHANGED vars
  BY <1>1 DEF Locks, TypeOK, Knows, Exclusion, vars, amenity, rows, money, calls
<1>2. CASE Aside
  BY <1>2, AsideQuiet, AsideKeeps DEF Aside
<1>3. CASE Attend
  BY <1>3, AttendKeeps DEF Attend
<1>4. CASE \E u \in Units, w \in Windows, b \in Bookings : CreateBooking(u, w, b)
  BY <1>4, CreateBookingKeeps
<1>5. ASSUME NEW r \in Requests,
             \/ Begin(r) \/ EndRelease(r) \/ EndNoShow(r) \/ EndSweep(r) \/ Abort(r)
             \/ \E b \in Bookings : CreateWaited(r, b)
      PROVE Locks'
  BY <1>5, BeginKeeps, EndReleaseKeeps, EndNoShowKeeps, EndSweepKeeps, AbortKeeps,
     CreateWaitedKeeps
<1> QED
  BY <1>1, <1>2, <1>3, <1>4, <1>5, StepCases

(* Rows and control points keep their shape, for every value of the        *)
(* constants.                                                              *)
THEOREM AmenityTyped == Spec => []TypeOK
<1>1. Locks => TypeOK
  BY DEF Locks
<1> QED
  BY <1>1, InitLocks, LocksKept, PTL DEF Spec
-----------------------------------------------------------------------------
(* Deposits.  What fits together on one row: nothing was ever ordered for  *)
(* a deposit not asked for, and a status says what may still be owed.      *)
Fits(s, d, p) ==
  /\ s = "NONE" => d = "NOT_REQUIRED"
  /\ s = "PENDING" => d \in {"NOT_REQUIRED", "APPROVAL_PENDING"}
  /\ s = "CONFIRMED" => d \in {"NOT_REQUIRED", "PAYMENT_REQUIRED", "CAPTURED", "REFUNDED"}
  /\ s = "CHECKED_IN" => d \in {"NOT_REQUIRED", "CAPTURED", "REFUNDED"}
  /\ d \in {"NOT_REQUIRED", "APPROVAL_PENDING"} => p = "NONE"
  /\ p = "CAPTURED" <=> d \in {"CAPTURED", "REFUND_REQUIRED"}
  /\ p = "REFUNDED" <=> d = "REFUNDED"
  /\ d = "CAPTURED" => s \in Active
  /\ d = "REFUND_REQUIRED" => s \notin Active

Deposits == \A b \in Bookings : Fits(status[b], deposit[b], payment[b])

(* A promotion or a direct booking fits, on top of rows that fit.          *)
LEMMA InsertFits ==
  ASSUME TypeOK, Deposits, UNCHANGED payment,
         NEW st \in [Bookings -> BookingStatus], NEW dep \in [Bookings -> DepositStatus],
         NEW b \in Unused, NEW u \in Units, NEW w \in Windows,
         \A c \in Bookings : status[c] = "NONE" <=> st[c] = "NONE",
         \A c \in Bookings : Fits(st[c], dep[c], payment[c]),
         Insert(b, u, w, st, dep), waiting' \subseteq waiting
  PROVE Deposits'
<1>1. /\ \A c \in Bookings \ {b} : status'[c] = st[c] /\ deposit'[c] = dep[c]
      /\ status'[b] = FirstStatus /\ deposit'[b] = FirstDeposit
  BY DEF Insert, Unused
<1>2. payment[b] = "NONE"
  BY DEF Unused, Deposits, Fits
<1>3. Fits(FirstStatus, FirstDeposit, "NONE")
  BY DEF Fits, FirstStatus, FirstDeposit, Active
<1> QED
  BY <1>1, <1>2, <1>3 DEF Deposits

LEMMA PromoteFits ==
  ASSUME TypeOK, Deposits, UNCHANGED payment,
         NEW st \in [Bookings -> BookingStatus], NEW dep \in [Bookings -> DepositStatus],
         NEW w \in Windows,
         \A c \in Bookings : status[c] = "NONE" <=> st[c] = "NONE",
         \A c \in Bookings : Fits(st[c], dep[c], payment[c]),
         Promote(st, dep, w)
  PROVE Deposits'
<1>1. CASE status' = st /\ deposit' = dep
  BY <1>1 DEF Deposits
<1>2. ASSUME NEW u \in Promotable(st, w), NEW b \in Unused,
             Insert(b, u, w, st, dep), waiting' = waiting \ {<<u, w>>}
      PROVE Deposits'
  <2>1. u \in Units /\ waiting' \subseteq waiting
    BY <1>2 DEF Promotable, Eligible
  <2> QED
    BY <1>2, <2>1, InsertFits
<1> QED
  BY <1>1, <1>2 DEF Promote

LEMMA DepositsKept == Locks /\ Deposits /\ [Next]_vars => Deposits'
<1> SUFFICES ASSUME Locks, Deposits, [Next]_vars PROVE Deposits'
  OBVIOUS
<1> USE DEF Locks
<1>1. CASE UNCHANGED <<status, deposit, payment>>
  BY <1>1 DEF Deposits
<1>2. CASE Aside
  <2>1. CASE Gateway
    BY <2>1 DEF Gateway, OrderDeposit, Captured, Failed, Refunded, Report, TypeOK, Deposits, Fits,
       Active, rows, DepositStatus
  <2>2. CASE Administer
    BY <1>1, <2>2 DEF Administer, UpdateAmenity, ApplyBlackout, RemoveBlackout,
       ApplyOperatingHours, Reschedule, rows, money
  <2>3. CASE Clock
    BY <1>1, <2>3 DEF Clock, TimePasses, DeadlinePasses, rows, money
  <2>4. CASE \E u \in Units, w \in Windows : JoinWaitlist(u, w)
    BY <1>1, <2>4 DEF JoinWaitlist, rows, money
  <2>5. CASE \E e \in waiting : CancelWaitlist(e)
    BY <1>1, <2>5 DEF CancelWaitlist, rows, money
  <2> QED
    BY <1>2, <2>1, <2>2, <2>3, <2>4, <2>5 DEF Aside
<1>3. CASE Attend
  <2>1. PICK b \in Bookings : Approve(b) \/ CheckIn(b) \/ Complete(b)
    BY <1>3 DEF Attend
  <2>2. UNCHANGED payment /\ \A c \in Bookings \ {b} : status'[c] = status[c] /\ deposit'[c] = deposit[c]
    BY <2>1 DEF Approve, CheckIn, Complete, TypeOK, money
  <2>3. Fits(status'[b], deposit'[b], payment[b])
    BY <2>1 DEF Approve, CheckIn, Complete, Owed, TypeOK, Deposits, Fits, Active, DepositStatus
  <2> QED
    BY <2>2, <2>3 DEF Deposits
<1>4. ASSUME NEW u \in Units, NEW w \in Windows, NEW b \in Bookings, CreateBooking(u, w, b)
      PROVE Deposits'
  <2>1. /\ b \in Unused /\ Insert(b, u, w, status, deposit)
        /\ waiting' \subseteq waiting /\ UNCHANGED payment
    BY <1>4 DEF CreateBooking, money
  <2> QED
    BY <1>4, <2>1, InsertFits DEF TypeOK, Deposits
<1>5. ASSUME NEW r \in Requests, Begin(r) \/ Abort(r) PROVE Deposits'
  BY <1>1, <1>5, BeginKeeps DEF Abort, rows, money
<1>6. ASSUME NEW r \in Requests, EndRelease(r) PROVE Deposits'
  <2> DEFINE b == on[r]
             st == [status EXCEPT ![b] = IF at[r] = "rejecting" THEN "REJECTED" ELSE "CANCELLED"]
             dep == [deposit EXCEPT ![b] = Released(b)]
  <2>1. /\ b \in Bookings /\ status[b] \in {"PENDING", "CONFIRMED"} /\ Window(b) \in Windows
    BY <1>6 DEF EndRelease, Knows, TypeOK, Releasing, Slots, Window
  <2>2. Promote(st, dep, Window(b)) /\ UNCHANGED payment
    BY <1>6 DEF EndRelease, money
  <2>3. st \in [Bookings -> BookingStatus] /\ dep \in [Bookings -> DepositStatus]
    BY <2>1 DEF TypeOK, BookingStatus, DepositStatus, Released
  <2>4. \A c \in Bookings : status[c] = "NONE" <=> st[c] = "NONE"
    BY <2>1 DEF TypeOK
  <2>5. \A c \in Bookings : Fits(st[c], dep[c], payment[c])
    BY <2>1 DEF TypeOK, Deposits, Fits, Released, Active, DepositStatus
  <2> HIDE DEF b, st, dep
  <2> QED
    BY <2>1, <2>2, <2>3, <2>4, <2>5, PromoteFits
<1>7. ASSUME NEW r \in Requests, EndSweep(r) PROVE Deposits'
  <2> DEFINE b == on[r]
             st == [status EXCEPT ![b] = "CANCELLED"]
             dep == [deposit EXCEPT ![b] = "VOIDED"]
  <2>1. b \in Bookings /\ Window(b) \in Windows /\ UNCHANGED payment /\ status[b] # "NONE"
    BY <1>7 DEF EndSweep, Knows, TypeOK, Releasing, Slots, Window, money
  <2>2. CASE Overdue(b) /\ Promote(st, dep, Window(b))
    <3>3. st \in [Bookings -> BookingStatus] /\ dep \in [Bookings -> DepositStatus]
      BY <2>1 DEF TypeOK, BookingStatus, DepositStatus
    <3>4. \A c \in Bookings : status[c] = "NONE" <=> st[c] = "NONE"
      BY <2>1 DEF TypeOK
    <3>5. \A c \in Bookings : Fits(st[c], dep[c], payment[c])
      BY <2>1, <2>2 DEF TypeOK, Deposits, Fits, Overdue, Active, DepositStatus
    <3> HIDE DEF b, st, dep
    <3> QED
      BY <2>1, <2>2, <3>3, <3>4, <3>5, PromoteFits
  <2>3. CASE UNCHANGED <<rows, waiting>>
    BY <1>1, <2>1, <2>3 DEF rows
  <2> QED
    BY <1>7, <2>2, <2>3 DEF EndSweep
<1>8. ASSUME NEW r \in Requests, EndNoShow(r) PROVE Deposits'
  BY <1>8 DEF EndNoShow, Owed, TypeOK, Deposits, Fits, Active, DepositStatus, money
<1>9. ASSUME NEW r \in Requests, NEW b \in Bookings, CreateWaited(r, b) PROVE Deposits'
  <2>1. Unit(on[r]) \in Units /\ Window(on[r]) \in Windows /\ UNCHANGED <<payment, waiting>>
    BY <1>9 DEF CreateWaited, Knows, TypeOK, Slots, Unit, Window, money
  <2>2. CASE b \in Unused /\ Insert(b, Unit(on[r]), Window(on[r]), status, deposit)
    <3>1. PICK u \in Units, w \in Windows : Insert(b, u, w, status, deposit)
      BY <2>1, <2>2
    <3> QED
      BY <2>1, <2>2, <3>1, InsertFits DEF TypeOK, Deposits
  <2>3. CASE UNCHANGED rows
    BY <1>1, <2>1, <2>3 DEF rows
  <2> QED
    BY <1>9, <2>2, <2>3 DEF CreateWaited
<1> QED
  BY <1>1, <1>2, <1>3, <1>4, <1>5, <1>6, <1>7, <1>8, <1>9, StepCases DEF vars, rows, money

(* Whichever of cancellation, sweep, no-show, completion and gateway       *)
(* report comes first, a deposit says where its money is.                  *)
THEOREM DepositsTrue == Spec => []DepositMatchesMoney
<1>1. Init => Deposits
  BY DEF Init, Deposits, Fits, Active
<1>2. Deposits => DepositMatchesMoney
  BY DEF Deposits, Fits, DepositMatchesMoney
<1> QED
  BY <1>1, <1>2, InitLocks, LocksKept, DepositsKept, PTL DEF Spec
-----------------------------------------------------------------------------
(* Capacity.  A call that waits for its slot has counted the places, and   *)
(* nobody takes one while it leads the amenity.                            *)
Room == \A r \in Requests : at[r] = "inserting" => FreeIn(status, Window(on[r]))

Capacity == NeverOverbooked /\ Room

LEMMA Places == Locks => policy.capacity \in Nat \ {0}
  BY AmenityAssumption DEF Locks, TypeOK

LEMMA Smaller ==
  ASSUME NEW S \in SUBSET Bookings, NEW T \in SUBSET S
  PROVE IsFiniteSet(S) /\ Cardinality(S) \in Nat /\ Cardinality(T) \in Nat
        /\ Cardinality(T) <= Cardinality(S)
  BY AmenityAssumption, FS_Subset, FS_CardinalityType

(* Active rows only leave or stay where they are.                          *)
Shrinks ==
  /\ policy'.capacity = policy.capacity
  /\ \A b \in Bookings : status'[b] \in Active => status[b] \in Active /\ slot'[b] = slot[b]

LEMMA ShrinkKeeps ==
  ASSUME Locks, NeverOverbooked, Shrinks
  PROVE /\ NeverOverbooked'
        /\ \A w \in Windows : FreeIn(status, w) => FreeIn(status, w)'
<1>1. ASSUME NEW w \in Windows, NEW t \in w
      PROVE Cardinality({b \in Bookings : status'[b] \in Active /\ t \in slot'[b].window})
              <= policy'.capacity
  <2> DEFINE S == {b \in Bookings : status[b] \in Active /\ t \in Window(b)}
             T == {b \in Bookings : status'[b] \in Active /\ t \in slot'[b].window}
  <2>1. S \in SUBSET Bookings /\ T \in SUBSET S
    BY DEF Shrinks, Window
  <2>2. Cardinality(S) <= policy.capacity
    BY <1>1 DEF NeverOverbooked
  <2>3. Cardinality(S) \in Nat /\ Cardinality(T) \in Nat /\ Cardinality(T) <= Cardinality(S)
    BY <2>1, Smaller
  <2> HIDE DEF S, T
  <2>4. Cardinality(T) <= policy'.capacity
    BY <2>2, <2>3, Places DEF Shrinks
  <2> QED
    BY <2>4 DEF T
<1>2. ASSUME NEW w \in Windows, FreeIn(status, w)
      PROVE FreeIn(status, w)'
  <2> DEFINE S == TakenIn(status, w)
             T == {b \in Bookings : status'[b] \in Active /\ Overlaps(slot'[b].window, w)}
  <2>1. S \in SUBSET Bookings /\ T \in SUBSET S
    BY DEF Shrinks, TakenIn, Window
  <2>2. Cardinality(S) < policy.capacity
    BY <1>2 DEF FreeIn
  <2>3. Cardinality(S) \in Nat /\ Cardinality(T) \in Nat /\ Cardinality(T) <= Cardinality(S)
    BY <2>1, Smaller
  <2> HIDE DEF S, T
  <2>4. Cardinality(T) < policy'.capacity
    BY <2>2, <2>3, Places DEF Shrinks
  <2> QED
    BY <2>4 DEF T, FreeIn, TakenIn, Window
<1> QED
  BY <1>1, <1>2 DEF NeverOverbooked, Window

(* One row more, in a window that still had a place when it was counted.   *)
LEMMA FillKeeps ==
  ASSUME Locks, NeverOverbooked, policy' = policy,
         NEW st, \A c \in Bookings : st[c] \in Active => status[c] \in Active,
         NEW b \in Bookings, status[b] = "NONE", NEW w \in Windows, FreeIn(st, w),
         \A c \in Bookings \ {b} : status'[c] = st[c] /\ slot'[c] = slot[c],
         slot'[b].window = w
  PROVE NeverOverbooked'
<1> SUFFICES ASSUME NEW v \in Windows, NEW t \in v
             PROVE Cardinality({c \in Bookings : status'[c] \in Active /\ t \in slot'[c].window})
                     <= policy.capacity
  BY DEF NeverOverbooked, Window
<1> DEFINE T == {c \in Bookings : status'[c] \in Active /\ t \in slot'[c].window}
<1>1. CASE t \in w
  <2> DEFINE S == TakenIn(st, w)
  <2>1. S \in SUBSET Bookings /\ S \cup {b} \in SUBSET Bookings /\ T \in SUBSET (S \cup {b})
    BY <1>1 DEF TakenIn, Window, Overlaps
  <2>2. Cardinality(S) < policy.capacity
    BY DEF FreeIn
  <2> HIDE DEF S, T
  <2>3. IsFiniteSet(S) /\ Cardinality(S) \in Nat
    BY <2>1, Smaller
  <2>4. Cardinality(S \cup {b}) <= Cardinality(S) + 1 /\ Cardinality(S \cup {b}) \in Nat
    <3>1. Cardinality(S \cup {b}) = IF b \in S THEN Cardinality(S) ELSE Cardinality(S) + 1
      BY <2>3, FS_AddElement
    <3> QED
      BY <2>3, <3>1
  <2>5. Cardinality(T) \in Nat /\ Cardinality(T) <= Cardinality(S \cup {b})
    BY <2>1, Smaller
  <2>6. Cardinality(T) <= policy.capacity
    BY <2>2, <2>3, <2>4, <2>5, Places
  <2> QED
    BY <2>6 DEF T
<1>2. CASE t \notin w
  <2> DEFINE S == {c \in Bookings : status[c] \in Active /\ t \in Window(c)}
  <2>1. S \in SUBSET Bookings /\ T \in SUBSET S
    BY <1>2 DEF Window
  <2>2. Cardinality(S) <= policy.capacity
    BY DEF NeverOverbooked
  <2> HIDE DEF S, T
  <2>3. Cardinality(S) \in Nat /\ Cardinality(T) \in Nat /\ Cardinality(T) <= Cardinality(S)
    BY <2>1, Smaller
  <2>4. Cardinality(T) <= policy.capacity
    BY <2>2, <2>3, Places
  <2> QED
    BY <2>4 DEF T
<1> QED
  BY <1>1, <1>2

(* Promotion after a release that left st, which has no row st does not.   *)
LEMMA PromoteCounts ==
  ASSUME Locks, NeverOverbooked, policy' = policy, NEW w \in Windows,
         NEW st \in [Bookings -> BookingStatus], NEW dep \in [Bookings -> DepositStatus],
         \A c \in Bookings : st[c] \in Active => status[c] \in Active,
         \A c \in Bookings : status[c] = "NONE" <=> st[c] = "NONE",
         Promote(st, dep, w)
  PROVE NeverOverbooked' /\ (phase[w] = "started" => Shrinks)
<1>1. CASE status' = st /\ UNCHANGED slot
  BY <1>1, ShrinkKeeps DEF Shrinks
<1>2. ASSUME NEW u \in Promotable(st, w), NEW b \in Unused,
             Insert(b, u, w, st, dep)
      PROVE NeverOverbooked' /\ phase[w] # "started"
  <2>1. FreeIn(st, w) /\ phase[w] # "started"
    BY DEF Promotable
  <2>2. /\ b \in Bookings /\ status[b] = "NONE" /\ slot'[b].window = w
        /\ \A c \in Bookings \ {b} : status'[c] = st[c] /\ slot'[c] = slot[c]
    BY <1>2 DEF Insert, Unused, Locks, TypeOK
  <2> QED
    BY <2>1, <2>2, FillKeeps
<1> QED
  BY <1>1, <1>2 DEF Promote

(* What was counted still holds for calls that keep leading.               *)
LEMMA RoomKeeps ==
  ASSUME Locks, Capacity,
         NEW R \in SUBSET Requests,
         \A r \in Requests \ R : at'[r] # "inserting",
         \A r \in R : at[r] = "inserting" /\ on'[r] = on[r],
         R # {} => Shrinks /\ \A c \in Bookings : status[c] # "NONE" => slot'[c] = slot[c]
  PROVE Room'
<1> SUFFICES ASSUME NEW r \in Requests, at'[r] = "inserting"
             PROVE (FreeIn(status, Window(on[r])))'
  BY DEF Room
<1>1. r \in R /\ at[r] = "inserting" /\ on'[r] = on[r] /\ Shrinks
  OBVIOUS
<1>2. on[r] \in Bookings /\ status[on[r]] # "NONE" /\ Window(on[r]) \in Windows
  BY <1>1 DEF Locks, Knows, TypeOK, Slots, Window
<1> DEFINE w == Window(on[r])
<1>3. FreeIn(status, w)
  BY <1>1 DEF Capacity, Room
<1>4. slot'[on'[r]].window = w
  BY <1>1, <1>2 DEF Window
<1> HIDE DEF w
<1>5. w \in Windows
  BY <1>2 DEF w
<1>6. Cardinality({b \in Bookings : status'[b] \in Active /\ Overlaps(slot'[b].window, w)}) < policy'.capacity
  BY <1>1, <1>3, <1>5, ShrinkKeeps DEF Capacity, FreeIn, TakenIn, Window
<1> QED
  BY <1>4, <1>6 DEF FreeIn, TakenIn, Window

(* The rows of a step that only leaves or moves inside them.               *)
LEMMA QuietCapacity ==
  ASSUME Locks, Capacity, Shrinks, UNCHANGED slot,
         \A r \in Requests : at'[r] = "inserting" => at[r] = "inserting" /\ on'[r] = on[r]
  PROVE Capacity'
<1> DEFINE R == {r \in Requests : at'[r] = "inserting"}
<1>1. Room'
  BY RoomKeeps, R \in SUBSET Requests
<1>2. NeverOverbooked'
  BY ShrinkKeeps DEF Capacity
<1> QED
  BY <1>1, <1>2 DEF Capacity

LEMMA CapacityKept == Locks /\ Capacity /\ [Next]_vars => Capacity'
<1> SUFFICES ASSUME Locks, Capacity, [Next]_vars PROVE Capacity'
  OBVIOUS
<1> DEFINE Same == \A r \in Requests : at'[r] = "inserting" => at[r] = "inserting" /\ on'[r] = on[r]
<1>0. ASSUME UNCHANGED <<policy, status, slot>>, Same PROVE Capacity'
  BY <1>0, QuietCapacity DEF Shrinks
<1>1. CASE UNCHANGED vars
  BY <1>0, <1>1 DEF vars, amenity, rows, calls
<1>2. CASE Aside
  <2>1. UNCHANGED <<status, slot, calls>>
    BY <1>2, AsideQuiet DEF Aside
  <2>2. CASE policy'.capacity = policy.capacity
    BY <2>1, <2>2, QuietCapacity DEF Shrinks, calls
  <2>3. CASE policy'.capacity # policy.capacity
    <3>1. policy' # policy
      BY <2>3
    <3>2. PICK p \in Policies, bl \in SUBSET Windows, h \in Hours : UpdateAmenity(p, bl, h)
      BY <1>2, <3>1 DEF Aside, Administer, Gateway, Clock, ApplyBlackout, RemoveBlackout,
         ApplyOperatingHours, OrderDeposit, Captured, Failed, Refunded, Report, TimePasses,
         DeadlinePasses, JoinWaitlist, CancelWaitlist, amenity
    <3>3. policy' = p /\ ~AmenityLocked /\ \A b \in Bookings : status[b] \notin Active
      BY <2>3, <3>2 DEF UpdateAmenity, Reschedule
    <3>4. NeverOverbooked'
      <4> SUFFICES ASSUME NEW v \in Windows, NEW t \in v
                   PROVE Cardinality({c \in Bookings : status'[c] \in Active /\ t \in slot'[c].window})
                           <= policy'.capacity
        BY DEF NeverOverbooked, Window
      <4> DEFINE T == {c \in Bookings : status'[c] \in Active /\ t \in slot'[c].window}
                 n == policy'.capacity
      <4>1. T = {}
        BY <2>1, <3>3
      <4>2. n \in Nat
        BY <3>3, AmenityAssumption
      <4> HIDE DEF T, n
      <4>3. Cardinality(T) = 0
        BY <4>1, FS_EmptySet
      <4>4. Cardinality(T) <= n
        BY <4>2, <4>3
      <4> QED
        BY <4>4 DEF T, n
    <3>5. Room'
      BY <2>1, <3>3 DEF Room, AmenityLocked, Leading, calls
    <3> QED
      BY <3>4, <3>5 DEF Capacity
  <2> QED
    BY <2>2, <2>3
<1>3. CASE Attend
  <2>1. PICK b \in Bookings : Approve(b) \/ CheckIn(b) \/ Complete(b)
    BY <1>3 DEF Attend
  <2>2. UNCHANGED <<policy, slot, calls>>
    BY <2>1 DEF Approve, CheckIn, Complete, amenity
  <2>3. Shrinks
    BY <2>1, <2>2 DEF Approve, CheckIn, Complete, Shrinks, Active, Locks, TypeOK
  <2> QED
    BY <2>2, <2>3, QuietCapacity DEF calls
<1>4. ASSUME NEW u \in Units, NEW w \in Windows, NEW b \in Bookings, CreateBooking(u, w, b)
      PROVE Capacity'
  <2>1. /\ ~AmenityLocked /\ FreeIn(status, w) /\ status[b] = "NONE" /\ UNCHANGED <<policy, calls>>
        /\ slot'[b].window = w
        /\ \A c \in Bookings \ {b} : status'[c] = status[c] /\ slot'[c] = slot[c]
    BY <1>4 DEF CreateBooking, Bookable, Insert, Unused, Locks, TypeOK, amenity
  <2>2. NeverOverbooked'
    BY <2>1, FillKeeps DEF Capacity
  <2>3. Room'
    BY <2>1 DEF Room, AmenityLocked, Leading, calls
  <2> QED
    BY <2>2, <2>3 DEF Capacity
<1>5. ASSUME NEW r \in Requests, Begin(r) PROVE Capacity'
  <2>1. UNCHANGED <<policy, status, slot>>
    BY <1>5, BeginKeeps DEF amenity, rows
  <2>2. CASE at'[r] # "inserting"
    <3>1. Same
      BY <1>5, <2>2 DEF Begin, StartCancel, StartReject, StartNoShow, StartSweep, CreateWaits, Start,
         Locks, TypeOK
    <3> QED
      BY <1>0, <2>1, <3>1
  <2>3. CASE at'[r] = "inserting"
    <3>1. PICK b \in Bookings, u \in Units, w \in Windows : CreateWaits(r, u, w, b)
      BY <1>5, <2>3 DEF Begin, StartCancel, StartReject, StartNoShow, StartSweep, Start, Locks, TypeOK
    <3>2. /\ ~AmenityLocked /\ FreeIn(status, w) /\ slot[b].window = w /\ on'[r] = b
          /\ \A q \in Requests : q # r => at'[q] = at[q]
      BY <3>1 DEF CreateWaits, Bookable, SameSlot, Start, Locks, TypeOK
    <3>3. \A q \in Requests : at'[q] = "inserting" => q = r
      BY <3>2 DEF AmenityLocked, Leading
    <3>4. Room'
      BY <2>1, <3>2, <3>3 DEF Room, FreeIn, TakenIn, Window
    <3>5. NeverOverbooked'
      BY <2>1, ShrinkKeeps DEF Shrinks, Capacity
    <3> QED
      BY <3>4, <3>5 DEF Capacity
  <2> QED
    BY <2>2, <2>3
<1>6. ASSUME NEW r \in Requests, EndRelease(r) PROVE Capacity'
  <2> DEFINE b == on[r]
             st == [status EXCEPT ![b] = IF at[r] = "rejecting" THEN "REJECTED" ELSE "CANCELLED"]
             dep == [deposit EXCEPT ![b] = Released(b)]
  <2>1. /\ b \in Bookings /\ status[b] \in {"PENDING", "CONFIRMED"} /\ Window(b) \in Windows
    BY <1>6 DEF EndRelease, Locks, Knows, TypeOK, Releasing, Slots, Window
  <2>2. /\ Promote(st, dep, Window(b)) /\ UNCHANGED policy /\ End(r)
        /\ phase[Window(b)] = "started" \/ ~AmenityLocked
    BY <1>6 DEF EndRelease, Waits, WaitsForAmenity, amenity
  <2>3. st \in [Bookings -> BookingStatus] /\ dep \in [Bookings -> DepositStatus]
    BY <2>1 DEF Locks, TypeOK, BookingStatus, DepositStatus, Released
  <2>4. \A c \in Bookings : status[c] = "NONE" <=> st[c] = "NONE"
    BY <2>1 DEF Locks, TypeOK
  <2>9. \A c \in Bookings : st[c] \in Active => status[c] \in Active
    BY <2>1 DEF Locks, TypeOK, Active
  <2>5. Same /\ at'[r] = "idle" /\ \A q \in Requests \ {r} : at'[q] = at[q]
    BY <2>2 DEF End, Locks, TypeOK
  <2>6. NeverOverbooked' /\ (phase[Window(b)] = "started" => Shrinks /\ UNCHANGED slot)
    <3> HIDE DEF b, st, dep
    <3>1. NeverOverbooked' /\ (phase[Window(b)] = "started" => Shrinks)
      BY <2>1, <2>2, <2>3, <2>4, <2>9, PromoteCounts DEF Capacity
    <3>2. ASSUME phase[Window(b)] = "started" PROVE UNCHANGED slot
      <4>1. Promotable(st, Window(b)) = {}
        BY <3>2 DEF Promotable
      <4> QED
        BY <2>2, <4>1 DEF Promote
    <3> QED
      BY <3>1, <3>2
  <2>7. CASE ~AmenityLocked
    BY <2>5, <2>6, <2>7 DEF Capacity, Room, AmenityLocked, Leading
  <2>8. CASE phase[Window(b)] = "started"
    BY <2>5, <2>6, <2>8, QuietCapacity
  <2> QED
    BY <2>2, <2>7, <2>8
<1>7. ASSUME NEW r \in Requests, EndSweep(r) PROVE Capacity'
  <2> DEFINE b == on[r]
             st == [status EXCEPT ![b] = "CANCELLED"]
             dep == [deposit EXCEPT ![b] = "VOIDED"]
  <2>1. b \in Bookings /\ Window(b) \in Windows /\ status[b] \in {"PENDING", "CONFIRMED"}
    BY <1>7 DEF EndSweep, Locks, Knows, TypeOK, Releasing, Slots, Window
  <2>2. UNCHANGED policy /\ End(r) /\ ~AmenityLocked
    BY <1>7 DEF EndSweep, Waits, WaitsForAmenity, amenity
  <2>3. Same
    BY <2>2 DEF End, Locks, TypeOK
  <2>4. Room'
    BY <2>2, <2>3 DEF Room, AmenityLocked, Leading
  <2>5. CASE Promote(st, dep, Window(b))
    <3>1. st \in [Bookings -> BookingStatus] /\ dep \in [Bookings -> DepositStatus]
      BY <2>1 DEF Locks, TypeOK, BookingStatus, DepositStatus
    <3>2. \A c \in Bookings : status[c] = "NONE" <=> st[c] = "NONE"
      BY <2>1 DEF Locks, TypeOK
    <3>4. \A c \in Bookings : st[c] \in Active => status[c] \in Active
      BY <2>1 DEF Locks, TypeOK, Active
    <3>3. NeverOverbooked'
      <4> HIDE DEF b, st, dep
      <4> QED
        BY <2>1, <2>2, <2>5, <3>1, <3>2, <3>4, PromoteCounts DEF Capacity
    <3> QED
      BY <2>4, <3>3 DEF Capacity
  <2>6. CASE UNCHANGED <<rows, waiting>>
    BY <1>0, <2>2, <2>3, <2>6 DEF rows
  <2> QED
    BY <1>7, <2>5, <2>6 DEF EndSweep
<1>8. ASSUME NEW r \in Requests, EndNoShow(r) PROVE Capacity'
  <2>1. UNCHANGED <<policy, slot>> /\ End(r)
    BY <1>8 DEF EndNoShow, amenity
  <2>2. Shrinks
    BY <1>8, <2>1 DEF EndNoShow, Shrinks, Active, Locks, TypeOK
  <2>3. Same
    BY <2>1 DEF End, Locks, TypeOK
  <2> QED
    BY <2>1, <2>2, <2>3, QuietCapacity
<1>9. ASSUME NEW r \in Requests, NEW b \in Bookings, CreateWaited(r, b) PROVE Capacity'
  <2>1. at[r] = "inserting" /\ End(r) /\ UNCHANGED policy
    BY <1>9 DEF CreateWaited, amenity
  <2>2. \A q \in Requests : at'[q] # "inserting"
    BY <2>1 DEF End, Locks, TypeOK, Exclusion, Leading
  <2>3. CASE UNCHANGED rows
    BY <1>0, <2>1, <2>2, <2>3 DEF rows
  <2>4. CASE b \in Unused /\ Insert(b, Unit(on[r]), Window(on[r]), status, deposit)
    <3> DEFINE w == Window(on[r])
    <3>1. w \in Windows /\ FreeIn(status, w)
      BY <2>1 DEF Locks, Knows, TypeOK, Slots, Window, Capacity, Room
    <3>2. /\ status[b] = "NONE" /\ slot'[b].window = w
          /\ \A c \in Bookings \ {b} : status'[c] = status[c] /\ slot'[c] = slot[c]
      BY <2>4 DEF Insert, Unused, Locks, TypeOK
    <3> HIDE DEF w
    <3>3. NeverOverbooked'
      BY <2>1, <3>1, <3>2, FillKeeps DEF Capacity
    <3> QED
      BY <2>2, <3>3 DEF Capacity, Room
  <2> QED
    BY <1>9, <2>3, <2>4 DEF CreateWaited
<1>10. ASSUME NEW r \in Requests, Abort(r) PROVE Capacity'
  <2>1. UNCHANGED <<policy, status, slot>> /\ Same
    BY <1>10 DEF Abort, End, Locks, TypeOK, amenity, rows
  <2> QED
    BY <1>0, <2>1
<1> QED
  BY <1>1, <1>2, <1>3, <1>4, <1>5, <1>6, <1>7, <1>8, <1>9, <1>10, StepCases

(* At no instant do more bookings stand than the amenity has places.       *)
THEOREM Capped == Spec => []NeverOverbooked
<1>1. Init => Capacity
  <2> SUFFICES ASSUME Init PROVE Capacity
    OBVIOUS
  <2>1. Room
    BY DEF Init, Room
  <2>2. NeverOverbooked
    <3> SUFFICES ASSUME NEW v \in Windows, NEW t \in v
                 PROVE Cardinality({c \in Bookings : status[c] \in Active /\ t \in Window(c)})
                         <= policy.capacity
      BY DEF NeverOverbooked
    <3>1. {c \in Bookings : status[c] \in Active /\ t \in Window(c)} = {}
      BY DEF Init, Active
    <3>2. policy.capacity \in Nat
      BY AmenityAssumption DEF Init
    <3> QED
      BY <3>1, <3>2, FS_EmptySet
  <2> QED
    BY <2>1, <2>2 DEF Capacity
<1>2. Capacity => NeverOverbooked
  BY DEF Capacity
<1> QED
  BY <1>1, <1>2, InitLocks, LocksKept, CapacityKept, PTL DEF Spec
-----------------------------------------------------------------------------
(* The waitlist.  Only joining adds an entry; only an administrator        *)
(* changes the schedule.                                                   *)
LEMMA WaitersKept == Locks /\ NoWaiterWhileClosed /\ [Next]_vars => NoWaiterWhileClosed'
<1> SUFFICES ASSUME Locks, NoWaiterWhileClosed, [Next]_vars PROVE NoWaiterWhileClosed'
  OBVIOUS
<1>1. ASSUME waiting' \subseteq waiting, UNCHANGED <<blackouts, hours>> PROVE NoWaiterWhileClosed'
  BY <1>1 DEF NoWaiterWhileClosed, OpenWindow
<1>2. CASE UNCHANGED vars
  BY <1>1, <1>2 DEF vars, amenity
<1>3. CASE Aside
  <2>1. CASE Administer
    <3>1. PICK bl \in SUBSET Windows, h \in Hours \cup {None} : Reschedule(bl, h)
      BY <2>1 DEF Administer, UpdateAmenity, ApplyBlackout, RemoveBlackout, ApplyOperatingHours,
         Locks, TypeOK
    <3>2. /\ UNCHANGED waiting /\ blackouts' = bl /\ hours' = h
          /\ bl # blackouts => \A e \in waiting, v \in bl : ~Overlaps(v, e[2])
          /\ h # hours => waiting = {}
      BY <3>1 DEF Reschedule, ScheduleAccepted
    <3> QED
      BY <3>2 DEF NoWaiterWhileClosed, OpenWindow
  <2>2. CASE Gateway \/ Clock
    BY <1>1, <2>2 DEF Gateway, OrderDeposit, Captured, Failed, Refunded, Report, Clock, TimePasses,
       DeadlinePasses, amenity
  <2>3. CASE \E e \in waiting : CancelWaitlist(e)
    BY <1>1, <2>3 DEF CancelWaitlist, amenity
  <2>4. ASSUME NEW u \in Units, NEW w \in Windows, JoinWaitlist(u, w) PROVE NoWaiterWhileClosed'
    <3>1. waiting' = waiting \cup {<<u, w>>} /\ OpenWindow(w) /\ UNCHANGED <<blackouts, hours>>
      BY <2>4 DEF JoinWaitlist, amenity
    <3> QED
      BY <3>1 DEF NoWaiterWhileClosed, OpenWindow
  <2> QED
    BY <1>3, <2>1, <2>2, <2>3, <2>4 DEF Aside
<1>4. CASE Attend
  BY <1>1, <1>4 DEF Attend, Approve, CheckIn, Complete, amenity
<1>5. ASSUME NEW u \in Units, NEW w \in Windows, NEW b \in Bookings, CreateBooking(u, w, b)
      PROVE NoWaiterWhileClosed'
  BY <1>1, <1>5 DEF CreateBooking, amenity
<1>6. ASSUME NEW r \in Requests, Begin(r) \/ Abort(r) PROVE NoWaiterWhileClosed'
  BY <1>1, <1>6, BeginKeeps DEF Abort, amenity
<1>7. ASSUME NEW r \in Requests, EndRelease(r) \/ EndSweep(r) PROVE NoWaiterWhileClosed'
  BY <1>1, <1>7 DEF EndRelease, EndSweep, Promote, amenity
<1>8. ASSUME NEW r \in Requests, EndNoShow(r) \/ (\E b \in Bookings : CreateWaited(r, b))
      PROVE NoWaiterWhileClosed'
  BY <1>1, <1>8 DEF EndNoShow, CreateWaited, amenity
<1> QED
  BY <1>2, <1>3, <1>4, <1>5, <1>6, <1>7, <1>8, StepCases

(* Nobody waits for a window that is closed.                               *)
THEOREM WaitersServable == Spec => []NoWaiterWhileClosed
<1>1. Init => NoWaiterWhileClosed
  BY DEF Init, NoWaiterWhileClosed
<1> QED
  BY <1>1, InitLocks, LocksKept, WaitersKept, PTL DEF Spec

(* NoIdlePlace for one window: the steps that free no place of it, and the *)
(* release that frees one and promotes.                                    *)
Disturbed(w) ==
  \E b \in Bookings :
    /\ status[b] # "NONE" /\ Overlaps(Window(b), w)
    /\ Window(b) # w \/ status[b] = "COMPLETED"

Settled(w) ==
  phase[w] # "started" /\ FreeIn(status, w) /\ Eligible(status, w) # {} => Disturbed(w)

(* The rows of a step that takes nothing away from w.                      *)
Holds(w) ==
  \A c \in Bookings :
    status[c] \in Active /\ Overlaps(Window(c), w) => status'[c] \in Active /\ slot'[c] = slot[c]

LEMMA HoldsKeeps ==
  ASSUME Locks, NEW w \in Windows, Holds(w), policy'.capacity = policy.capacity
  PROVE /\ FreeIn(status, w)' => FreeIn(status, w)
        /\ \A u : BusyIn(status, u, w) => BusyIn(status, u, w)'
<1> DEFINE S == TakenIn(status, w)
           T == {b \in Bookings : status'[b] \in Active /\ Overlaps(slot'[b].window, w)}
<1>1. T \in SUBSET Bookings /\ S \in SUBSET T
  BY DEF Holds, TakenIn, Window
<1>2. Cardinality(S) \in Nat /\ Cardinality(T) \in Nat /\ Cardinality(S) <= Cardinality(T)
  BY <1>1, Smaller
<1>3. \A u : BusyIn(status, u, w) => BusyIn(status, u, w)'
  BY DEF Holds, BusyIn, TakenIn, Unit, Window
<1>4. ASSUME Cardinality(T) < policy'.capacity PROVE Cardinality(S) < policy.capacity
  <2> HIDE DEF S, T
  <2> QED
    BY <1>2, <1>4, Places
<1>5. FreeIn(status, w)' <=> Cardinality(T) < policy'.capacity
  BY DEF FreeIn, TakenIn, Window
<1> QED
  BY <1>3, <1>4, <1>5 DEF FreeIn

LEMMA StepSettled ==
  ASSUME Locks, NEW w \in Windows, Settled(w), Holds(w), policy'.capacity = policy.capacity,
         phase'[w] # "started" => phase[w] # "started",
         waiting' \subseteq waiting, Disturbed(w) => Disturbed(w)'
  PROVE Settled(w)'
<1> SUFFICES ASSUME phase'[w] # "started", FreeIn(status, w)', NEW u \in Eligible(status, w)'
             PROVE Disturbed(w)'
  BY DEF Settled
<1>1. FreeIn(status, w) /\ ~BusyIn(status, u, w)
  BY HoldsKeeps DEF Eligible
<1>2. u \in Eligible(status, w)
  BY <1>1 DEF Eligible
<1> QED
  BY <1>1, <1>2 DEF Settled

LEMMA DisturbedKeeps ==
  ASSUME NEW w,
         \A c \in Bookings : status[c] # "NONE" =>
           /\ status'[c] # "NONE" /\ slot'[c] = slot[c]
           /\ status[c] = "COMPLETED" => status'[c] = "COMPLETED"
  PROVE Disturbed(w) => Disturbed(w)'
  BY DEF Disturbed, Window

(* A waiter is promoted into the place that becomes free, and the only     *)
(* unit the release makes eligible is the one that had it.                 *)
LEMMA ReleaseSettled ==
  ASSUME Locks, NoWaiterWhileClosed, NEW w \in Windows, Settled(w),
         NEW b \in Bookings, status[b] \in {"PENDING", "CONFIRMED"},
         NEW st, NEW x \in {"REJECTED", "CANCELLED"}, st = [status EXCEPT ![b] = x],
         NEW dep, Promote(st, dep, Window(b)), UNCHANGED <<amenity, phase>>
  PROVE Settled(w)'
<1>1. /\ st[b] = x
      /\ \A c \in Bookings \ {b} : st[c] = status[c]
  BY DEF Locks, TypeOK
<1>2. /\ \A c \in Bookings : status[c] # "NONE" => status'[c] = st[c] /\ slot'[c] = slot[c]
      /\ waiting' \subseteq waiting
  BY <1>1 DEF Promote, Insert, Unused, Locks, TypeOK
<1>3. Disturbed(w) => Disturbed(w)'
  BY <1>1, <1>2, DisturbedKeeps
<1>4. CASE ~Overlaps(Window(b), w)
  <2>1. Holds(w)
    BY <1>1, <1>2, <1>4 DEF Holds, Active
  <2> QED
    BY <1>2, <1>3, <2>1, StepSettled DEF amenity
<1>5. CASE Overlaps(Window(b), w) /\ Window(b) # w
  BY <1>1, <1>2, <1>5 DEF Settled, Disturbed, Window
<1>6. CASE Window(b) = w
  <2> SUFFICES ASSUME ~Disturbed(w), phase[w] # "started", FreeIn(status, w)',
                      NEW u \in Eligible(status, w)'
               PROVE FALSE
    BY <1>3 DEF Settled
  <2>1. ~FreeIn(status, w) \/ Eligible(status, w) = {}
    BY DEF Settled
  <2>2. u \in Units /\ <<u, w>> \in waiting' /\ ~BusyIn(status, u, w)'
    BY DEF Eligible
  <2>3. OpenWindow(w)
    <3>1. <<u, w>> \in waiting /\ <<u, w>>[2] = w
      BY <1>2, <2>2
    <3> QED
      BY <3>1 DEF NoWaiterWhileClosed
  <2>4. ASSUME Promotable(st, w) = {}, status' = st, UNCHANGED <<slot, waiting>> PROVE FALSE
    <3>1. FreeIn(st, w) /\ u \in Eligible(st, w)
      BY <2>2, <2>4 DEF FreeIn, TakenIn, Eligible, BusyIn, Window, Unit, amenity
    <3> QED
      BY <2>3, <2>4, <3>1 DEF Promotable
  <2>5. ASSUME NEW p \in Promotable(st, w), NEW n \in Unused,
               Insert(n, p, w, st, dep), waiting' = waiting \ {<<p, w>>}
        PROVE FALSE
    <3> DEFINE S == TakenIn(status, w)
               T == {c \in Bookings : status'[c] \in Active /\ Overlaps(slot'[c].window, w)}
    <3>1. /\ n \in Bookings /\ status[n] = "NONE" /\ status'[n] \in Active /\ slot'[n].window = w
          /\ \A c \in Bookings \ {n} : status'[c] = st[c] /\ slot'[c] = slot[c]
      BY <2>5, <1>1 DEF Insert, Unused, FirstStatus, Active, Locks, TypeOK
    <3>2. Overlaps(w, w)
      BY AmenityAssumption DEF Overlaps
    <3>3. S \in SUBSET Bookings /\ T \in SUBSET Bookings /\ b \in S /\ n \notin S
      BY <1>6, <3>1, <3>2 DEF TakenIn, Active
    <3>4. ((S \ {b}) \cup {n}) \in SUBSET T
      BY <1>1, <3>1, <3>2, <3>3 DEF TakenIn, Window
    <3>5. Cardinality(T) < policy.capacity
      BY DEF FreeIn, TakenIn, Window, amenity
    <3>6. CASE ~FreeIn(status, w)
      <4>1. ~(Cardinality(S) < policy.capacity)
        BY <3>6 DEF FreeIn
      <4> HIDE DEF S, T
      <4>2. IsFiniteSet(S) /\ Cardinality(S) \in Nat /\ IsFiniteSet(S \ {b})
        BY <3>3, Smaller, FS_RemoveElement
      <4>3. Cardinality(S \ {b}) = Cardinality(S) - 1
        BY <3>3, <4>2, FS_RemoveElement
      <4>4. Cardinality((S \ {b}) \cup {n}) = Cardinality(S \ {b}) + 1
        BY <3>3, <4>2, FS_AddElement
      <4>5. Cardinality((S \ {b}) \cup {n}) <= Cardinality(T) /\ Cardinality(T) \in Nat
        BY <3>3, <3>4, Smaller
      <4> QED
        BY <3>5, <4>1, <4>2, <4>3, <4>4, <4>5, Places
    <3>7. CASE Eligible(status, w) = {}
      <4>1. p \in Units /\ <<p, w>> \in waiting /\ ~BusyIn(st, p, w) /\ u # p /\ <<u, w>> \in waiting
        BY <2>2, <2>5 DEF Promotable, Eligible
      <4>2. BusyIn(status, u, w) /\ BusyIn(status, p, w)
        BY <2>2, <3>7, <4>1 DEF Eligible
      <4>3. Unit(b) = p
        BY <1>1, <4>1, <4>2 DEF BusyIn, TakenIn
      <4>4. Unit(b) = u
        BY <1>1, <2>2, <3>1, <4>2 DEF BusyIn, TakenIn, Unit, Window, Active
      <4> QED
        BY <4>1, <4>3, <4>4
    <3> QED
      BY <2>1, <3>6, <3>7
  <2> QED
    BY <1>6, <2>4, <2>5 DEF Promote
<1> QED
  BY <1>4, <1>5, <1>6

(* A step that writes no row and adds no waiter.                           *)
LEMMA StillSettled ==
  ASSUME Locks, NEW w \in Windows, Settled(w), UNCHANGED <<policy, status, slot>>,
         phase'[w] # "started" => phase[w] # "started", waiting' \subseteq waiting
  PROVE Settled(w)'
<1>1. Holds(w) /\ (Disturbed(w) => Disturbed(w)')
  BY DisturbedKeeps DEF Holds
<1> QED
  BY <1>1, StepSettled

(* A direct booking takes a place and frees none.                          *)
LEMMA InsertSettled ==
  ASSUME Locks, NEW w \in Windows, Settled(w), NEW b \in Unused, NEW u \in Units,
         NEW v \in Windows, Insert(b, u, v, status, deposit),
         UNCHANGED <<amenity, phase, waiting>>
  PROVE Settled(w)'
<1>1. /\ b \in Bookings /\ status[b] = "NONE"
      /\ \A c \in Bookings \ {b} : status'[c] = status[c] /\ slot'[c] = slot[c]
  BY DEF Insert, Unused, Locks, TypeOK
<1>2. Holds(w)
  BY <1>1 DEF Holds, Active
<1>3. Disturbed(w) => Disturbed(w)'
  BY <1>1, DisturbedKeeps
<1> QED
  BY <1>2, <1>3, StepSettled DEF amenity

LEMMA SettledKept ==
  ASSUME Locks, NoWaiterWhileClosed, [Next]_vars, NEW w \in Windows, Settled(w)
  PROVE Settled(w)'
<1>1. CASE UNCHANGED vars
  BY <1>1, StillSettled DEF vars, amenity, rows
<1>2. CASE Aside
  <2>1. UNCHANGED <<status, slot>>
    BY <1>2, AsideQuiet DEF Aside
  <2>2. CASE Gateway \/ (\E e \in waiting : CancelWaitlist(e))
    <3>1. UNCHANGED <<policy, phase>> /\ waiting' \subseteq waiting
      BY <2>2 DEF Gateway, OrderDeposit, Captured, Failed, Refunded, Report, CancelWaitlist, amenity
    <3> QED
      BY <2>1, <3>1, StillSettled
  <2>3. CASE Clock
    <3>1. UNCHANGED <<policy, waiting>> /\ (phase'[w] # "started" => phase[w] # "started")
      BY <2>3 DEF Clock, TimePasses, DeadlinePasses, Later, Locks, TypeOK, amenity
    <3> QED
      BY <2>1, <3>1, StillSettled
  <2>4. ASSUME NEW u \in Units, NEW v \in Windows, JoinWaitlist(u, v) PROVE Settled(w)'
    <3>1. ~FreeIn(status, v) /\ UNCHANGED <<policy, phase>> /\ waiting' = waiting \cup {<<u, v>>}
      BY <2>4 DEF JoinWaitlist, amenity
    <3>2. CASE v = w
      BY <2>1, <3>1, <3>2 DEF Settled, FreeIn, TakenIn, Window
    <3>3. CASE v # w
      <4>1. FreeIn(status, w)' <=> FreeIn(status, w)
        BY <2>1, <3>1 DEF FreeIn, TakenIn, Window
      <4>2. Eligible(status, w)' = Eligible(status, w)
        BY <2>1, <3>1, <3>3 DEF Eligible, BusyIn, TakenIn, Window, Unit
      <4>3. Disturbed(w) => Disturbed(w)'
        BY <2>1, DisturbedKeeps
      <4> QED
        BY <3>1, <4>1, <4>2, <4>3 DEF Settled
    <3> QED
      BY <3>2, <3>3
  <2>5. CASE Administer
    <3>1. UNCHANGED <<phase, waiting>>
      BY <2>5 DEF Administer, UpdateAmenity, ApplyBlackout, RemoveBlackout, ApplyOperatingHours,
         Reschedule
    <3>2. CASE policy'.capacity = policy.capacity
      <4>1. Holds(w) /\ (Disturbed(w) => Disturbed(w)')
        BY <2>1, DisturbedKeeps DEF Holds
      <4> QED
        BY <3>1, <3>2, <4>1, StepSettled
    <3>3. CASE policy'.capacity # policy.capacity
      <4>1. \A b \in Bookings : status[b] \notin Active
        <5>1. policy' # policy
          BY <3>3
        <5> QED
          BY <2>5, <3>3, <5>1 DEF Administer, UpdateAmenity, ApplyBlackout, RemoveBlackout,
             ApplyOperatingHours
      <4>2. TakenIn(status, w) = {}
        BY <4>1 DEF TakenIn
      <4>3. FreeIn(status, w)
        BY <4>2, FS_EmptySet, Places DEF FreeIn
      <4>4. \A u : ~BusyIn(status, u, w)
        BY <4>2 DEF BusyIn
      <4>5. Eligible(status, w)' \subseteq Eligible(status, w)
        BY <3>1, <4>4 DEF Eligible
      <4>6. Disturbed(w) => Disturbed(w)'
        BY <2>1, DisturbedKeeps
      <4> QED
        BY <3>1, <4>3, <4>5, <4>6 DEF Settled
    <3> QED
      BY <3>2, <3>3
  <2> QED
    BY <1>2, <2>2, <2>3, <2>4, <2>5 DEF Aside
<1>3. CASE Attend
  <2>1. PICK b \in Bookings : Approve(b) \/ CheckIn(b) \/ Complete(b)
    BY <1>3 DEF Attend
  <2>2. UNCHANGED <<policy, phase, slot, waiting>> /\ \A c \in Bookings \ {b} : status'[c] = status[c]
    BY <2>1 DEF Approve, CheckIn, Complete, Locks, TypeOK, amenity
  <2>3. status[b] \in {"PENDING", "CONFIRMED", "CHECKED_IN"} /\ status'[b] \in {"CONFIRMED", "CHECKED_IN", "COMPLETED"}
    BY <2>1 DEF Approve, CheckIn, Complete, Locks, TypeOK
  <2>4. Disturbed(w) => Disturbed(w)'
    BY <2>2, <2>3, DisturbedKeeps
  <2>5. CASE status'[b] = "COMPLETED" /\ Overlaps(Window(b), w)
    BY <2>2, <2>5 DEF Settled, Disturbed, Window
  <2>6. CASE ~(status'[b] = "COMPLETED" /\ Overlaps(Window(b), w))
    <3>1. Holds(w)
      BY <2>2, <2>3, <2>6 DEF Holds, Active
    <3> QED
      BY <2>2, <2>4, <3>1, StepSettled
  <2> QED
    BY <2>5, <2>6
<1>4. ASSUME NEW u \in Units, NEW v \in Windows, NEW b \in Bookings, CreateBooking(u, v, b)
      PROVE Settled(w)'
  BY <1>4, InsertSettled DEF CreateBooking
<1>5. ASSUME NEW r \in Requests, Begin(r) \/ Abort(r) PROVE Settled(w)'
  BY <1>5, BeginKeeps, StillSettled DEF Abort, amenity, rows
<1>6. ASSUME NEW r \in Requests, EndRelease(r) PROVE Settled(w)'
  <2> DEFINE b == on[r]
             x == IF at[r] = "rejecting" THEN "REJECTED" ELSE "CANCELLED"
             st == [status EXCEPT ![b] = x]
             dep == [deposit EXCEPT ![b] = Released(b)]
  <2>1. b \in Bookings /\ status[b] \in {"PENDING", "CONFIRMED"}
    BY <1>6 DEF EndRelease, Locks, Knows, Releasing
  <2>2. Promote(st, dep, Window(b)) /\ UNCHANGED <<amenity, phase>>
    BY <1>6 DEF EndRelease
  <2>3. x \in {"REJECTED", "CANCELLED"} /\ st = [status EXCEPT ![b] = x]
    OBVIOUS
  <2> HIDE DEF b, x, st, dep
  <2> QED
    BY <2>1, <2>2, <2>3, ReleaseSettled
<1>7. ASSUME NEW r \in Requests, EndSweep(r) PROVE Settled(w)'
  <2> DEFINE b == on[r]
             st == [status EXCEPT ![b] = "CANCELLED"]
             dep == [deposit EXCEPT ![b] = "VOIDED"]
  <2>1. b \in Bookings /\ status[b] \in {"PENDING", "CONFIRMED"} /\ UNCHANGED <<amenity, phase>>
    BY <1>7 DEF EndSweep, Locks, Knows, Releasing
  <2>2. CASE Promote(st, dep, Window(b))
    <3>1. st = [status EXCEPT ![b] = "CANCELLED"]
      OBVIOUS
    <3> HIDE DEF b, st, dep
    <3> QED
      BY <2>1, <2>2, <3>1, ReleaseSettled
  <2>3. CASE UNCHANGED <<rows, waiting>>
    BY <2>1, <2>3, StillSettled DEF rows, amenity
  <2> QED
    BY <1>7, <2>2, <2>3 DEF EndSweep
<1>8. ASSUME NEW r \in Requests, EndNoShow(r) PROVE Settled(w)'
  <2> DEFINE b == on[r]
  <2>1. b \in Bookings /\ status[b] # "NONE" /\ UNCHANGED <<policy, phase, slot, waiting>>
    BY <1>8 DEF EndNoShow, Locks, Knows, amenity
  <2>2. CASE status[b] = "CONFIRMED" /\ phase[Window(b)] = "started" /\ status' = [status EXCEPT ![b] = "NO_SHOW"]
    <3>1. status'[b] = "NO_SHOW" /\ \A c \in Bookings \ {b} : status'[c] = status[c]
      BY <2>1, <2>2 DEF Locks, TypeOK
    <3>2. Disturbed(w) => Disturbed(w)'
      BY <2>1, <2>2, <3>1, DisturbedKeeps
    <3>3. CASE Window(b) = w
      BY <2>1, <2>2, <3>3 DEF Settled
    <3>4. CASE Window(b) # w /\ Overlaps(Window(b), w)
      BY <2>1, <3>1, <3>4 DEF Settled, Disturbed, Window
    <3>5. CASE ~Overlaps(Window(b), w)
      <4>1. Holds(w)
        BY <2>1, <3>1, <3>5 DEF Holds
      <4> QED
        BY <2>1, <3>2, <4>1, StepSettled
    <3> QED
      BY <3>3, <3>4, <3>5
  <2>3. CASE UNCHANGED <<status, deposit>>
    BY <2>1, <2>3, StillSettled
  <2> QED
    BY <1>8, <2>2, <2>3 DEF EndNoShow
<1>9. ASSUME NEW r \in Requests, NEW b \in Bookings, CreateWaited(r, b) PROVE Settled(w)'
  <2>1. /\ Unit(on[r]) \in Units /\ Window(on[r]) \in Windows
        /\ UNCHANGED <<amenity, phase, waiting>>
    BY <1>9 DEF CreateWaited, Locks, Knows, TypeOK, Slots, Unit, Window
  <2>2. CASE b \in Unused /\ Insert(b, Unit(on[r]), Window(on[r]), status, deposit)
    <3>1. PICK u \in Units, v \in Windows : Insert(b, u, v, status, deposit)
      BY <2>1, <2>2
    <3> QED
      BY <2>1, <2>2, <3>1, InsertSettled
  <2>3. CASE UNCHANGED rows
    BY <2>1, <2>3, StillSettled DEF rows, amenity
  <2> QED
    BY <1>9, <2>2, <2>3 DEF CreateWaited
<1> QED
  BY <1>1, <1>2, <1>3, <1>4, <1>5, <1>6, <1>7, <1>8, <1>9, StepCases

(* Every release of exactly this window promotes whoever can have it.      *)
THEOREM PlacesFilled == Spec => []NoIdlePlace
<1> DEFINE Inv == NoIdlePlace /\ NoWaiterWhileClosed
<1>1. NoIdlePlace <=> \A w \in Windows : Settled(w)
  BY DEF NoIdlePlace, Settled, Disturbed
<1>2. Init => Inv
  BY DEF Init, NoIdlePlace, Eligible, NoWaiterWhileClosed
<1>3. Locks /\ Inv /\ [Next]_vars => Inv'
  <2> SUFFICES ASSUME Locks, Inv, [Next]_vars PROVE Inv'
    OBVIOUS
  <2>1. ASSUME NEW w \in Windows PROVE Settled(w)'
    BY <1>1, <2>1, SettledKept
  <2>2. NoIdlePlace'
    BY <2>1 DEF NoIdlePlace, Settled, Disturbed
  <2> QED
    BY <2>2, WaitersKept
<1>4. Inv => NoIdlePlace
  OBVIOUS
<1> QED
  BY <1>2, <1>3, <1>4, InitLocks, LocksKept, PTL DEF Spec
-----------------------------------------------------------------------------
(* Waiting calls.  Whoever waits for the amenity waits for the one call    *)
(* that leads it; that one waits only for a release of its booking, which  *)
(* either needs the amenity, and the two are crossed, or can end.          *)
LEMMA SomeoneEnds == Locks => SomeCallCanEnd
<1> SUFFICES ASSUME Locks, NEW q \in Requests, at[q] # "idle"
             PROVE \E r \in Requests : at[r] # "idle" /\ (~Waits(r) \/ Deadlocked(r))
  BY DEF SomeCallCanEnd
<1>1. CASE AmenityLocked
  <2>1. PICK r \in Requests : at[r] \in Leading
    BY <1>1 DEF AmenityLocked
  <2>2. ASSUME NEW s \in Requests, at[s] \in Releasing, on[s] = on[r], WaitsForAmenity(s)
        PROVE Deadlocked(r)
    BY <2>1, <2>2 DEF Deadlocked, Crossed
  <2>3. ASSUME NEW s \in Requests, at[s] \in Releasing, ~WaitsForAmenity(s)
        PROVE at[s] # "idle" /\ ~Waits(s)
    BY <2>3 DEF Waits, Releasing, Leading
  <2>4. at[r] # "idle" /\ ~WaitsForAmenity(r)
    BY <2>1 DEF Leading, WaitsForAmenity
  <2> QED
    BY <2>1, <2>2, <2>3, <2>4 DEF Waits, RowLocked
<1>2. CASE ~AmenityLocked
  BY <1>2 DEF AmenityLocked, Waits
<1> QED
  BY <1>1, <1>2

(* Some call for the amenity can always finish, or is a victim of the one  *)
(* deadlock its locks allow.                                               *)
THEOREM AmenityNeverStuck == Spec => []SomeCallCanEnd
  BY InitLocks, LocksKept, SomeoneEnds, PTL DEF Spec
=============================================================================
