--------------------------- MODULE GateVisitsProofs ---------------------------
(* For any number of visits, taps, phones, overlapping calls and faults:   *)
(* a visit is entered and left at most once, no unanswered tap is dropped, *)
(* and a guard is told of nothing that did not happen.                     *)
EXTENDS GateVisits, TLAPS

(* A call carries the key of a tap, and keeps it while somebody waits.     *)
Carried == \A c \in Calls : step[c] # "free" => carries[c] \in Keys /\ action[carries[c]] # None

Waiting ==
  \A p \in Phones : wait[p] # None =>
    step[wait[p]] # "free" /\ action[carries[wait[p]]].phone = p

(* A call that was looked up is at the gate it belongs to.                 *)
PastLookUp ==
  \A c \in Calls : step[c] \in {"found", "fresh", "ready"} =>
    /\ status[Act(c).visit] # "NONE"
    /\ origin[Act(c).visit] \in Phones => origin[Act(c).visit] = Act(c).phone

TapMade == \A k \in Keys : told[k] = "unused" <=> action[k] = None

(* A receipt is of the move its key was made for.                          *)
ReceiptFits ==
  \A k \in Keys : receipt[k] # None =>
    action[k] # None /\ receipt[k] = <<action[k].visit, action[k].move>>

DoneTrue == \A c \in Calls : step[c] = "done" => receipt[carries[c]] # None

(* While a queue is synced, each open action of it has its working copy.   *)
SyncCopy ==
  \A p \in Phones, k \in Keys :
    doing[p] = "sync" /\ k \in Mine(p) /\ told[k] = "open" /\ stored[k] # "absent" => progress[k] # "absent"

CallsInv == Carried /\ PastLookUp /\ DoneTrue
TapsInv == TapMade /\ ReceiptFits /\ EnteredOnce /\ ToldTrue
QueueInv == SyncCopy /\ OpenActionsHeld
IInv == TypeOK /\ CallsInv /\ Waiting /\ TapsInv /\ QueueInv

LEMMA InitInv == Init => IInv
<1> SUFFICES ASSUME Init PROVE IInv
  OBVIOUS
<1> USE GateAssumption DEF Init
<1>1. TypeOK
  BY DEF TypeOK, Statuses, Taps
<1>2. CallsInv /\ Waiting
  BY DEF CallsInv, Carried, PastLookUp, DoneTrue, Waiting
<1>3. TapsInv
  <2>1. \A v \in Visits, m \in Moves : <<v, m>> # None
    OBVIOUS
  <2>2. \A v \in Visits, m \in Moves : Made(v, m) = {}
    BY <2>1 DEF Made
  <2>3. EnteredOnce
    BY <2>2 DEF EnteredOnce, Moves
  <2> QED
    BY <2>3 DEF TapsInv, TapMade, ReceiptFits, ToldTrue
<1>4. QueueInv
  BY DEF QueueInv, SyncCopy, OpenActionsHeld
<1> QED
  BY <1>1, <1>2, <1>3, <1>4 DEF IInv
-----------------------------------------------------------------------------
(* What the phones do to the calls: they start some and end some.          *)
LEMMA CallsKept ==
  ASSUME TypeOK, CallsInv, UNCHANGED server,
         \A k \in Keys : action[k] # None => action'[k] = action[k],
         \A c \in Calls :
           \/ step'[c] = "free"
           \/ step'[c] = "sent" /\ carries'[c] \in Keys /\ action'[carries'[c]] # None
           \/ step'[c] = step[c] /\ carries'[c] = carries[c]
  PROVE CallsInv'
<1>1. Carried'
  BY DEF CallsInv, Carried, TypeOK
<1>2. PastLookUp' /\ DoneTrue'
  BY DEF CallsInv, Carried, PastLookUp, DoneTrue, Act, server, TypeOK
<1> QED
  BY <1>1, <1>2 DEF CallsInv

(* What the phones do to the taps: they learn how one ended.               *)
LEMMA TapsKept ==
  ASSUME TypeOK, TapsInv, UNCHANGED server, UNCHANGED action,
         \A k \in Keys :
           \/ told'[k] = told[k]
           \/ action[k] # None /\ told'[k] \in {"refused", "gone"}
           \/ action[k] # None /\ told'[k] = "ok" /\ Made(action[k].visit, action[k].move) # {}
  PROVE TapsInv'
<1> USE DEF TapsInv, server
<1>1. TapMade' /\ ReceiptFits'
  BY DEF TapMade, ReceiptFits, TypeOK
<1>2. EnteredOnce'
  BY DEF EnteredOnce, Made
<1>3. ToldTrue'
  BY DEF ToldTrue, Made
<1> QED
  BY <1>1, <1>2, <1>3
-----------------------------------------------------------------------------
(* Residents and guards' requests move no visit in or out.                 *)
LEMMA ResidentKeeps == ASSUME IInv, Resident PROVE IInv'
<1> USE GateAssumption DEF IInv
<1>1. /\ UNCHANGED <<receipt, calls, screen, queue, phone, faults>>
      /\ TypeOK'
      /\ \A v \in Visits :
           /\ status[v] # "NONE" => status'[v] # "NONE" /\ origin'[v] = origin[v]
           /\ \A s \in {"CHECKED_IN", "CHECKED_OUT"} : status'[v] = s <=> status[v] = s
  <2>1. PICK v \in Visits :
          \/ Create(v) \/ Deny(v) \/ Cancel(v) \/ ReplayInvite(v) \/ TimePasses(v)
          \/ \E w \in {"ahead", "open"} : InviteVisitor(v, w) \/ Approve(v, w)
          \/ \E p \in Phones : CreateArrival(v, p)
    BY DEF Resident
  <2> USE DEF TypeOK, Statuses, RestUnchanged, calls, screen, queue, phone, Created, Decide, Admitted
  <2>2. CASE Create(v) \/ (\E p \in Phones : CreateArrival(v, p))
    BY <2>2 DEF Create, CreateArrival
  <2>3. CASE Deny(v) \/ Cancel(v)
    BY <2>3 DEF Deny, Cancel
  <2>4. CASE ReplayInvite(v) \/ TimePasses(v)
    BY <2>4 DEF ReplayInvite, TimePasses, Later
  <2>5. CASE \E w \in {"ahead", "open"} : InviteVisitor(v, w) \/ Approve(v, w)
    BY <2>5 DEF InviteVisitor, Approve
  <2> QED
    BY <2>1, <2>2, <2>3, <2>4, <2>5
<1>2. CallsInv' /\ Waiting'
  BY <1>1 DEF CallsInv, Carried, PastLookUp, DoneTrue, Waiting, Act, calls, screen, phone, TypeOK, Taps
<1>3. TapMade' /\ ReceiptFits' /\ ToldTrue'
  BY <1>1 DEF TapsInv, TapMade, ReceiptFits, ToldTrue, Made, screen
<1>4. EnteredOnce'
  <2> SUFFICES ASSUME NEW v \in Visits
               PROVE /\ \A m \in Moves : \A j, k \in Made(v, m)' : j = k
                     /\ Made(v, "CHECK_IN")' # {} <=> status'[v] \in {"CHECKED_IN", "CHECKED_OUT"}
                     /\ Made(v, "CHECK_OUT")' # {} <=> status'[v] = "CHECKED_OUT"
                     /\ \A m \in Moves : \A k \in Made(v, m)' :
                          origin'[v] \in Phones => action'[k].phone = origin'[v]
    BY DEF EnteredOnce
  <2>1. \A m \in Moves : Made(v, m)' = Made(v, m)
    BY <1>1 DEF Made
  <2>2. (\E m \in Moves : Made(v, m) # {}) => status[v] \in {"CHECKED_IN", "CHECKED_OUT"}
    BY DEF TapsInv, EnteredOnce, Moves
  <2> QED
    BY <1>1, <2>1, <2>2 DEF TapsInv, EnteredOnce, Moves, screen
<1>5. QueueInv'
  BY <1>1 DEF QueueInv, SyncCopy, OpenActionsHeld, Mine, calls, screen, queue, phone
<1> QED
  BY <1>1, <1>2, <1>3, <1>4, <1>5 DEF TapsInv
-----------------------------------------------------------------------------
(* A statement of the server that changes no row.                          *)
LEMMA StatementKeeps ==
  ASSUME IInv, NEW c \in Calls, NEW s,
         step[c] # "free", step' = [step EXCEPT ![c] = s],
         s \in {"found", "fresh", "ready", "failed", "done", "refused", "lost"},
         UNCHANGED <<server, carries, screen, queue, phone>>, faults' \in 0 .. MaxFaults,
         s = "found" => Addressed(Act(c)),
         s \in {"fresh", "ready"} => step[c] \in {"found", "fresh"},
         s = "done" => receipt[carries[c]] # None
  PROVE IInv'
<1> USE DEF IInv, server, screen, queue, phone
<1>1. TypeOK'
  BY DEF TypeOK
<1>2. CallsInv' /\ Waiting'
  BY DEF CallsInv, Carried, PastLookUp, DoneTrue, Waiting, Act, Addressed, TypeOK
<1>3. TapsInv'
  BY TapsKept
<1>4. QueueInv'
  BY DEF QueueInv, SyncCopy, OpenActionsHeld, Mine
<1> QED
  BY <1>1, <1>2, <1>3, <1>4

LEMMA CommitKeeps == ASSUME IInv, NEW c \in Calls, Commit(c) PROVE IInv'
<1> DEFINE k == carries[c]
<1> DEFINE a == Act(c)
<1> USE GateAssumption DEF IInv
<1>1. PICK s \in {"done", "failed"} : Reach(c, s)
  BY DEF Commit
<1>2. /\ k \in Keys /\ a \in Taps /\ a = action[k] /\ receipt[k] = None
      /\ status[a.visit] = From(a.move)
      /\ status' = [status EXCEPT ![a.visit] = To(a.move)]
      /\ receipt' = [receipt EXCEPT ![k] = <<a.visit, a.move>>]
      /\ origin[a.visit] \in Phones => origin[a.visit] = a.phone
      /\ step[c] = "ready"
      /\ UNCHANGED <<origin, window, issued>>
  BY DEF Commit, Act, CallsInv, Carried, PastLookUp, TypeOK
<1>3. step' = [step EXCEPT ![c] = s] /\ UNCHANGED <<carries, screen, queue, phone, faults>>
  BY <1>1 DEF Reach
<1>4. a.visit \in Visits /\ a.move \in Moves
  BY <1>2 DEF Taps
<1>5. TypeOK'
  BY <1>2, <1>3, <1>4 DEF TypeOK, To, Statuses, screen, queue, phone
<1>6. CallsInv' /\ Waiting'
  <2>1. Carried' /\ DoneTrue' /\ Waiting'
    BY <1>2, <1>3, <1>4 DEF CallsInv, Carried, DoneTrue, Waiting, TypeOK, screen, phone
  <2>2. PastLookUp'
    BY <1>2, <1>3, <1>4 DEF CallsInv, Carried, PastLookUp, Act, To, TypeOK, screen
  <2> QED
    BY <2>1, <2>2 DEF CallsInv
<1>7. TapMade' /\ ReceiptFits'
  BY <1>2, <1>3, <1>4 DEF TapsInv, TapMade, ReceiptFits, TypeOK, screen, CallsInv, Carried
<1>8. \A v \in Visits, m \in Moves :
        Made(v, m)' = IF v = a.visit /\ m = a.move THEN Made(v, m) \cup {k} ELSE Made(v, m)
  BY <1>2, <1>4 DEF Made, TypeOK
<1>9. EnteredOnce'
  <2> SUFFICES ASSUME NEW v \in Visits
               PROVE /\ \A m \in Moves : \A i, j \in Made(v, m)' : i = j
                     /\ Made(v, "CHECK_IN")' # {} <=> status'[v] \in {"CHECKED_IN", "CHECKED_OUT"}
                     /\ Made(v, "CHECK_OUT")' # {} <=> status'[v] = "CHECKED_OUT"
                     /\ \A m \in Moves : \A j \in Made(v, m)' :
                          origin'[v] \in Phones => action'[j].phone = origin'[v]
    BY DEF EnteredOnce
  <2>1. /\ \A m \in Moves : \A i, j \in Made(v, m) : i = j
        /\ Made(v, "CHECK_IN") # {} <=> status[v] \in {"CHECKED_IN", "CHECKED_OUT"}
        /\ Made(v, "CHECK_OUT") # {} <=> status[v] = "CHECKED_OUT"
        /\ \A m \in Moves : \A j \in Made(v, m) : origin[v] \in Phones => action[j].phone = origin[v]
    BY DEF TapsInv, EnteredOnce
  <2>2. CASE v # a.visit
    BY <1>2, <1>3, <1>8, <2>1, <2>2 DEF TypeOK, Moves, screen
  <2>3. CASE v = a.visit
    <3>1. Made(v, a.move) = {}
      BY <1>2, <1>4, <2>1, <2>3 DEF From, Moves
    <3>2. status'[v] = To(a.move)
      BY <1>2, <1>4, <2>3 DEF TypeOK
    <3> QED
      BY <1>2, <1>3, <1>4, <1>8, <2>1, <2>3, <3>1, <3>2 DEF From, To, Moves, screen
  <2> QED
    BY <2>2, <2>3
<1>10. ToldTrue'
  <2>0. told' = told /\ action' = action
    BY <1>3 DEF screen
  <2>1. SUFFICES ASSUME NEW j \in Keys, told'[j] = "ok"
                 PROVE (Made(action[j].visit, action[j].move))' # {}
    BY DEF ToldTrue
  <2>2. action[j] \in Taps
    BY <2>0, <2>1 DEF TapsInv, TapMade, TypeOK
  <2>3. PICK i \in Keys : receipt[i] = <<action[j].visit, action[j].move>>
    BY <2>0, <2>1 DEF TapsInv, ToldTrue, Made
  <2>4. i # k
    <3>1. action[j].visit \in Visits /\ action[j].move \in Moves
      BY <2>2 DEF Taps
    <3>2. <<action[j].visit, action[j].move>> # None
      BY <3>1
    <3> QED
      BY <1>2, <2>3, <3>2
  <2>5. receipt'[i] = <<action'[j].visit, action'[j].move>>
    BY <1>2, <2>0, <2>3, <2>4 DEF TypeOK
  <2> QED
    BY <2>5 DEF Made
<1>11. QueueInv'
  BY <1>3 DEF QueueInv, SyncCopy, OpenActionsHeld, Mine, screen, queue, phone
<1> QED
  BY <1>5, <1>6, <1>7, <1>9, <1>10, <1>11 DEF TapsInv

LEMMA DiscardKeeps == ASSUME IInv, NEW c \in Calls, Discard(c) PROVE IInv'
<1> USE GateAssumption DEF IInv, Discard, Released, server, screen, queue, phone
<1>1. TypeOK'
  BY DEF TypeOK
<1>2. CallsInv'
  BY CallsKept DEF TypeOK
<1>3. Waiting'
  BY DEF Waiting, Waited, TypeOK
<1>4. TapsInv'
  BY TapsKept
<1>5. QueueInv'
  BY DEF QueueInv, SyncCopy, OpenActionsHeld, Mine, Waited, TypeOK
<1> QED
  BY <1>1, <1>2, <1>3, <1>4, <1>5

LEMMA ServerKeeps ==
  ASSUME IInv, NEW c \in Calls, Serve(c) \/ Break(c) \/ Lose(c)
  PROVE IInv'
<1> USE GateAssumption DEF Reach
<1>0. faults \in 0 .. MaxFaults
  BY DEF IInv, TypeOK
<1>1. CASE LookUp(c)
  <2>1. PICK s \in {"found", "refused"} : Reach(c, s) /\ (s = "found" => Addressed(Act(c)))
    BY <1>1 DEF LookUp
  <2> QED
    BY <1>0, <1>1, <2>1, StatementKeeps DEF LookUp
<1>2. CASE CheckReceipt(c)
  BY <1>0, <1>2, StatementKeeps DEF CheckReceipt
<1>3. CASE CheckWindow(c)
  BY <1>0, <1>3, StatementKeeps DEF CheckWindow
<1>4. CASE Commit(c)
  BY <1>4, CommitKeeps
<1>5. CASE RollBack(c)
  BY <1>0, <1>5, StatementKeeps DEF RollBack
<1>6. CASE Recheck(c)
  BY <1>0, <1>6, StatementKeeps DEF Recheck
<1>7. CASE Discard(c)
  BY <1>7, DiscardKeeps
<1>8. CASE Break(c)
  <2>1. step[c] # "free" /\ faults' \in 0 .. MaxFaults
    BY <1>0, <1>8 DEF Break
  <2> QED
    BY <1>8, <2>1, StatementKeeps DEF Break
<1>9. CASE Lose(c)
  <2>1. step[c] # "free" /\ faults' \in 0 .. MaxFaults
    BY <1>0, <1>9 DEF Lose
  <2> QED
    BY <1>9, <2>1, StatementKeeps DEF Lose
<1> QED
  BY <1>1, <1>2, <1>3, <1>4, <1>5, <1>6, <1>7, <1>8, <1>9 DEF Serve
-----------------------------------------------------------------------------
(* A phone that stops waiting leaves no other phone's call behind: two     *)
(* phones never wait for one call.                                         *)
LEMMA OwnCall ==
  ASSUME IInv, NEW p \in Phones, wait[p] # None
  PROVE /\ wait[p] \in Calls /\ carries[wait[p]] \in Keys
        /\ step[wait[p]] # "free" /\ carries[wait[p]] \in Mine(p)
        /\ told[carries[wait[p]]] # "unused"
        /\ \A q \in Phones : q # p => wait[q] # wait[p]
BY DEF IInv, TypeOK, CallsInv, Carried, Waiting, TapsInv, TapMade, Mine

(* What a call was sent for is told by its receipt.                        *)
LEMMA DoneMade ==
  ASSUME IInv, NEW p \in Phones, wait[p] # None, step[wait[p]] = "done"
  PROVE Made(action[carries[wait[p]]].visit, action[carries[wait[p]]].move) # {}
<1>1. /\ wait[p] \in Calls /\ carries[wait[p]] \in Keys
      /\ receipt[carries[wait[p]]] # None
  BY OwnCall DEF IInv, CallsInv, DoneTrue
<1> QED
  BY <1>1 DEF IInv, TapsInv, ReceiptFits, Made

LEMMA TapKeeps ==
  ASSUME IInv, NEW p \in Phones, NEW k \in Keys, NEW c \in Calls, NEW a \in Taps, Tap(p, k, c, a)
  PROVE IInv'
<1> USE GateAssumption DEF IInv
<1>1. /\ told[k] = "unused" /\ action[k] = None /\ a.phone = p /\ a # None
      /\ action' = [action EXCEPT ![k] = a] /\ told' = [told EXCEPT ![k] = "open"]
      /\ doing[p] = "idle" /\ doing' = [doing EXCEPT ![p] = "tap"]
      /\ step[c] = "free" /\ step' = [step EXCEPT ![c] = "sent"]
      /\ carries' = [carries EXCEPT ![c] = k] /\ wait' = [wait EXCEPT ![p] = c]
      /\ UNCHANGED <<server, uncertain, queue, faults>>
  BY DEF Tap, Send, TapsInv, TapMade
<1>2. TypeOK'
  BY <1>1 DEF TypeOK, server, queue
<1>3. CallsInv'
  BY <1>1, CallsKept DEF TypeOK
<1>4. Waiting'
  BY <1>1 DEF Waiting, CallsInv, Carried, TypeOK
<1>5. TapMade' /\ ReceiptFits'
  BY <1>1 DEF TapsInv, TapMade, ReceiptFits, TypeOK, server
<1>6. EnteredOnce' /\ ToldTrue'
  <2>1. \A j \in Keys : receipt[j] # None => j # k
    BY <1>1 DEF TapsInv, ReceiptFits
  <2>2. \A v, m : Made(v, m)' = Made(v, m)
    BY <1>1 DEF Made, server
  <2>3. \A v \in Visits, m \in Moves : \A j \in Made(v, m) : action'[j] = action[j]
    <3>1. \A v \in Visits, m \in Moves : <<v, m>> # None
      OBVIOUS
    <3>2. \A v \in Visits, m \in Moves : k \notin Made(v, m)
      BY <2>1, <3>1 DEF Made
    <3>3. \A v, m : Made(v, m) \subseteq Keys
      BY DEF Made
    <3> QED
      BY <1>1, <3>2, <3>3 DEF TypeOK
  <2>4. EnteredOnce'
    BY <1>1, <2>2, <2>3 DEF TapsInv, EnteredOnce, server
  <2>5. ToldTrue'
    <3> SUFFICES ASSUME NEW j \in Keys, told'[j] = "ok"
                 PROVE (Made(action[j].visit, action[j].move))' # {}
      BY DEF ToldTrue
    <3>1. told[j] = "ok" /\ action'[j] = action[j]
      BY <1>1 DEF TypeOK
    <3>2. PICK i \in Keys : receipt[i] = <<action[j].visit, action[j].move>>
      BY <3>1 DEF TapsInv, ToldTrue, Made
    <3> QED
      BY <1>1, <3>1, <3>2 DEF Made, server
  <2> QED
    BY <2>4, <2>5
<1>7. SyncCopy'
  BY <1>1 DEF QueueInv, SyncCopy, Mine, TypeOK, queue
<1>8. OpenActionsHeld'
  BY <1>1 DEF QueueInv, OpenActionsHeld, CallsInv, Carried, Waiting, TypeOK, queue
<1> QED
  BY <1>2, <1>3, <1>4, <1>5, <1>6, <1>7, <1>8 DEF TapsInv, QueueInv

(* A call under a key that exists: from the session's memory or the queue. *)
LEMMA SendKeeps ==
  ASSUME IInv, NEW p \in Phones, NEW k \in Keys, NEW c \in Calls, NEW what \in {"tap", "sync"},
         k \in Mine(p), Send(p, k, c, what), doing[p] # "tap", what = "sync" => doing[p] = "sync",
         UNCHANGED <<server, screen, queue, faults>>
  PROVE IInv'
<1> USE GateAssumption DEF IInv, Send, screen
<1>1. TypeOK'
  BY DEF TypeOK, server, queue
<1>2. CallsInv'
  BY CallsKept DEF TypeOK, Mine
<1>3. Waiting'
  BY DEF Waiting, TypeOK, Mine
<1>4. TapsInv'
  BY TapsKept
<1>5. SyncCopy'
  BY DEF QueueInv, SyncCopy, Mine, TypeOK, queue
<1>6. OpenActionsHeld'
  BY DEF QueueInv, OpenActionsHeld, Waiting, TypeOK, queue
<1> QED
  BY <1>1, <1>2, <1>3, <1>4, <1>5, <1>6 DEF QueueInv

LEMMA ConfirmKeeps ==
  ASSUME IInv, NEW p \in Phones, NEW k \in Keys, ConfirmUncertain(p, k)
  PROVE IInv'
<1> USE GateAssumption DEF IInv, ConfirmUncertain, calls, queue, phone
<1>1. TypeOK'
  BY DEF TypeOK, server
<1>2. CallsInv' /\ Waiting'
  BY CallsKept DEF Waiting
<1>3. action[k] # None /\ action[k].visit \in Visits /\ action[k].move \in Moves
  BY DEF Mine, TypeOK, Taps
<1>4. Made(action[k].visit, action[k].move) # {}
  BY <1>3 DEF Confirms, To, Moves, TapsInv, EnteredOnce
<1>5. TapsInv'
  BY <1>3, <1>4, TapsKept DEF TypeOK
<1>6. QueueInv'
  BY DEF QueueInv, SyncCopy, OpenActionsHeld, Mine, TypeOK
<1> QED
  BY <1>1, <1>2, <1>5, <1>6
-----------------------------------------------------------------------------
(* The phone gives up a call, or has its answer.                           *)
LEMMA StopKeeps ==
  ASSUME IInv, NEW p \in Phones, wait[p] # None, UNCHANGED <<server, action>>,
         Released(wait[p]) \/ UNCHANGED calls,
         wait' = [wait EXCEPT ![p] = None]
  PROVE CallsInv' /\ Waiting'
<1> USE DEF IInv, calls, Released
<1>1. wait[p] \in Calls /\ \A q \in Phones : q # p => wait[q] # wait[p]
  BY OwnCall
<1>2. CallsInv'
  BY <1>1, CallsKept DEF TypeOK
<1>3. Waiting'
  BY <1>1, GateAssumption DEF Waiting, TypeOK
<1> QED
  BY <1>2, <1>3

LEMMA TapUnansweredKeeps == ASSUME IInv, NEW p \in Phones, TapUnanswered(p) PROVE IInv'
<1> DEFINE k == carries[wait[p]]
<1> USE GateAssumption DEF IInv, TapUnanswered, GivesUp
<1>1. /\ wait[p] \in Calls /\ k \in Keys /\ k \in Mine(p)
      /\ \A q \in Phones : q # p => wait[q] # wait[p]
  BY OwnCall
<1>2. TypeOK'
  BY <1>1 DEF TypeOK, Released, Kept, calls, server
<1>3. CallsInv' /\ Waiting'
  BY StopKeeps
<1>4. TapsInv'
  BY TapsKept
<1>5. SyncCopy'
  BY <1>1 DEF QueueInv, SyncCopy, Mine, Kept, TypeOK
<1>6. OpenActionsHeld'
  BY <1>1 DEF QueueInv, OpenActionsHeld, Kept, Released, calls, TypeOK
<1> QED
  BY <1>2, <1>3, <1>4, <1>5, <1>6 DEF QueueInv

LEMMA TapAnsweredKeeps == ASSUME IInv, NEW p \in Phones, TapAnswered(p) PROVE IInv'
<1> DEFINE k == carries[wait[p]]
<1> USE GateAssumption DEF IInv, TapAnswered, queue
<1>1. /\ wait[p] \in Calls /\ k \in Keys /\ k \in Mine(p)
      /\ \A q \in Phones : q # p => wait[q] # wait[p]
  BY OwnCall
<1>2. TypeOK'
  BY <1>1 DEF TypeOK, Released, server
<1>3. CallsInv' /\ Waiting'
  BY StopKeeps
<1>4. step[wait[p]] = "done" => Made(action[k].visit, action[k].move) # {}
  BY DoneMade
<1>5. TapsInv'
  BY <1>1, <1>4, TapsKept DEF TypeOK, Mine
<1>6. SyncCopy'
  BY <1>1 DEF QueueInv, SyncCopy, Mine, TypeOK
<1>7. OpenActionsHeld'
  BY <1>1 DEF QueueInv, OpenActionsHeld, Released, TypeOK
<1> QED
  BY <1>2, <1>3, <1>5, <1>6, <1>7 DEF QueueInv

LEMMA SyncAnsweredKeeps == ASSUME IInv, NEW p \in Phones, SyncAnswered(p) PROVE IInv'
<1> DEFINE k == carries[wait[p]]
<1> USE GateAssumption DEF IInv, SyncAnswered, AfterSync
<1>1. /\ wait[p] \in Calls /\ k \in Keys /\ k \in Mine(p) /\ told[k] # "unused"
      /\ \A q \in Phones : q # p => wait[q] # wait[p]
  BY OwnCall
<1>2. TypeOK'
  BY <1>1 DEF TypeOK, Released, server
<1>3. CallsInv' /\ Waiting'
  BY StopKeeps
<1>4. step[wait[p]] = "done" => Made(action[k].visit, action[k].move) # {}
  BY DoneMade
<1>5. TapsInv'
  BY <1>1, <1>4, TapsKept DEF TypeOK, Mine
<1>6. SyncCopy'
  BY <1>1 DEF QueueInv, SyncCopy, Mine, TypeOK
<1>7. OpenActionsHeld'
  BY <1>1 DEF QueueInv, OpenActionsHeld, Released, TypeOK
<1> QED
  BY <1>2, <1>3, <1>5, <1>6, <1>7 DEF QueueInv

LEMMA SyncUnansweredKeeps == ASSUME IInv, NEW p \in Phones, SyncUnanswered(p) PROVE IInv'
<1> USE GateAssumption DEF IInv, SyncUnanswered, GivesUp, screen
<1>1. /\ wait[p] \in Calls /\ carries[wait[p]] \in Keys /\ carries[wait[p]] \in Mine(p)
      /\ \A q \in Phones : q # p => wait[q] # wait[p]
  BY OwnCall
<1>2. TypeOK'
  BY <1>1 DEF TypeOK, Released, calls, server
<1>3. CallsInv' /\ Waiting'
  BY StopKeeps
<1>4. TapsInv'
  BY TapsKept
<1>5. SyncCopy'
  BY <1>1 DEF QueueInv, SyncCopy, Mine, TypeOK
<1>6. OpenActionsHeld'
  BY <1>1 DEF QueueInv, OpenActionsHeld, Released, calls, TypeOK
<1> QED
  BY <1>2, <1>3, <1>4, <1>5, <1>6 DEF QueueInv
-----------------------------------------------------------------------------
(* The queue is read, worked through and written back.                     *)
LEMMA QueueKeeps ==
  ASSUME IInv, UNCHANGED <<server, calls, screen, wait>>, TypeOK', QueueInv'
  PROVE IInv'
<1> USE DEF IInv, calls, screen
<1>1. CallsInv' /\ Waiting'
  BY CallsKept DEF Waiting
<1>2. TapsInv'
  BY TapsKept
<1> QED
  BY <1>1, <1>2

LEMMA StartSyncKeeps == ASSUME IInv, NEW p \in Phones, StartSync(p) PROVE IInv'
<1> USE DEF IInv, StartSync, calls, screen
<1>1. TypeOK'
  BY DEF TypeOK, server
<1>2. SyncCopy'
  BY DEF QueueInv, SyncCopy, Mine, TypeOK
<1>3. OpenActionsHeld'
  BY DEF QueueInv, OpenActionsHeld, TypeOK
<1> QED
  BY <1>1, <1>2, <1>3, QueueKeeps DEF QueueInv

LEMMA SyncSkipKeeps ==
  ASSUME IInv, NEW p \in Phones, NEW k \in Keys, SyncStale(p, k) \/ SyncDefer(p, k)
  PROVE IInv'
<1> USE DEF IInv, SyncStale, SyncDefer, calls, screen, phone
<1>1. TypeOK'
  BY DEF TypeOK, server
<1>2. QueueInv'
  BY DEF QueueInv, SyncCopy, OpenActionsHeld, Mine, TypeOK
<1> QED
  BY <1>1, <1>2, QueueKeeps

LEMMA EndSyncKeeps == ASSUME IInv, NEW p \in Phones, EndSync(p) PROVE IInv'
<1> USE DEF IInv, EndSync, calls, screen
<1>1. TypeOK'
  <2>1. \A k \in Mine(p) : Left(k) \in {"absent", "pending", "review"}
    BY DEF Left, Mine, TypeOK
  <2> QED
    BY <2>1 DEF TypeOK, server, Mine
<1>2. SyncCopy'
  BY DEF QueueInv, SyncCopy, Mine, TypeOK
<1>3. OpenActionsHeld'
  <2> SUFFICES ASSUME NEW k \in Keys, told[k] = "open", k \notin uncertain, stored'[k] = "absent"
               PROVE \E q \in Phones : doing'[q] = "tap" /\ wait'[q] # None /\ carries'[wait'[q]] = k
    BY DEF OpenActionsHeld
  <2>1. k \in Mine(p) => stored[k] = "absent"
    BY DEF Left, QueueInv, SyncCopy, TypeOK
  <2>2. stored[k] = "absent"
    BY <2>1 DEF TypeOK
  <2>3. PICK q \in Phones : doing[q] = "tap" /\ wait[q] # None /\ carries[wait[q]] = k
    BY <2>2 DEF QueueInv, OpenActionsHeld
  <2> QED
    BY <2>3 DEF TypeOK
<1> QED
  BY <1>1, <1>2, <1>3, QueueKeeps DEF QueueInv

LEMMA RestedKeeps == ASSUME IInv, NEW k \in Keys, Rested(k) PROVE IInv'
<1> USE DEF IInv, Rested, calls, screen, phone
<1>1. TypeOK'
  BY DEF TypeOK, server
<1>2. QueueInv'
  BY DEF QueueInv, SyncCopy, OpenActionsHeld, Mine
<1> QED
  BY <1>1, <1>2, QueueKeeps

LEMMA KillKeeps == ASSUME IInv, NEW p \in Phones, Kill(p) PROVE IInv'
<1> USE GateAssumption DEF IInv, Kill, calls
<1>1. TypeOK'
  BY DEF TypeOK, server
<1>2. CallsInv'
  BY CallsKept
<1>3. Waiting'
  BY DEF Waiting, TypeOK
<1>4. TapsInv'
  BY TapsKept DEF Mine
<1>5. SyncCopy'
  BY DEF QueueInv, SyncCopy, Mine, TypeOK
<1>6. OpenActionsHeld'
  <2> SUFFICES ASSUME NEW k \in Keys, told'[k] = "open", stored[k] = "absent", k \notin uncertain'
               PROVE \E q \in Phones : doing'[q] = "tap" /\ wait'[q] # None /\ carries[wait'[q]] = k
    BY DEF OpenActionsHeld
  <2>1. told[k] = "open" /\ k \notin Mine(p) /\ k \notin uncertain
    BY DEF TypeOK
  <2>2. PICK q \in Phones : doing[q] = "tap" /\ wait[q] # None /\ carries[wait[q]] = k
    BY <2>1 DEF QueueInv, OpenActionsHeld
  <2>3. q # p
    BY <2>1, <2>2, OwnCall
  <2> QED
    BY <2>2, <2>3 DEF TypeOK
<1> QED
  BY <1>1, <1>2, <1>3, <1>4, <1>5, <1>6 DEF QueueInv
-----------------------------------------------------------------------------
LEMMA GuardKeeps == ASSUME IInv, NEW p \in Phones, Guard(p) \/ GoOn(p) PROVE IInv'
<1>1. CASE TapUnanswered(p) \/ TapAnswered(p)
  BY <1>1, TapUnansweredKeeps, TapAnsweredKeeps
<1>2. CASE SyncAnswered(p) \/ SyncUnanswered(p)
  BY <1>2, SyncAnsweredKeeps, SyncUnansweredKeeps
<1>3. CASE EndSync(p) \/ StartSync(p) \/ Kill(p)
  BY <1>3, EndSyncKeeps, StartSyncKeeps, KillKeeps
<1>4. CASE \E k \in Keys : SyncStale(p, k) \/ SyncDefer(p, k)
  BY <1>4, SyncSkipKeeps
<1>5. CASE \E k \in Keys, c \in Calls : SyncSend(p, k, c)
  BY <1>5, SendKeeps DEF SyncSend, Syncing
<1>6. CASE \E k \in Keys : ConfirmUncertain(p, k)
  BY <1>6, ConfirmKeeps
<1>7. CASE \E k \in Keys, c \in Calls : Resend(p, k, c)
  BY <1>7, SendKeeps DEF Resend
<1>8. CASE \E k \in Keys, c \in Calls, a \in Taps : Tap(p, k, c, a)
  BY <1>8, TapKeeps
<1> QED
  BY <1>1, <1>2, <1>3, <1>4, <1>5, <1>6, <1>7, <1>8 DEF Guard, GoOn

LEMMA NextInv == IInv /\ [Next]_vars => IInv'
<1> SUFFICES ASSUME IInv, [Next]_vars PROVE IInv'
  OBVIOUS
<1>1. CASE Resident
  BY <1>1, ResidentKeeps
<1>2. CASE \E c \in Calls : Serve(c) \/ Break(c) \/ Lose(c)
  BY <1>2, ServerKeeps
<1>3. CASE \E p \in Phones : Guard(p) \/ GoOn(p)
  BY <1>3, GuardKeeps
<1>4. CASE \E k \in Keys : Rested(k)
  BY <1>4, RestedKeeps
<1>5. CASE UNCHANGED vars
  <2>1. TypeOK'
    BY <1>5 DEF IInv, TypeOK, vars, server, calls, screen, queue, phone
  <2>2. QueueInv'
    BY <1>5 DEF IInv, QueueInv, SyncCopy, OpenActionsHeld, Mine, vars, calls, screen, queue, phone
  <2> QED
    BY <1>5, <2>1, <2>2, QueueKeeps DEF vars, phone
<1> QED
  BY <1>1, <1>2, <1>3, <1>4, <1>5 DEF Next

LEMMA AlwaysIInv == Spec => []IInv
BY InitInv, NextInv, PTL DEF Spec

(* Calls, taps and queues keep their shape for any constants.              *)
THEOREM GateTyped == Spec => []TypeOK
BY AlwaysIInv, PTL DEF IInv

(* A visit is entered at most once and left at most once, at the gate that *)
(* asked for it, and never after it was cancelled or denied (gateMutation).*)
THEOREM MovedOnce == Spec => []EnteredOnce
<1>1. IInv => EnteredOnce
  BY DEF IInv, TapsInv
<1> QED
  BY <1>1, AlwaysIInv, PTL

(* No unanswered tap is dropped while its session lasts (_gateMutation,    *)
(* syncQueuedActions).                                                     *)
THEOREM TapsHeld == Spec => []OpenActionsHeld
<1>1. IInv => OpenActionsHeld
  BY DEF IInv, QueueInv
<1> QED
  BY <1>1, AlwaysIInv, PTL

(* A guard who was told of a move can rely on a receipt of it              *)
(* (committedGateMutation after a failed transaction).                     *)
THEOREM GuardsToldTrue == Spec => []ToldTrue
<1>1. IInv => ToldTrue
  BY DEF IInv, TapsInv
<1> QED
  BY <1>1, AlwaysIInv, PTL
-----------------------------------------------------------------------------
(* GateVisits implements VisitBook.  The refinement needs one more fact:   *)
(* whatever a phone still asks about has no answer yet, because what is    *)
(* remembered by the session is never stored and conversely.               *)
AnswerAwaited ==
  \A p \in Phones : doing[p] = "tap" /\ wait[p] # None => told[carries[wait[p]]] = "open"
Remembered == \A k \in uncertain : told[k] = "open" /\ action[k].credential = 0
Storable ==
  \A k \in Keys : stored[k] # "absent" \/ progress[k] # "absent" =>
    action[k] # None /\ action[k].credential # 0
SentFromQueue ==
  \A p \in Phones : doing[p] = "sync" /\ wait[p] # None => action[carries[wait[p]]].credential # 0

IdleQuiet == \A p \in Phones : doing[p] = "idle" => wait[p] = None

AskInv == AnswerAwaited /\ IdleQuiet /\ Remembered /\ Storable /\ SentFromQueue

LEMMA InitAsk == Init => AskInv
BY DEF Init, AskInv, AnswerAwaited, IdleQuiet, Remembered, Storable, SentFromQueue

LEMMA ServerAsk ==
  ASSUME IInv, AskInv, UNCHANGED <<screen, queue, phone>>,
         \A p \in Phones : wait[p] # None => carries'[wait[p]] = carries[wait[p]]
  PROVE AskInv'
BY DEF AskInv, AnswerAwaited, IdleQuiet, Remembered, Storable, SentFromQueue, screen, queue, phone

(* A phone sends a call under a key of its own that waits for an answer.   *)
LEMMA SendAsk ==
  ASSUME IInv, AskInv, NEW p \in Phones, NEW k \in Keys, NEW c \in Calls, NEW what \in {"tap", "sync"},
         Send(p, k, c, what), UNCHANGED <<uncertain, queue>>,
         \A j \in Keys : action[j] # None => action'[j] = action[j] /\ told'[j] = told[j],
         what = "tap" => told'[k] = "open",
         what = "sync" => action'[k].credential # 0
  PROVE AskInv'
<1> USE GateAssumption DEF IInv, AskInv, Send, queue
<1>1. \A q \in Phones : wait[q] # None =>
        /\ wait[q] \in Calls /\ wait[q] # c /\ carries[wait[q]] \in Keys
        /\ action[carries[wait[q]]] # None
  BY OwnCall DEF Mine
<1>2. \A q \in Phones :
        /\ q # p => wait'[q] = wait[q] /\ doing'[q] = doing[q]
        /\ q # p /\ wait[q] # None => carries'[wait[q]] = carries[wait[q]]
  BY <1>1 DEF TypeOK
<1>3. wait'[p] = c /\ carries'[c] = k /\ doing'[p] = what
  BY DEF TypeOK
<1>4. AnswerAwaited'
  BY <1>1, <1>2, <1>3 DEF AnswerAwaited
<1>5. SentFromQueue'
  BY <1>1, <1>2, <1>3 DEF SentFromQueue
<1>6. Storable'
  BY DEF Storable
<1>7. Remembered'
  <2>1. \A j \in uncertain : action[j] # None
    BY DEF Remembered, TapsInv, TapMade, TypeOK
  <2> QED
    BY <2>1 DEF Remembered, TypeOK
<1>8. IdleQuiet'
  BY <1>2, <1>3 DEF IdleQuiet
<1> QED
  BY <1>4, <1>5, <1>6, <1>7, <1>8

(* A phone's own step changes nothing that another phone asks about.       *)
LEMMA PhoneAsk ==
  ASSUME IInv, AskInv, NEW p \in Phones, UNCHANGED action,
         (wait[p] # None /\ Released(wait[p])) \/ UNCHANGED calls,
         \A q \in Phones : q # p => wait'[q] = wait[q] /\ doing'[q] = doing[q],
         wait'[p] = None,
         \A k \in Keys : k \notin Mine(p) => told'[k] = told[k]
  PROVE AnswerAwaited' /\ IdleQuiet' /\ SentFromQueue'
<1> USE GateAssumption DEF IInv, AskInv, calls, Released
<1>1. \A q \in Phones : q # p /\ wait[q] # None =>
        /\ carries'[wait[q]] = carries[wait[q]]
        /\ carries[wait[q]] \in Keys /\ carries[wait[q]] \notin Mine(p)
  <2> SUFFICES ASSUME NEW q \in Phones, q # p, wait[q] # None
               PROVE /\ carries'[wait[q]] = carries[wait[q]]
                     /\ carries[wait[q]] \in Keys /\ carries[wait[q]] \notin Mine(p)
    OBVIOUS
  <2>1. /\ wait[q] \in Calls /\ carries[wait[q]] \in Mine(q) /\ carries[wait[q]] \in Keys
        /\ wait[p] # None => wait[p] # wait[q]
    BY OwnCall
  <2> QED
    BY <2>1 DEF Mine, TypeOK
<1>2. AnswerAwaited'
  BY <1>1 DEF AnswerAwaited
<1>3. SentFromQueue'
  BY <1>1 DEF SentFromQueue
<1>4. IdleQuiet'
  BY DEF IdleQuiet
<1> QED
  BY <1>2, <1>3, <1>4

LEMMA TapAsk ==
  ASSUME IInv, AskInv, NEW p \in Phones, TapUnanswered(p) \/ TapAnswered(p)
  PROVE AskInv'
<1> DEFINE k == carries[wait[p]]
<1> USE GateAssumption DEF IInv, AskInv
<1>1. wait[p] # None /\ doing[p] = "tap" /\ wait'[p] = None
  BY DEF TapUnanswered, GivesUp, TapAnswered, TypeOK
<1>2. k \in Keys /\ k \in Mine(p) /\ told[k] = "open" /\ action[k] # None
  BY <1>1, OwnCall DEF AnswerAwaited, Mine
<1>3. CASE TapUnanswered(p)
  <2> USE <1>3 DEF TapUnanswered, GivesUp
  <2>1. AnswerAwaited' /\ IdleQuiet' /\ SentFromQueue'
    BY <1>1, PhoneAsk DEF TypeOK
  <2>2. Remembered' /\ Storable'
    BY <1>2 DEF Remembered, Storable, Kept, TypeOK
  <2> QED
    BY <2>1, <2>2
<1>4. CASE TapAnswered(p)
  <2> USE <1>4 DEF TapAnswered
  <2>1. AnswerAwaited' /\ IdleQuiet' /\ SentFromQueue'
    BY <1>1, <1>2, PhoneAsk DEF TypeOK
  <2>2. Remembered' /\ Storable'
    BY <1>2 DEF Remembered, Storable, TypeOK, queue
  <2> QED
    BY <2>1, <2>2
<1> QED
  BY <1>3, <1>4

LEMMA SyncAsk ==
  ASSUME IInv, AskInv, NEW p \in Phones, SyncAnswered(p) \/ SyncUnanswered(p)
  PROVE AskInv'
<1> DEFINE k == carries[wait[p]]
<1> USE GateAssumption DEF IInv, AskInv
<1>1. wait[p] # None /\ doing[p] = "sync" /\ wait'[p] = None
  BY DEF SyncUnanswered, GivesUp, SyncAnswered, TypeOK
<1>2. k \in Keys /\ k \in Mine(p) /\ action[k] # None /\ action[k].credential # 0
  BY <1>1, OwnCall DEF SentFromQueue, Mine
<1>3. CASE SyncUnanswered(p)
  <2> USE <1>3 DEF SyncUnanswered, GivesUp, screen
  <2>1. AnswerAwaited' /\ IdleQuiet' /\ SentFromQueue'
    BY <1>1, PhoneAsk DEF TypeOK
  <2>2. Remembered' /\ Storable'
    BY <1>2 DEF Remembered, Storable, TypeOK
  <2> QED
    BY <2>1, <2>2
<1>4. CASE SyncAnswered(p)
  <2> USE <1>4 DEF SyncAnswered, AfterSync
  <2>1. AnswerAwaited' /\ IdleQuiet' /\ SentFromQueue'
    BY <1>1, <1>2, PhoneAsk DEF TypeOK
  <2>2. Remembered' /\ Storable'
    BY <1>2 DEF Remembered, Storable, TypeOK
  <2> QED
    BY <2>1, <2>2
<1> QED
  BY <1>3, <1>4

LEMMA QueueAsk ==
  ASSUME IInv, AskInv, NEW p \in Phones,
         \/ StartSync(p) \/ EndSync(p)
         \/ \E k \in Keys : SyncStale(p, k) \/ SyncDefer(p, k)
  PROVE AskInv'
<1> USE GateAssumption DEF IInv, AskInv, calls, screen, phone
<1>1. CASE StartSync(p)
  <2> USE <1>1 DEF StartSync
  <2>1. wait[p] = None
    BY DEF IdleQuiet
  <2> QED
    BY <2>1 DEF AnswerAwaited, IdleQuiet, Remembered, Storable, SentFromQueue, TypeOK
<1>2. CASE EndSync(p)
  <2> USE <1>2 DEF EndSync
  <2>1. AnswerAwaited' /\ IdleQuiet' /\ SentFromQueue' /\ Remembered'
    BY DEF AnswerAwaited, IdleQuiet, Remembered, SentFromQueue, TypeOK
  <2>2. Storable'
    BY DEF Storable, Left, TypeOK
  <2> QED
    BY <2>1, <2>2
<1>3. CASE \E k \in Keys : SyncStale(p, k) \/ SyncDefer(p, k)
  <2> USE <1>3 DEF SyncStale, SyncDefer, Syncing
  <2> QED
    BY DEF AnswerAwaited, IdleQuiet, Remembered, Storable, SentFromQueue, TypeOK
<1> QED
  BY <1>1, <1>2, <1>3

LEMMA GuardAsk == ASSUME IInv, AskInv, NEW p \in Phones, Guard(p) \/ GoOn(p) PROVE AskInv'
<1> USE GateAssumption DEF IInv
<1>1. CASE \E k \in Keys, c \in Calls, a \in Taps : Tap(p, k, c, a)
  <2>1. PICK k \in Keys, c \in Calls, a \in Taps : Tap(p, k, c, a)
    BY <1>1
  <2>2. \A j \in Keys : action[j] # None => action'[j] = action[j] /\ told'[j] = told[j]
    BY <2>1 DEF Tap, TapsInv, TapMade, TypeOK
  <2>3. told'[k] = "open"
    BY <2>1 DEF Tap, TypeOK
  <2> QED
    BY <2>1, <2>2, <2>3, SendAsk DEF Tap
<1>2. CASE \E k \in Keys, c \in Calls : Resend(p, k, c)
  <2>1. PICK k \in Keys, c \in Calls : Resend(p, k, c)
    BY <1>2
  <2>2. told[k] = "open"
    BY <2>1 DEF Resend, AskInv, Remembered
  <2> QED
    BY <2>1, <2>2, SendAsk DEF Resend, screen
<1>3. CASE \E k \in Keys, c \in Calls : SyncSend(p, k, c)
  <2>1. PICK k \in Keys, c \in Calls : SyncSend(p, k, c)
    BY <1>3
  <2>2. action[k].credential # 0
    BY <2>1 DEF SyncSend, Syncing, AskInv, Storable
  <2> QED
    BY <2>1, <2>2, SendAsk DEF SyncSend, screen
<1>4. CASE \E k \in Keys : ConfirmUncertain(p, k)
  <2>1. PICK k \in Keys : ConfirmUncertain(p, k)
    BY <1>4
  <2>2. wait[p] = None /\ k \in Mine(p)
    BY <2>1 DEF ConfirmUncertain, AskInv, IdleQuiet
  <2>3. AnswerAwaited' /\ IdleQuiet' /\ SentFromQueue'
    BY <2>1, <2>2, PhoneAsk DEF ConfirmUncertain, phone, TypeOK
  <2>4. Remembered' /\ Storable'
    BY <2>1 DEF ConfirmUncertain, AskInv, Remembered, Storable, queue, TypeOK
  <2> QED
    BY <2>3, <2>4 DEF AskInv
<1>5. CASE Kill(p)
  <2>1. \A k \in Keys : k \notin Mine(p) => told'[k] = told[k]
    BY <1>5 DEF Kill
  <2>2. AnswerAwaited' /\ IdleQuiet' /\ SentFromQueue'
    BY <1>5, <2>1, PhoneAsk DEF Kill, TypeOK
  <2>3. Remembered'
    BY <1>5, <2>1 DEF Kill, AskInv, Remembered, TypeOK
  <2>4. Storable'
    BY <1>5 DEF Kill, AskInv, Storable
  <2> QED
    BY <2>2, <2>3, <2>4 DEF AskInv
<1>6. CASE TapUnanswered(p) \/ TapAnswered(p)
  BY <1>6, TapAsk
<1>7. CASE SyncAnswered(p) \/ SyncUnanswered(p)
  BY <1>7, SyncAsk
<1>8. CASE \/ StartSync(p) \/ EndSync(p)
           \/ \E k \in Keys : SyncStale(p, k) \/ SyncDefer(p, k)
  BY <1>8, QueueAsk
<1> QED
  BY <1>1, <1>2, <1>3, <1>4, <1>5, <1>6, <1>7, <1>8 DEF Guard, GoOn

LEMMA NextAsk == IInv /\ AskInv /\ [Next]_vars => AskInv'
<1> SUFFICES ASSUME IInv, AskInv, [Next]_vars PROVE AskInv'
  OBVIOUS
<1>1. CASE Resident
  BY <1>1, ServerAsk DEF Resident, Create, Created, Deny, Cancel, Decide, ReplayInvite, TimePasses,
     InviteVisitor, Approve, Admitted, CreateArrival, RestUnchanged, calls
<1>2. CASE \E c \in Calls : Serve(c) \/ Break(c) \/ Lose(c)
  <2>1. PICK c \in Calls : Serve(c) \/ Break(c) \/ Lose(c)
    BY <1>2
  <2>2. CASE Discard(c)
    BY <2>2, ServerAsk DEF Discard, Released, Waited, IInv, TypeOK
  <2>3. CASE ~Discard(c)
    BY <2>1, <2>3, ServerAsk DEF Serve, LookUp, CheckReceipt, CheckWindow, Commit, RollBack, Recheck,
       Break, Lose, Reach
  <2> QED
    BY <2>2, <2>3
<1>3. CASE \E p \in Phones : Guard(p) \/ GoOn(p)
  BY <1>3, GuardAsk
<1>4. CASE \E k \in Keys : Rested(k)
  BY <1>4 DEF Rested, AskInv, AnswerAwaited, IdleQuiet, Remembered, Storable, SentFromQueue,
     calls, screen, phone
<1>5. CASE UNCHANGED vars
  BY <1>5, ServerAsk DEF vars, calls
<1> QED
  BY <1>1, <1>2, <1>3, <1>4, <1>5 DEF Next
-----------------------------------------------------------------------------
LEMMA InitBook == Init => Book!Init
BY DEF Init, Book!Init, Done, Assured

(* A step that neither moves a visit nor writes a receipt, a tap or an     *)
(* assurance is none of the book's business.                               *)
LEMMA Aside ==
  ASSUME UNCHANGED <<server, action>>,
         \A k \in Keys : told'[k] = "ok" <=> told[k] = "ok"
  PROVE Book!NoEffect
BY DEF Book!NoEffect, Book!vars, Done, Assured, server

(* A guard learns of a move the server has a receipt of.                   *)
LEMMA Assures ==
  ASSUME IInv, NEW k \in Keys, action[k] # None, UNCHANGED <<server, action>>,
         told' = [told EXCEPT ![k] = "ok"], Made(action[k].visit, action[k].move) # {}
  PROVE Book!Assure(k)
<1> USE GateAssumption DEF IInv, server
<1>1. PICK j \in Keys : receipt[j] = <<action[k].visit, action[k].move>>
  BY DEF Made
<1>2. receipt[j] # None
  <2>1. action[k].visit \in Visits /\ action[k].move \in Moves
    BY DEF TypeOK, Taps
  <2> QED
    BY <1>1, <2>1
<1>3. j \in Done /\ action[j].visit = action[k].visit /\ action[j].move = action[k].move
  <2>1. receipt[j] = <<action[j].visit, action[j].move>>
    BY <1>2 DEF TapsInv, ReceiptFits
  <2> QED
    BY <1>1, <1>2, <2>1 DEF Done
<1>4. Assured' = Assured \cup {k} /\ Done' = Done
  BY DEF Assured, Done, TypeOK
<1> QED
  BY <1>3, <1>4 DEF Book!Assure

LEMMA ResidentRefines == ASSUME IInv, Resident PROVE Book!Next
<1> USE GateAssumption DEF IInv
<1>1. UNCHANGED <<action, Done, Assured>>
  BY DEF Resident, Create, Created, Deny, Cancel, Decide, ReplayInvite, TimePasses, InviteVisitor,
     Approve, Admitted, CreateArrival, RestUnchanged, screen, Done, Assured
<1>2. PICK v \in Visits :
        \/ Create(v) \/ Deny(v) \/ Cancel(v) \/ ReplayInvite(v) \/ TimePasses(v)
        \/ \E w \in {"ahead", "open"} : InviteVisitor(v, w) \/ Approve(v, w)
        \/ \E p \in Phones : CreateArrival(v, p)
  BY DEF Resident
<1>3. CASE Create(v)
  <2>1. Book!Ask(v, "resident")
    BY <1>1, <1>3 DEF Create, Created, Book!Ask
  <2> QED
    BY <2>1 DEF Book!Next
<1>4. CASE \E p \in Phones : CreateArrival(v, p)
  <2>1. \E p \in Phones : Book!Ask(v, p)
    BY <1>1, <1>4 DEF CreateArrival, Created, Book!Ask
  <2> QED
    BY <2>1 DEF Book!Next
<1>5. CASE \E w \in {"ahead", "open"} : InviteVisitor(v, w)
  <2>1. Book!Ask(v, "invite")
    BY <1>1, <1>5 DEF InviteVisitor, Created, Book!Ask
  <2> QED
    BY <2>1 DEF Book!Next
<1>6. CASE Deny(v) \/ Cancel(v) \/ \E w \in {"ahead", "open"} : Approve(v, w)
  <2>1. \E to \in {"APPROVED", "DENIED", "CANCELLED"} : Book!Decide(v, to)
    BY <1>1, <1>6 DEF Deny, Cancel, Approve, Decide, Book!Decide
  <2> QED
    BY <2>1 DEF Book!Next
<1>7. CASE ReplayInvite(v) \/ TimePasses(v)
  <2>1. Book!NoEffect
    BY <1>1, <1>7 DEF ReplayInvite, TimePasses, Book!NoEffect, Book!vars
  <2> QED
    BY <2>1 DEF Book!Next
<1> QED
  BY <1>2, <1>3, <1>4, <1>5, <1>6, <1>7

(* A transaction that commits is the one step of the server the book sees. *)
LEMMA CommitRefines == ASSUME IInv, NEW c \in Calls, Commit(c) PROVE Book!Next
<1> DEFINE k == carries[c]
<1> USE GateAssumption DEF IInv
<1>1. /\ k \in Keys /\ action[k] \in Taps /\ action[k] # None /\ receipt[k] = None
      /\ status[action[k].visit] = From(action[k].move)
      /\ status' = [status EXCEPT ![action[k].visit] = To(action[k].move)]
      /\ receipt' = [receipt EXCEPT ![k] = <<action[k].visit, action[k].move>>]
      /\ origin[action[k].visit] \in Phones => origin[action[k].visit] = action[k].phone
      /\ UNCHANGED <<origin, action, told>>
  BY DEF Commit, Reach, Act, CallsInv, Carried, PastLookUp, TypeOK, screen
<1>2. <<action[k].visit, action[k].move>> # None
  BY <1>1 DEF Taps
<1>3. k \notin Done /\ Done' = Done \cup {k} /\ Assured' = Assured
  BY <1>1, <1>2 DEF Done, Assured, TypeOK
<1>4. Book!Move(k)
  BY <1>1, <1>3 DEF Book!Move, Book!From, Book!To, From, To
<1> QED
  BY <1>1, <1>4 DEF Book!Next

LEMMA ServerRefines ==
  ASSUME IInv, NEW c \in Calls, Serve(c) \/ Break(c) \/ Lose(c)
  PROVE Book!Next
<1>1. CASE Commit(c)
  BY <1>1, CommitRefines
<1>2. CASE ~Commit(c)
  <2>1. UNCHANGED <<server, action, told>>
    BY <1>2 DEF Serve, LookUp, CheckReceipt, CheckWindow, RollBack, Recheck, Discard, Break, Lose,
       Reach, screen
  <2> QED
    BY <2>1, Aside DEF Book!Next
<1> QED
  BY <1>1, <1>2

LEMMA GuardRefines ==
  ASSUME IInv, AskInv, NEW p \in Phones, Guard(p) \/ GoOn(p)
  PROVE Book!Next
<1> USE GateAssumption DEF IInv, Book!Next
<1>1. CASE \E k \in Keys, c \in Calls, a \in Taps : Tap(p, k, c, a)
  <2>1. PICK k \in Keys, c \in Calls, a \in Taps : Tap(p, k, c, a)
    BY <1>1
  <2>2. action[k] = None /\ Assured' = Assured /\ Done' = Done
    BY <2>1 DEF Tap, TapsInv, TapMade, Assured, Done, TypeOK, server
  <2>3. Book!MakeTap(k, a)
    BY <2>1, <2>2 DEF Tap, Book!MakeTap, server
  <2> QED
    BY <2>3
<1>2. CASE \E k \in Keys : ConfirmUncertain(p, k)
  <2>1. PICK k \in Keys : ConfirmUncertain(p, k)
    BY <1>2
  <2>2. action[k] # None /\ action[k].visit \in Visits /\ action[k].move \in Moves
    BY <2>1 DEF ConfirmUncertain, Mine, TypeOK, Taps
  <2>3. Made(action[k].visit, action[k].move) # {}
    BY <2>1, <2>2 DEF ConfirmUncertain, Confirms, To, Moves, TapsInv, EnteredOnce
  <2> QED
    BY <2>1, <2>2, <2>3, Assures DEF ConfirmUncertain
<1>3. CASE TapAnswered(p)
  <2> DEFINE k == carries[wait[p]]
  <2>1. k \in Keys /\ action[k] # None /\ told[k] = "open"
    BY <1>3, OwnCall DEF TapAnswered, Mine, AskInv, AnswerAwaited
  <2>2. CASE step[wait[p]] = "done"
    BY <1>3, <2>1, <2>2, DoneMade, Assures DEF TapAnswered
  <2>3. CASE step[wait[p]] # "done"
    BY <1>3, <2>1, <2>3, Aside DEF TapAnswered, TypeOK
  <2> QED
    BY <2>2, <2>3
<1>4. CASE SyncAnswered(p)
  <2> DEFINE k == carries[wait[p]]
  <2>1. k \in Keys /\ action[k] # None
    BY <1>4, OwnCall DEF SyncAnswered, Mine
  <2>2. CASE step[wait[p]] = "done"
    BY <1>4, <2>1, <2>2, DoneMade, Assures DEF SyncAnswered, AfterSync
  <2>3. CASE step[wait[p]] # "done"
    BY <1>4, <2>1, <2>3, Aside DEF SyncAnswered, AfterSync, TypeOK
  <2> QED
    BY <2>2, <2>3
<1>5. CASE Kill(p)
  BY <1>5, Aside DEF Kill, TypeOK
<1>6. CASE \/ TapUnanswered(p) \/ SyncUnanswered(p) \/ EndSync(p) \/ StartSync(p)
           \/ \E k \in Keys : \/ SyncStale(p, k) \/ SyncDefer(p, k)
                              \/ \E c \in Calls : SyncSend(p, k, c) \/ Resend(p, k, c)
  BY <1>6, Aside DEF TapUnanswered, SyncUnanswered, EndSync, StartSync, SyncStale, SyncDefer,
     SyncSend, Resend, screen
<1> QED
  BY <1>1, <1>2, <1>3, <1>4, <1>5, <1>6 DEF Guard, GoOn

LEMMA NextRefines == IInv /\ AskInv /\ [Next]_vars => [Book!Next]_(Book!vars)
<1> SUFFICES ASSUME IInv, AskInv, [Next]_vars PROVE Book!Next
  OBVIOUS
<1>1. CASE Resident
  BY <1>1, ResidentRefines
<1>2. CASE \E c \in Calls : Serve(c) \/ Break(c) \/ Lose(c)
  BY <1>2, ServerRefines
<1>3. CASE \E p \in Phones : Guard(p) \/ GoOn(p)
  BY <1>3, GuardRefines
<1>4. CASE (\E k \in Keys : Rested(k)) \/ UNCHANGED vars
  BY <1>4, Aside DEF Rested, vars, screen, Book!Next
<1> QED
  BY <1>1, <1>2, <1>3, <1>4 DEF Next

(* For any number of phones, calls, taps and faults, each behaviour of the *)
(* server, the network and the phones is a behaviour of the book: a tap    *)
(* moves its visitor in one step, once or never, and an assurance stands   *)
(* (gateMutation, syncQueuedActions, _walkInMutation).                     *)
THEOREM GateImplementsBook == Spec => ImplementsBook
<1>1. Init /\ [][Next]_vars => [](IInv /\ AskInv)
  BY InitInv, NextInv, InitAsk, NextAsk, PTL
<1> QED
  BY <1>1, InitBook, NextRefines, PTL DEF Spec, ImplementsBook, Book!Spec
=============================================================================
