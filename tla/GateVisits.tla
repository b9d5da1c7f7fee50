----------------------------- MODULE GateVisits -----------------------------
(***************************************************************************)
(* A visit from its request to its exit: access.service.ts and             *)
(* gate-arrival.service.ts on the server, guard_controller.dart and        *)
(* offline_action_queue.dart on the guards' phones.                        *)
(*                                                                         *)
(* A guard's tap is one write under an idempotency key of its own.  The    *)
(* server records the key in a receipt, in the transaction that moves the  *)
(* visit.  A phone that lost the answer repeats the call under the same    *)
(* key: from the stored queue when it holds a credential, from the memory  *)
(* of the session when the visit was asked for at the gate.                *)
(*                                                                         *)
(* A call may outlive the phone that made it.  The queue is a set: the     *)
(* actions of a phone do not depend on each other.                         *)
(***************************************************************************)
EXTENDS Naturals, FiniteSets

CONSTANTS
  Visits,         \* access requests
  Keys,           \* idempotency keys, one a tap
  Phones,         \* signed-in guard applications, each at a gate of its own
  Calls,          \* calls of the gate endpoints the server has in hand
  MaxCredentials, \* bound: credentials issued for a visit
  MaxFaults,      \* bound: lost answers, early time-outs, killed applications
  None

Moves == {"CHECK_IN", "CHECK_OUT"}
Statuses == {"NONE", "PENDING", "APPROVED", "DENIED", "CANCELLED", "CHECKED_IN", "CHECKED_OUT"}
Taps == [phone : Phones, visit : Visits, credential : 0 .. MaxCredentials, move : Moves]

ASSUME GateAssumption ==
  /\ MaxCredentials \in Nat /\ MaxFaults \in Nat
  /\ None \notin Phones \cup Calls \cup Taps \cup (Visits \X Moves)
  /\ Phones \cap {"invite", "resident"} = {}

VARIABLES
  status,     \* AccessRequest.status, "NONE" while the row does not exist
  origin,     \* "invite", "resident", or the gate that asked
  window,     \* the clock against validFrom and validUntil
  issued,     \* credentials issued so far; the last one is the valid one
  receipt,    \* GateMutationReceipt of each key: the visit and the move
  step,       \* how far each call has come
  carries,    \* the key each call carries
  action,     \* what each key was made for; credential 0: by request id
  told,       \* what the guard knows of each tap
  doing,      \* each phone's activity; the phone is busy unless "idle"
  wait,       \* the call each phone waits for
  stored,     \* the offline queue in secure storage
  progress,   \* the working copy of the queue while it is synced
  resting,    \* nextAttemptAt of the stored action lies ahead
  uncertain,  \* keys of _uncertainWalkInKeys
  faults

server == <<status, origin, window, issued, receipt>>
calls == <<step, carries>>
screen == <<action, told, uncertain>>
queue == <<stored, progress, resting>>
phone == <<doing, wait>>
vars == <<server, calls, screen, queue, phone, faults>>

Init ==
  /\ status = [v \in Visits |-> "NONE"]
  /\ origin = [v \in Visits |-> None]
  /\ window = [v \in Visits |-> "none"]
  /\ issued = [v \in Visits |-> 0]
  /\ receipt = [k \in Keys |-> None]
  /\ step = [c \in Calls |-> "free"]
  /\ carries = [c \in Calls |-> None]
  /\ action = [k \in Keys |-> None]
  /\ told = [k \in Keys |-> "unused"]
  /\ doing = [p \in Phones |-> "idle"]
  /\ wait = [p \in Phones |-> None]
  /\ stored = [k \in Keys |-> "absent"]
  /\ progress = [k \in Keys |-> "absent"]
  /\ resting = {}
  /\ uncertain = {}
  /\ faults = 0
-----------------------------------------------------------------------------
(* Residents and guards ask for visits, and residents decide.              *)

Created(v, who, s) ==
  /\ status[v] = "NONE"
  /\ status' = [status EXCEPT ![v] = s]
  /\ origin' = [origin EXCEPT ![v] = who]

RestUnchanged == UNCHANGED <<receipt, calls, screen, queue, phone, faults>>

Create(v) == Created(v, "resident", "PENDING") /\ RestUnchanged /\ UNCHANGED <<window, issued>>

CreateArrival(v, p) == Created(v, p, "PENDING") /\ RestUnchanged /\ UNCHANGED <<window, issued>>

(* An approval sets the window and issues the credential.                  *)
Admitted(v, w) ==
  /\ issued[v] < MaxCredentials
  /\ issued' = [issued EXCEPT ![v] = @ + 1]
  /\ window' = [window EXCEPT ![v] = w]
  /\ RestUnchanged

InviteVisitor(v, w) == Created(v, "invite", "APPROVED") /\ Admitted(v, w)

(* A repeated invitation replaces the credential.                          *)
ReplayInvite(v) ==
  /\ status[v] = "APPROVED" /\ origin[v] = "invite" /\ window[v] # "over"
  /\ Admitted(v, window[v])
  /\ UNCHANGED <<status, origin>>

Decide(v, from, to) ==
  /\ status[v] \in from
  /\ status' = [status EXCEPT ![v] = to]
  /\ UNCHANGED origin

(* The window of a request made at the gate starts within minutes, and may *)
(* lie ahead as any other.                                                 *)
Approve(v, w) == Decide(v, {"PENDING"}, "APPROVED") /\ Admitted(v, w)

Deny(v) == Decide(v, {"PENDING"}, "DENIED") /\ RestUnchanged /\ UNCHANGED <<window, issued>>

Cancel(v) == Decide(v, {"PENDING", "APPROVED"}, "CANCELLED") /\ RestUnchanged /\ UNCHANGED <<window, issued>>

Later(w) == IF w = "ahead" THEN "open" ELSE "over"

TimePasses(v) ==
  /\ window[v] \in {"ahead", "open"}
  /\ window' = [window EXCEPT ![v] = Later(@)]
  /\ RestUnchanged /\ UNCHANGED <<status, origin, issued>>
-----------------------------------------------------------------------------
(* The server's half of a call, one step for each statement.               *)

Act(c) == action[carries[c]]

Reach(c, s) ==
  /\ step' = [step EXCEPT ![c] = s]
  /\ UNCHANGED <<carries, screen, queue, phone, faults>>

(* The request is found by its id, or by the credential that is valid now; *)
(* a request of another gate is refused.                                   *)
Addressed(a) ==
  /\ status[a.visit] # "NONE"
  /\ a.credential = 0 \/ (a.credential = issued[a.visit] /\ status[a.visit] # "CANCELLED")
  /\ origin[a.visit] \in Phones => origin[a.visit] = a.phone

LookUp(c) ==
  /\ step[c] = "sent"
  /\ Reach(c, IF Addressed(Act(c)) THEN "found" ELSE "refused")
  /\ UNCHANGED server

CheckReceipt(c) ==
  /\ step[c] = "found"
  /\ Reach(c, IF receipt[carries[c]] # None THEN "done" ELSE "fresh")
  /\ UNCHANGED server

(* An entry needs an open window, and a kind of visitor the society has    *)
(* enabled; an exit needs neither.                                         *)
CheckWindow(c) ==
  LET a == Act(c) IN
  /\ step[c] = "fresh"
  /\ \/ (a.move = "CHECK_IN" => window[a.visit] = "open") /\ Reach(c, "ready")
     \/ a.move = "CHECK_IN" /\ Reach(c, "refused")
  /\ UNCHANGED server

From(move) == IF move = "CHECK_IN" THEN "APPROVED" ELSE "CHECKED_IN"
To(move) == IF move = "CHECK_IN" THEN "CHECKED_IN" ELSE "CHECKED_OUT"

(* Mutant: the update does not ask for the status it moves from.           *)
CommitAnyStatus(c) ==
  LET a == Act(c) IN
  /\ step[c] = "ready" /\ receipt[carries[c]] = None
  /\ status' = [status EXCEPT ![a.visit] = To(a.move)]
  /\ receipt' = [receipt EXCEPT ![carries[c]] = <<a.visit, a.move>>]
  /\ Reach(c, "done")
  /\ UNCHANGED <<origin, window, issued>>

(* The transaction moves the visit and writes the receipt, or neither.     *)
(* The connection may break once it has committed.                         *)
Commit(c) ==
  LET a == Act(c) IN
  /\ step[c] = "ready"
  /\ status[a.visit] = From(a.move) /\ receipt[carries[c]] = None
  /\ status' = [status EXCEPT ![a.visit] = To(a.move)]
  /\ receipt' = [receipt EXCEPT ![carries[c]] = <<a.visit, a.move>>]
  /\ \E s \in {"done", "failed"} : Reach(c, s)
  /\ UNCHANGED <<origin, window, issued>>

RollBack(c) ==
  LET a == Act(c) IN
  /\ step[c] = "ready"
  /\ status[a.visit] # From(a.move) \/ receipt[carries[c]] # None
  /\ Reach(c, "failed")
  /\ UNCHANGED server

(* Mutant: a failed transaction is taken for one that a repeat committed.  *)
RecheckTrusting(c) ==
  /\ step[c] = "failed"
  /\ Reach(c, IF status[Act(c).visit] # From(Act(c).move) THEN "done" ELSE "refused")
  /\ UNCHANGED server

(* The catch clause: the receipt decides what a failed transaction was.    *)
Recheck(c) ==
  /\ step[c] = "failed"
  /\ Reach(c, IF receipt[carries[c]] # None THEN "done" ELSE "refused")
  /\ UNCHANGED server

Answers == {"done", "refused"}
Waited(c) == \E p \in Phones : wait[p] = c

(* A query fails: the call ends in an error the phone can read.            *)
Break(c) ==
  /\ step[c] \in {"sent", "found", "fresh", "ready", "failed"}
  /\ faults < MaxFaults /\ faults' = faults + 1
  /\ step' = [step EXCEPT ![c] = "refused"]
  /\ UNCHANGED <<carries, screen, queue, phone, server>>

(* The connection or the server process goes down with the call.           *)
Lose(c) ==
  /\ step[c] \notin {"free", "lost"}
  /\ faults < MaxFaults /\ faults' = faults + 1
  /\ step' = [step EXCEPT ![c] = "lost"]
  /\ UNCHANGED <<carries, screen, queue, phone, server>>

Released(c) ==
  /\ step' = [step EXCEPT ![c] = "free"]
  /\ carries' = [carries EXCEPT ![c] = None]

(* Nobody waits for the answer any more.                                   *)
Discard(c) ==
  /\ step[c] \in Answers \cup {"lost"} /\ ~Waited(c)
  /\ Released(c)
  /\ UNCHANGED <<server, screen, queue, phone, faults>>
-----------------------------------------------------------------------------
(* The phone.                                                              *)

Mine(p) == {k \in Keys : action[k] # None /\ action[k].phone = p}

Send(p, k, c, what) ==
  /\ step[c] = "free"
  /\ step' = [step EXCEPT ![c] = "sent"]
  /\ carries' = [carries EXCEPT ![c] = k]
  /\ wait' = [wait EXCEPT ![p] = c]
  /\ doing' = [doing EXCEPT ![p] = what]

(* A tap makes a new key: on a credential of any age, or on the request    *)
(* that this gate made, unless a key of it is uncertain.  ENTER is offered *)
(* once a visit was approved, EXIT once it was entered.                    *)
Tap(p, k, c, a) ==
  /\ doing[p] = "idle" /\ told[k] = "unused" /\ a.phone = p
  /\ issued[a.visit] > 0 /\ a.credential <= issued[a.visit]
  /\ a.move = "CHECK_OUT" => status[a.visit] \in {"CHECKED_IN", "CHECKED_OUT"}
  /\ a.credential = 0 => origin[a.visit] = p /\ \A j \in uncertain : action[j] # a
  /\ action' = [action EXCEPT ![k] = a]
  /\ told' = [told EXCEPT ![k] = "open"]
  /\ Send(p, k, c, "tap")
  /\ UNCHANGED <<server, uncertain, queue, faults>>

(* A status that shows the move has happened.                              *)
Confirms(a) == status[a.visit] \in {To(a.move), "CHECKED_OUT"}

(* An uncertain move is looked up before it is repeated, or on Refresh.    *)
ConfirmUncertain(p, k) ==
  /\ doing[p] = "idle" /\ k \in uncertain \cap Mine(p)
  /\ Confirms(action[k])
  /\ uncertain' = uncertain \ {k}
  /\ told' = [told EXCEPT ![k] = "ok"]
  /\ UNCHANGED <<server, calls, action, queue, phone, faults>>

Resend(p, k, c) ==
  /\ doing[p] = "idle" /\ k \in uncertain \cap Mine(p)
  /\ status[action[k].visit] = From(action[k].move)
  /\ Send(p, k, c, "tap")
  /\ UNCHANGED <<server, screen, queue, faults>>

(* A move with a credential goes to the stored queue, one by request id is *)
(* remembered by the session.                                              *)
Kept(k) ==
  IF action[k].credential = 0
    THEN uncertain' = uncertain \cup {k} /\ UNCHANGED stored
    ELSE stored' = [stored EXCEPT ![k] = "pending"] /\ UNCHANGED uncertain

(* The transport gave up: the connection is lost, or twenty seconds passed *)
(* while the call goes on.                                                 *)
GivesUp(p) ==
  /\ wait[p] # None
  /\ IF step[wait[p]] = "lost" THEN Released(wait[p]) /\ UNCHANGED faults
                               ELSE faults < MaxFaults /\ faults' = faults + 1 /\ UNCHANGED calls
  /\ wait' = [wait EXCEPT ![p] = None]

TapUnanswered(p) ==
  /\ doing[p] = "tap" /\ GivesUp(p)
  /\ Kept(carries[wait[p]])
  /\ doing' = [doing EXCEPT ![p] = "idle"]
  /\ UNCHANGED <<server, action, told, progress, resting>>

TapAnswered(p) ==
  LET k == carries[wait[p]] IN
  /\ doing[p] = "tap" /\ wait[p] # None /\ step[wait[p]] \in Answers
  /\ told' = [told EXCEPT ![k] = IF step[wait[p]] = "done" THEN "ok" ELSE "refused"]
  /\ uncertain' = uncertain \ {k}
  /\ Released(wait[p])
  /\ wait' = [wait EXCEPT ![p] = None]
  /\ doing' = [doing EXCEPT ![p] = "idle"]
  /\ UNCHANGED <<server, action, queue, faults>>

(* Mutant: the queue is not synced while an action of it is under review.  *)
QueuedUnreviewed(p) ==
  /\ \E k \in Mine(p) : stored[k] = "pending"
  /\ \A k \in Mine(p) : stored[k] # "review"

Queued(p) == \E k \in Mine(p) : stored[k] = "pending"

(* When the application starts and when the guard asks, the queue is read. *)
StartSync(p) ==
  /\ doing[p] = "idle" /\ Queued(p)
  /\ doing' = [doing EXCEPT ![p] = "sync"]
  /\ progress' = [k \in Keys |->
       IF k \in Mine(p) /\ stored[k] # "absent"
         THEN IF stored[k] = "pending" THEN "todo" ELSE "review"
         ELSE progress[k]]
  /\ UNCHANGED <<server, calls, screen, stored, resting, wait, faults>>

Syncing(p, k) == doing[p] = "sync" /\ wait[p] = None /\ k \in Mine(p) /\ progress[k] = "todo"

(* Older than thirty days: an action is not replayed but reviewed.         *)
SyncStale(p, k) ==
  /\ Syncing(p, k)
  /\ progress' = [progress EXCEPT ![k] = "review"]
  /\ UNCHANGED <<server, calls, screen, stored, resting, phone, faults>>

SyncDefer(p, k) ==
  /\ Syncing(p, k) /\ k \in resting
  /\ progress' = [progress EXCEPT ![k] = "pending"]
  /\ UNCHANGED <<server, calls, screen, stored, resting, phone, faults>>

SyncSend(p, k, c) ==
  /\ Syncing(p, k) /\ k \notin resting
  /\ Send(p, k, c, "sync")
  /\ UNCHANGED <<server, screen, queue, faults>>

(* Mutant: what is put up for review is taken to be refused.               *)
AfterSyncRevised(k, ok) == [told EXCEPT ![k] = IF ok THEN "ok" ELSE "refused"]

(* A success is told; a review asks what happened and denies nothing.      *)
AfterSync(k, ok) == [told EXCEPT ![k] = IF ok THEN "ok" ELSE @]

SyncAnswered(p) ==
  LET k == carries[wait[p]]
      ok == step[wait[p]] = "done" IN
  /\ doing[p] = "sync" /\ wait[p] # None /\ step[wait[p]] \in Answers
  /\ progress' = [progress EXCEPT ![k] = IF ok THEN "absent" ELSE "review"]
  /\ told' = AfterSync(k, ok)
  /\ Released(wait[p])
  /\ wait' = [wait EXCEPT ![p] = None]
  /\ UNCHANGED <<server, action, uncertain, stored, resting, doing, faults>>

(* The action is retried later, and those behind it with the next sync.    *)
SyncUnanswered(p) ==
  /\ doing[p] = "sync" /\ GivesUp(p)
  /\ progress' = [k \in Keys |-> IF k = carries[wait[p]] THEN "retry"
                                  ELSE IF k \in Mine(p) /\ progress[k] = "todo" THEN "pending"
                                  ELSE progress[k]]
  /\ UNCHANGED <<server, screen, stored, resting, doing>>

(* Mutant: after a failure only what was tried is written back.            *)
LeftTried(k) == IF progress[k] = "retry" THEN "pending" ELSE IF progress[k] = "pending" THEN "absent" ELSE progress[k]

(* What remains of an action when its queue has been synced.               *)
Left(k) == IF progress[k] = "retry" THEN "pending" ELSE progress[k]

(* What remains replaces the queue, a failed action with a moment for its  *)
(* next attempt.                                                           *)
EndSync(p) ==
  /\ doing[p] = "sync" /\ wait[p] = None
  /\ \A k \in Mine(p) : progress[k] # "todo"
  /\ stored' = [k \in Keys |-> IF k \in Mine(p) THEN Left(k) ELSE stored[k]]
  /\ resting' = (resting \ {k \in Mine(p) : Left(k) # "pending"}) \cup {k \in Mine(p) : progress[k] = "retry"}
  /\ progress' = [k \in Keys |-> IF k \in Mine(p) THEN "absent" ELSE progress[k]]
  /\ doing' = [doing EXCEPT ![p] = "idle"]
  /\ UNCHANGED <<server, calls, screen, wait, faults>>

(* The clock passes nextAttemptAt.                                         *)
Rested(k) ==
  /\ k \in resting
  /\ resting' = resting \ {k}
  /\ UNCHANGED <<server, calls, screen, stored, progress, phone, faults>>

(* The application is killed, or the guard signs out: the queue stays in   *)
(* storage, the memory of the session goes.                                *)
Kill(p) ==
  /\ faults < MaxFaults /\ faults' = faults + 1
  /\ told' = [k \in Keys |-> IF k \in Mine(p) /\ told[k] = "open" /\ stored[k] = "absent"
                              THEN "gone" ELSE told[k]]
  /\ uncertain' = uncertain \ Mine(p)
  /\ progress' = [k \in Keys |-> IF k \in Mine(p) THEN "absent" ELSE progress[k]]
  /\ doing' = [doing EXCEPT ![p] = "idle"]
  /\ wait' = [wait EXCEPT ![p] = None]
  /\ UNCHANGED <<server, calls, action, stored, resting>>
-----------------------------------------------------------------------------
Resident ==
  \E v \in Visits :
    \/ Create(v) \/ Deny(v) \/ Cancel(v) \/ ReplayInvite(v) \/ TimePasses(v)
    \/ \E w \in {"ahead", "open"} : InviteVisitor(v, w) \/ Approve(v, w)
    \/ \E p \in Phones : CreateArrival(v, p)

Serve(c) == LookUp(c) \/ CheckReceipt(c) \/ CheckWindow(c) \/ Commit(c) \/ RollBack(c) \/ Recheck(c) \/ Discard(c)

GoOn(p) ==
  \/ TapUnanswered(p) \/ TapAnswered(p) \/ SyncAnswered(p) \/ SyncUnanswered(p) \/ EndSync(p)
  \/ \E k \in Keys : SyncStale(p, k) \/ SyncDefer(p, k) \/ \E c \in Calls : SyncSend(p, k, c)

Guard(p) ==
  \/ StartSync(p) \/ Kill(p)
  \/ \E k \in Keys : \/ ConfirmUncertain(p, k)
                     \/ \E c \in Calls : \/ Resend(p, k, c)
                                         \/ \E a \in Taps : Tap(p, k, c, a)

Next ==
  \/ Resident
  \/ \E c \in Calls : Serve(c) \/ Break(c) \/ Lose(c)
  \/ \E p \in Phones : Guard(p) \/ GoOn(p)
  \/ \E k \in Keys : Rested(k)

Spec == Init /\ [][Next]_vars

(* The server and the phone go on with what they have begun, the clock     *)
(* moves, and an idle phone is asked to sync its queue in the end: the     *)
(* application does so when it starts, the guard with "Retry safe sync".   *)
Fairness ==
  /\ \A c \in Calls : WF_vars(Serve(c))
  /\ \A p \in Phones : WF_vars(GoOn(p) \/ StartSync(p))
  /\ \A k \in Keys : WF_vars(Rested(k))

FairSpec == Spec /\ Fairness
-----------------------------------------------------------------------------
TypeOK ==
  /\ status \in [Visits -> Statuses]
  /\ origin \in [Visits -> Phones \cup {"invite", "resident", None}]
  /\ window \in [Visits -> {"none", "ahead", "open", "over"}]
  /\ issued \in [Visits -> 0 .. MaxCredentials]
  /\ receipt \in [Keys -> (Visits \X Moves) \cup {None}]
  /\ step \in [Calls -> {"free", "sent", "found", "fresh", "ready", "failed", "done", "refused", "lost"}]
  /\ carries \in [Calls -> Keys \cup {None}]
  /\ action \in [Keys -> Taps \cup {None}]
  /\ told \in [Keys -> {"unused", "open", "ok", "refused", "gone"}]
  /\ doing \in [Phones -> {"idle", "tap", "sync"}]
  /\ wait \in [Phones -> Calls \cup {None}]
  /\ stored \in [Keys -> {"absent", "pending", "review"}]
  /\ progress \in [Keys -> {"absent", "todo", "pending", "retry", "review"}]
  /\ resting \subseteq Keys
  /\ uncertain \subseteq Keys
  /\ faults \in 0 .. MaxFaults

Made(v, m) == {k \in Keys : receipt[k] = <<v, m>>}

(* Whatever is repeated or overtaken, a visit is entered at most once and  *)
(* left at most once, the receipts agree with its status, a cancelled or   *)
(* denied visit was never entered, and a gate's own visit only by that     *)
(* gate (gateMutation, committedGateMutation, cancel).                     *)
EnteredOnce ==
  \A v \in Visits :
    /\ \A m \in Moves : \A j, k \in Made(v, m) : j = k
    /\ Made(v, "CHECK_IN") # {} <=> status[v] \in {"CHECKED_IN", "CHECKED_OUT"}
    /\ Made(v, "CHECK_OUT") # {} <=> status[v] = "CHECKED_OUT"
    /\ \A m \in Moves : \A k \in Made(v, m) : origin[v] \in Phones => action[k].phone = origin[v]

(* A tap the guard has no answer for is never dropped while the session    *)
(* lasts: it is being waited for, stored, or remembered under its key      *)
(* (_gateMutation, _walkInMutation, syncQueuedActions).                    *)
OpenActionsHeld ==
  \A k \in Keys : told[k] = "open" =>
    \/ k \in uncertain \/ stored[k] # "absent"
    \/ \E p \in Phones : doing[p] = "tap" /\ wait[p] # None /\ carries[wait[p]] = k

(* A guard who is told that a visitor entered or left can rely on it: the  *)
(* server has a receipt of that move, under this key or, for a confirmed   *)
(* status, under another one.                                              *)
ToldTrue == \A k \in Keys : told[k] = "ok" => Made(action[k].visit, action[k].move) # {}

(* A stored action is sent and answered, or put up for review: a failed    *)
(* sync never strands it or what is queued behind it.                      *)
QueueDrains == \A k \in Keys : stored[k] = "pending" ~> stored[k] # "pending"
-----------------------------------------------------------------------------
(* Behind the book: calls and their statements, receipts as such, the      *)
(* clock, credentials, and what the phones keep.                           *)
Done == {k \in Keys : receipt[k] # None}
Assured == {k \in Keys : told[k] = "ok"}

Book == INSTANCE VisitBook WITH Gates <- Phones, tap <- action, done <- Done, assured <- Assured

(* However calls overlap, are repeated, lost or cut off, residents and     *)
(* guards see one indivisible operation, or nothing: a tap moves its       *)
(* visitor once or never, at the gate the visit belongs to, decisions stay *)
(* made, and no late or repeated answer withdraws an assurance.            *)
ImplementsBook == Book!Spec
=============================================================================
