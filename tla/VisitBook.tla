------------------------------ MODULE VisitBook ------------------------------
(***************************************************************************)
(* What the gate promises to residents and guards, with no credential,     *)
(* clock, receipt, queue, network or crash in sight: somebody asks for a   *)
(* visit, the household decides, and a tap of a guard either moves the     *)
(* visitor once, in one indivisible step, or never.  A guard is assured    *)
(* only of a move that was made.                                           *)
(*                                                                         *)
(* GateVisits is the program that has to implement this specification.     *)
(***************************************************************************)
CONSTANTS
  Visits,  \* requested visits
  Gates,   \* the gates, each with a guard
  Keys,    \* taps of the guards
  Taps,    \* what a tap can mean: a gate, a visit and a move of it
  None

VARIABLES
  status,   \* how far each visit has come
  origin,   \* who asked for it: "invite", "resident" or a gate
  tap,      \* what each tap meant
  done,     \* taps that moved a visitor
  assured   \* taps the guard was told have happened

vars == <<status, origin, tap, done, assured>>

From(move) == IF move = "CHECK_IN" THEN "APPROVED" ELSE "CHECKED_IN"
To(move) == IF move = "CHECK_IN" THEN "CHECKED_IN" ELSE "CHECKED_OUT"

Init ==
  /\ status = [v \in Visits |-> "NONE"]
  /\ origin = [v \in Visits |-> None]
  /\ tap = [k \in Keys |-> None]
  /\ done = {}
  /\ assured = {}

(* Only an invitation needs nobody's approval.                             *)
Ask(v, who) ==
  /\ status[v] = "NONE"
  /\ status' = [status EXCEPT ![v] = IF who = "invite" THEN "APPROVED" ELSE "PENDING"]
  /\ origin' = [origin EXCEPT ![v] = who]
  /\ UNCHANGED <<tap, done, assured>>

Decide(v, to) ==
  /\ status[v] = "PENDING" \/ (status[v] = "APPROVED" /\ to = "CANCELLED")
  /\ status' = [status EXCEPT ![v] = to]
  /\ UNCHANGED <<origin, tap, done, assured>>

MakeTap(k, a) ==
  /\ tap[k] = None
  /\ tap' = [tap EXCEPT ![k] = a]
  /\ UNCHANGED <<status, origin, done, assured>>

(* A visit a gate asked for passes at that gate.                           *)
Move(k) ==
  LET a == tap[k] IN
  /\ a # None /\ k \notin done
  /\ status[a.visit] = From(a.move)
  /\ origin[a.visit] \in Gates => origin[a.visit] = a.phone
  /\ status' = [status EXCEPT ![a.visit] = To(a.move)]
  /\ done' = done \cup {k}
  /\ UNCHANGED <<origin, tap, assured>>

(* The guard learns that the move was made, by this tap or another.        *)
Assure(k) ==
  /\ tap[k] # None
  /\ \E j \in done : tap[j].visit = tap[k].visit /\ tap[j].move = tap[k].move
  /\ assured' = assured \cup {k}
  /\ UNCHANGED <<status, origin, tap, done>>

(* Calls, answers, repeats, faults and the clock.                          *)
NoEffect == UNCHANGED vars

Next ==
  \/ NoEffect
  \/ \E v \in Visits :
       \/ \E who \in Gates \cup {"invite", "resident"} : Ask(v, who)
       \/ \E to \in {"APPROVED", "DENIED", "CANCELLED"} : Decide(v, to)
  \/ \E k \in Keys :
       \/ Move(k) \/ Assure(k)
       \/ \E a \in Taps : MakeTap(k, a)

Spec == Init /\ [][Next]_vars
=============================================================================
