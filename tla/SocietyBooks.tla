---------------------------- MODULE SocietyBooks ----------------------------
(***************************************************************************)
(* What the ledger of a society promises to its accountants and auditors,  *)
(* with no draft, lock, concurrent call or deadlock in sight: every call   *)
(* is one indivisible step, an entry enters the books of an open period    *)
(* and stays there as it was written, a mistake is cancelled once by its   *)
(* mirror, an expense is booked once, and a payable is paid by standing    *)
(* entries, each of them once, up to its amount.                           *)
(*                                                                         *)
(* SocietyLedger is the program that has to implement this specification.  *)
(***************************************************************************)
EXTENDS Integers

CONSTANTS
  Periods,   \* accounting periods
  Journals,  \* entry numbers
  Expenses,  \* expenses, and the payable of each
  Amount,    \* what each of them costs
  DateOf,    \* the period of its date
  Entries,   \* what accountants book by hand
  None

VARIABLES
  open,     \* periods that are not closed
  book,     \* the entry under each number that was booked
  owed,     \* expenses that were approved
  entryOf,  \* the entry of each booked expense
  paid,     \* what has been paid of each expense
  used      \* entries that paid something

vars == <<open, book, owed, entryOf, paid, used>>

Negated(l) == [payable |-> -l.payable, expense |-> -l.expense]
ExpenseLines(e) == [payable |-> -Amount[e], expense |-> Amount[e]]

Init ==
  /\ open = Periods
  /\ book = [j \in {} |-> None]
  /\ owed = {}
  /\ entryOf = [e \in Expenses |-> None]
  /\ paid = [e \in Expenses |-> 0]
  /\ used = {}

Close(p) ==
  /\ p \in open
  /\ open' = open \ {p}
  /\ UNCHANGED <<book, owed, entryOf, paid, used>>

(* Entries are only ever added, and only to an open period.                *)
Enter(j, p, l, cancelled) ==
  /\ j \notin DOMAIN book /\ p \in open
  /\ book' = [i \in DOMAIN book \cup {j} |->
       IF i = j THEN [period |-> p, lines |-> l, cancels |-> cancelled] ELSE book[i]]
  /\ UNCHANGED <<open, owed, paid, used>>

(* An entry that was booked and never cancelled.                           *)
Stands(j) ==
  /\ j \in DOMAIN book
  /\ \A k \in DOMAIN book : book[k].cancels # j

Post(j, p, l) == Enter(j, p, l, None) /\ UNCHANGED entryOf

Reverse(j, k, p) ==
  /\ Stands(j)
  /\ Enter(k, p, Negated(book[j].lines), j)
  /\ UNCHANGED entryOf

Approve(e) ==
  /\ e \notin owed
  /\ owed' = owed \cup {e}
  /\ UNCHANGED <<open, book, entryOf, paid, used>>

BookExpense(e, j) ==
  /\ e \in owed /\ entryOf[e] = None
  /\ Enter(j, DateOf[e], ExpenseLines(e), None)
  /\ entryOf' = [entryOf EXCEPT ![e] = j]

Pay(e, j) ==
  /\ e \in owed
  /\ Stands(j) /\ j \notin used
  /\ book[j].lines.expense >= 0
  /\ book[j].lines.payable \in 1 .. (Amount[e] - paid[e])
  /\ paid' = [paid EXCEPT ![e] = @ + book[j].lines.payable]
  /\ used' = used \cup {j}
  /\ UNCHANGED <<open, book, owed, entryOf>>

(* A call is refused, or prepares what another one will book.              *)
NoEffect == UNCHANGED vars

Next ==
  \/ NoEffect
  \/ \E p \in Periods : Close(p)
  \/ \E j \in Journals, p \in Periods :
       \/ \E l \in Entries : Post(j, p, l)
       \/ \E k \in Journals : Reverse(j, k, p)
  \/ \E e \in Expenses :
       \/ Approve(e)
       \/ \E j \in Journals : BookExpense(e, j) \/ Pay(e, j)

Spec == Init /\ [][Next]_vars
=============================================================================
