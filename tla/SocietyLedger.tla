---------------------------- MODULE SocietyLedger ----------------------------
(***************************************************************************)
(* The double-entry ledger of one society and the sub-ledger of its        *)
(* expenses: accounting.service.ts (drafts, posting, reversal, period      *)
(* close), finance-operations.service.ts (expenses, payables, settlement   *)
(* by a payment journal, budget reports), the issue transaction of         *)
(* receivables.service.ts and the triggers of the accounting migrations.   *)
(*                                                                         *)
(* A journal is named by its entry number, which is unique.  A transaction *)
(* that may wait between two of its locks has two steps: the first takes   *)
(* the row it starts from, the second takes the rest and commits.  Locks   *)
(* are read off the control points.  A refused call changes nothing: it is *)
(* a first step that is not enabled, or a last step without effect.        *)
(***************************************************************************)
EXTENDS Integers, FiniteSets, FiniteSetsExt

CONSTANTS
  Periods,   \* accounting periods; their dates never overlap
  Journals,  \* entry numbers
  Expenses,  \* expense numbers, and the payable of each
  Amount,    \* amountPaise of each expense
  DateOf,    \* the period of each expense's date
  Entries,   \* what accountants book by hand
  Named,     \* sources they may name for it
  Charges,   \* (charge rule, unit, billing period) to be issued
  Requests,  \* slots for concurrent calls
  None

(* The net debit of an entry on the payable account and on the expense     *)
(* account; asset accounts take the balance.                               *)
Lines == [payable : Int, expense : Int]

ASSUME LedgerAssumption ==
  /\ Amount \in [Expenses -> Nat \ {0}]
  /\ DateOf \in [Expenses -> Periods]
  /\ Entries \subseteq Lines
  /\ Named \subseteq Journals \cup Expenses \cup {None}
  /\ None \notin Periods \cup Journals \cup Expenses \cup Charges
  /\ Journals \cap Expenses = {}
  /\ Charges \cap (Journals \cup Expenses) = {}

VARIABLES
  period,   \* AccountingPeriod.status
  journal,  \* JournalEntry.status, "NONE" while the row does not exist
  periodOf, \* JournalEntry.periodId
  lines,    \* its JournalLine rows
  source,   \* (sourceType, sourceId): the journal or expense it was made for
  mirrors,  \* reversalOfEntryId
  expense,  \* SocietyExpense.status
  booked,   \* SocietyExpense.journalEntryId
  payable,  \* SocietyPayable.status
  settles,  \* the payable a journal settles (unique PayableSettlement.journalEntryId)
  charge,   \* what became of a call of issue
  at,       \* control point of each call
  on        \* the row its first step locked

entries == <<journal, periodOf, lines, source, mirrors>>
ledger == <<period, entries>>
subledger == <<expense, booked, payable, settles>>
calls == <<at, on>>
vars == <<ledger, subledger, charge, calls>>

Booked == {"POSTED", "REVERSED"}
Negated(l) == [payable |-> -l.payable, expense |-> -l.expense]
ExpenseLines(e) == [payable |-> -Amount[e], expense |-> Amount[e]]

Init ==
  /\ period = [p \in Periods |-> "OPEN"]
  /\ journal = [j \in Journals |-> "NONE"]
  /\ periodOf = [j \in Journals |-> None]
  /\ lines = [j \in Journals |-> [payable |-> 0, expense |-> 0]]
  /\ source = [j \in Journals |-> None]
  /\ mirrors = [j \in Journals |-> None]
  /\ expense = [e \in Expenses |-> "NONE"]
  /\ booked = [e \in Expenses |-> None]
  /\ payable = [e \in Expenses |-> "NONE"]
  /\ settles = [j \in Journals |-> None]
  /\ charge = [c \in Charges |-> "none"]
  /\ at = [r \in Requests |-> "idle"]
  /\ on = [r \in Requests |-> None]
-----------------------------------------------------------------------------
(* Row locks.                                                              *)

Holds(r, ops, row) == at[r] \in ops /\ on[r] = row

JournalLocked(j) == \E r \in Requests : Holds(r, {"posting", "reversing"}, j)
PayableLocked(e) == \E r \in Requests : Holds(r, {"settling", "expensing"}, e)
PeriodHeld(p) == \E r \in Requests : Holds(r, {"closing"}, p)
PeriodShared(p) == \E r \in Requests : Holds(r, {"drafting"}, p)
PeriodBusy(p) == PeriodHeld(p) \/ PeriodShared(p)

Start(r, op, row) ==
  /\ at[r] = "idle"
  /\ at' = [at EXCEPT ![r] = op]
  /\ on' = [on EXCEPT ![r] = row]
  /\ UNCHANGED <<ledger, subledger, charge>>

End(r) ==
  /\ at' = [at EXCEPT ![r] = "idle"]
  /\ on' = [on EXCEPT ![r] = None]

(* An INSERT of journal j: the trigger JournalEntry_require_draft_insert   *)
(* takes DRAFT rows only, and the unique indexes on the entry number and   *)
(* on the source let it happen once.                                       *)
MayInsert(j, inserted, src) ==
  /\ inserted = "DRAFT"
  /\ journal[j] = "NONE"
  /\ src # None => \A k \in Journals : source[k] # src

Write(j, st, p, l, src) ==
  /\ journal' = [journal EXCEPT ![j] = st]
  /\ periodOf' = [periodOf EXCEPT ![j] = p]
  /\ lines' = [lines EXCEPT ![j] = l]
  /\ source' = [source EXCEPT ![j] = src]
  /\ UNCHANGED mirrors
-----------------------------------------------------------------------------
(* createDraft: the period is locked FOR SHARE until the draft is written. *)
(* The caller may name a source, a journal only once it exists.            *)
Nameable == {src \in Named : src \in Journals => journal[src] # "NONE"}

StartDraft(r, p) ==
  /\ period[p] = "OPEN" /\ ~PeriodHeld(p)
  /\ Start(r, "drafting", p)

EndDraft(r, j, l, src) ==
  /\ at[r] = "drafting"
  /\ IF MayInsert(j, "DRAFT", src)
       THEN Write(j, "DRAFT", on[r], l, src)
       ELSE UNCHANGED entries
  /\ End(r)
  /\ UNCHANGED <<period, subledger, charge>>

(* postJournal: the journal first, then its period.                        *)
StartPost(r, j) ==
  /\ journal[j] = "DRAFT" /\ ~JournalLocked(j)
  /\ Start(r, "posting", j)

EndPost(r) ==
  /\ at[r] = "posting"
  /\ ~PeriodBusy(periodOf[on[r]])
  /\ journal' = IF period[periodOf[on[r]]] = "OPEN"
                  THEN [journal EXCEPT ![on[r]] = "POSTED"] ELSE journal
  /\ End(r)
  /\ UNCHANGED <<period, periodOf, lines, source, mirrors, subledger, charge>>

(* reverseJournal: the journal first, then the period of the reversal; a   *)
(* mirrored journal is written and posted and its source marked.           *)
StartReverse(r, j) ==
  /\ journal[j] = "POSTED" /\ ~JournalLocked(j)
  /\ Start(r, "reversing", j)

(* Mutant: the reversal may be dated in a closed period.                   *)
ReversibleBackdated(j, k, p) == MayInsert(k, "DRAFT", j)

Reversible(j, k, p) == period[p] = "OPEN" /\ MayInsert(k, "DRAFT", j)

(* Mutant: the source journal is not marked.                               *)
MirroredUnmarked(j, k) == [journal EXCEPT ![k] = "POSTED"]

Mirrored(j, k) == [journal EXCEPT ![k] = "POSTED", ![j] = "REVERSED"]

EndReverse(r, k, p) ==
  /\ at[r] = "reversing"
  /\ ~PeriodBusy(p)
  /\ IF Reversible(on[r], k, p)
       THEN /\ journal' = Mirrored(on[r], k)
            /\ periodOf' = [periodOf EXCEPT ![k] = p]
            /\ lines' = [lines EXCEPT ![k] = Negated(lines[on[r]])]
            /\ source' = [source EXCEPT ![k] = on[r]]
            /\ mirrors' = [mirrors EXCEPT ![k] = on[r]]
       ELSE UNCHANGED entries
  /\ End(r)
  /\ UNCHANGED <<period, subledger, charge>>

(* Mutant: closePeriod does not wait for drafts being written.             *)
StartCloseUnshared(r, p) ==
  /\ period[p] = "OPEN" /\ ~PeriodHeld(p)
  /\ Start(r, "closing", p)

(* closePeriod: the period first, then every draft in it.                  *)
StartClose(r, p) ==
  /\ period[p] = "OPEN" /\ ~PeriodBusy(p)
  /\ Start(r, "closing", p)

DraftsOf(p) == {j \in Journals : journal[j] = "DRAFT" /\ periodOf[j] = p}

(* Mutant: closePeriod waits for the drafts to go instead of refusing.     *)
CloseWaitsForDrafts(r) == DraftsOf(on[r]) # {}

CloseWaits(r) == \E j \in DraftsOf(on[r]) : JournalLocked(j)

EndClose(r) ==
  /\ at[r] = "closing"
  /\ ~CloseWaits(r)
  /\ period' = IF DraftsOf(on[r]) = {} THEN [period EXCEPT ![on[r]] = "CLOSED"] ELSE period
  /\ End(r)
  /\ UNCHANGED <<entries, subledger, charge>>
-----------------------------------------------------------------------------
CreateExpense(e) ==
  /\ expense[e] = "NONE"
  /\ expense' = [expense EXCEPT ![e] = "DRAFT"]
  /\ UNCHANGED <<ledger, booked, payable, settles, charge, calls>>

ApproveExpense(e) ==
  /\ expense[e] = "DRAFT"
  /\ expense' = [expense EXCEPT ![e] = "APPROVED"]
  /\ payable' = [payable EXCEPT ![e] = "OPEN"]
  /\ UNCHANGED <<ledger, booked, settles, charge, calls>>

(* postExpense: the expense and its payable first, then the period of the  *)
(* expense date; the journal is written and posted and linked.             *)
StartExpense(r, e) ==
  /\ expense[e] = "APPROVED" /\ ~PayableLocked(e)
  /\ Start(r, "expensing", e)

(* Mutant: the expense is marked before the period is known to be open.    *)
ExpenseAfterEarly(e, accepted) == [expense EXCEPT ![e] = "POSTED"]

ExpenseAfter(e, accepted) == IF accepted THEN [expense EXCEPT ![e] = "POSTED"] ELSE expense

EndExpense(r, j) ==
  LET e == on[r]
      p == DateOf[e]
      accepted == period[p] = "OPEN" /\ MayInsert(j, "DRAFT", e)
  IN /\ at[r] = "expensing"
     /\ ~PeriodBusy(p)
     /\ IF accepted
          THEN /\ Write(j, "POSTED", p, ExpenseLines(e), e)
               /\ booked' = [booked EXCEPT ![e] = j]
          ELSE UNCHANGED <<entries, booked>>
     /\ expense' = ExpenseAfter(e, accepted)
     /\ End(r)
     /\ UNCHANGED <<period, payable, settles, charge>>

(* settlePayable: the payable first, then the payment journal.             *)
StartSettle(r, e) ==
  /\ payable[e] \in {"OPEN", "PARTIALLY_PAID"} /\ ~PayableLocked(e)
  /\ Start(r, "settling", e)

(* The sum over PayableSettlement; a row carries the payable debit of its  *)
(* journal.  It is counted paisa by paisa, each with its journal.          *)
Paise(e) == UNION {{j} \X (1 .. lines[j].payable) : j \in {k \in Journals : settles[k] = e}}
Settled(e) == Cardinality(Paise(e))

(* Mutant: a payment that was reversed still settles.                      *)
PaysReversed(j, e) ==
  /\ journal[j] \in Booked
  /\ settles[j] = None
  /\ lines[j].payable \in 1 .. (Amount[e] - Settled(e))
  /\ lines[j].expense >= 0

(* The evidence settlePayable asks for: a posted, unused journal that      *)
(* debits the payable account by no more than what is outstanding and      *)
(* credits at least as much to asset accounts.                             *)
Pays(j, e) ==
  /\ journal[j] = "POSTED"
  /\ settles[j] = None
  /\ lines[j].payable \in 1 .. (Amount[e] - Settled(e))
  /\ lines[j].expense >= 0

(* Mutant: every settlement closes the payable.                            *)
PayableAfterAny(e, paid) == [payable EXCEPT ![e] = "PAID"]

PayableAfter(e, paid) ==
  [payable EXCEPT ![e] = IF Settled(e) + paid = Amount[e] THEN "PAID" ELSE "PARTIALLY_PAID"]

EndSettle(r, j) ==
  /\ at[r] = "settling"
  /\ ~JournalLocked(j)
  /\ IF Pays(j, on[r])
       THEN /\ settles' = [settles EXCEPT ![j] = on[r]]
            /\ payable' = PayableAfter(on[r], lines[j].payable)
       ELSE UNCHANGED <<settles, payable>>
  /\ End(r)
  /\ UNCHANGED <<ledger, expense, booked, charge>>
-----------------------------------------------------------------------------
(* issue of receivables.service.ts, from rule to receivable: its journal   *)
(* is inserted with status POSTED.                                         *)
Issue(c, j, p) ==
  /\ charge[c] # "issued" /\ journal[j] = "NONE"
  /\ period[p] = "OPEN" /\ ~PeriodBusy(p)
  /\ IF MayInsert(j, "POSTED", c)
       THEN /\ Write(j, "POSTED", p, [payable |-> 0, expense |-> 0], c)
            /\ charge' = [charge EXCEPT ![c] = "issued"]
       ELSE /\ charge' = [charge EXCEPT ![c] = "refused"]
            /\ UNCHANGED entries
  /\ UNCHANGED <<period, subledger, calls>>

(* A transaction is lost, or refused by a check that is not modelled.      *)
Abort(r) ==
  /\ at[r] # "idle"
  /\ End(r)
  /\ UNCHANGED <<ledger, subledger, charge>>

(* Calls whose last step must wait for a lock, wherever the accountant     *)
(* dates a reversal and whichever journal is named to settle a payable.    *)
Waits(r) ==
  \/ at[r] = "posting" /\ PeriodBusy(periodOf[on[r]])
  \/ at[r] = "reversing" /\ \E p \in Periods : PeriodBusy(p)
  \/ at[r] = "closing" /\ CloseWaits(r)
  \/ at[r] = "expensing" /\ PeriodBusy(DateOf[on[r]])
  \/ at[r] = "settling" /\ \E j \in Journals : JournalLocked(j)

(* closePeriod holds the period and wants the drafts in it; postJournal    *)
(* holds a draft and wants its period.  PostgreSQL aborts one of the two.  *)
Deadlocked(r) ==
  \E v \in Requests, j \in Journals :
    /\ journal[j] = "DRAFT"
    /\ \/ Holds(r, {"posting"}, j) /\ Holds(v, {"closing"}, periodOf[j])
       \/ Holds(v, {"posting"}, j) /\ Holds(r, {"closing"}, periodOf[j])

Victim(r) == Deadlocked(r) /\ Abort(r)

Begin(r) ==
  \/ \E p \in Periods : StartDraft(r, p) \/ StartClose(r, p)
  \/ \E j \in Journals : StartPost(r, j) \/ StartReverse(r, j)
  \/ \E e \in Expenses : StartExpense(r, e) \/ StartSettle(r, e)

Commit(r) ==
  \/ EndPost(r) \/ EndClose(r)
  \/ \E j \in Journals :
       \/ \E l \in Entries, src \in Nameable : EndDraft(r, j, l, src)
       \/ \E p \in Periods : EndReverse(r, j, p)
       \/ EndExpense(r, j) \/ EndSettle(r, j)

Next ==
  \/ \E e \in Expenses : CreateExpense(e) \/ ApproveExpense(e)
  \/ \E c \in Charges, j \in Journals, p \in Periods : Issue(c, j, p)
  \/ \E r \in Requests : Begin(r) \/ Commit(r) \/ Abort(r)

Spec == Init /\ [][Next]_vars
-----------------------------------------------------------------------------
Sources == Journals \cup Expenses \cup Charges \cup {None}

(* Rows and control points keep their shape, and every journal belongs to  *)
(* a period.                                                               *)
TypeOK ==
  /\ period \in [Periods -> {"OPEN", "CLOSED"}]
  /\ journal \in [Journals -> {"NONE", "DRAFT", "POSTED", "REVERSED"}]
  /\ periodOf \in [Journals -> Periods \cup {None}]
  /\ \A j \in Journals : journal[j] # "NONE" => periodOf[j] \in Periods
  /\ lines \in [Journals -> Lines]
  /\ source \in [Journals -> Sources]
  /\ mirrors \in [Journals -> Journals \cup {None}]
  /\ expense \in [Expenses -> {"NONE", "DRAFT", "APPROVED", "POSTED"}]
  /\ booked \in [Expenses -> Journals \cup {None}]
  /\ payable \in [Expenses -> {"NONE", "OPEN", "PARTIALLY_PAID", "PAID"}]
  /\ settles \in [Journals -> Expenses \cup {None}]
  /\ charge \in [Charges -> {"none", "issued", "refused"}]
  /\ at \in [Requests -> {"idle", "drafting", "posting", "reversing", "closing",
                          "expensing", "settling"}]
  /\ on \in [Requests -> Periods \cup Journals \cup Expenses \cup {None}]

(* A closed period holds no draft, however createDraft, postJournal and    *)
(* closePeriod interleave: what is in its books is final.                  *)
NoDraftInClosedPeriod ==
  \A j \in Journals : journal[j] = "DRAFT" => period[periodOf[j]] = "OPEN"

(* Nothing is booked into a closed period and no period is opened again:   *)
(* its reports never change.                                               *)
ClosedBooksFrozen ==
  [][\A p \in Periods : period[p] = "CLOSED" =>
       /\ period'[p] = "CLOSED"
       /\ \A j \in Journals :
            journal'[j] \in Booked /\ periodOf'[j] = p =>
              journal[j] \in Booked /\ periodOf[j] = p]_vars

IsReversal(k, j) == journal[k] \in Booked /\ mirrors[k] = j

(* A journal is REVERSED exactly when one booked journal mirrors it, and   *)
(* never two: the pair adds nothing to any account.                        *)
ReversedByOne ==
  \A j \in Journals :
    /\ journal[j] = "REVERSED" <=> \E k \in Journals : IsReversal(k, j)
    /\ \A k, m \in Journals : IsReversal(k, j) /\ IsReversal(m, j) => k = m
    /\ \A k \in Journals : IsReversal(k, j) => lines[k] = Negated(lines[j])

(* An expense is POSTED exactly when it is linked to a booked journal that *)
(* debits its amount, and no other journal is booked for it: neither a     *)
(* second posting nor one made by hand.                                    *)
ExpenseBookedOnce ==
  \A e \in Expenses :
    /\ expense[e] = "POSTED" <=> booked[e] # None
    /\ booked[e] # None => /\ journal[booked[e]] \in Booked
                           /\ lines[booked[e]] = ExpenseLines(e)
                           /\ \A j \in Journals : source[j] = e <=> j = booked[e]

(* A payable is PAID exactly when its settlements add up to its amount,    *)
(* and is never settled beyond it.                                         *)
PaidIffSettled ==
  \A e \in Expenses :
    /\ Settled(e) <= Amount[e]
    /\ payable[e] = "PAID" <=> Settled(e) = Amount[e]
    /\ payable[e] = "PARTIALLY_PAID" <=> Settled(e) \in 1 .. (Amount[e] - 1)

(* Calls that lock a journal and its period in opposite orders never leave *)
(* everyone waiting: the one cycle they can form is a close and a posting  *)
(* of one of its drafts, of which PostgreSQL aborts one (closePeriod).     *)
SomeCallCanEnd ==
  (\E r \in Requests : at[r] # "idle") =>
    \E r \in Requests : at[r] # "idle" /\ (~Waits(r) \/ Deadlocked(r))
-----------------------------------------------------------------------------
(* The books are the journals that were ever posted; drafts, statuses,     *)
(* sources, locks and refused calls are behind them.                       *)
OpenPeriods == {p \in Periods : period[p] = "OPEN"}
Book == [j \in {k \in Journals : journal[k] \in Booked} |->
  [period |-> periodOf[j], lines |-> lines[j], cancels |-> mirrors[j]]]
Owed == {e \in Expenses : payable[e] # "NONE"}
Paid == [e \in Expenses |-> Settled(e)]
Used == {j \in Journals : settles[j] # None}

Books == INSTANCE SocietyBooks
  WITH open <- OpenPeriods, book <- Book, owed <- Owed, entryOf <- booked,
       paid <- Paid, used <- Used

(* Whatever the calls of this program do between each other's locks, the   *)
(* books see one indivisible operation of an append-only ledger, or        *)
(* nothing: entries are never changed, dropped or dated back, an entry is  *)
(* cancelled once, and only entries that stand pay, each once.             *)
ImplementsBooks == Books!Spec
-----------------------------------------------------------------------------
(* What documents say and the code does not do.                            *)

Net(status) == MapThenSumSet(LAMBDA j : lines[j].expense, {j \in Journals : journal[j] \in status})

(* budgetVsActual and fundUtilization sum POSTED journals only, the        *)
(* financial statements POSTED and REVERSED ones.                          *)
BudgetActual == Net({"POSTED"})
LedgerActual == Net(Booked)

(* V2-PAYABLES-BUDGETS-FOUNDATION.md:9: "Ledger remains the accounting     *)
(* truth"; the budget report shows the expense account of the ledger.      *)
BudgetShowsLedger == BudgetActual = LedgerActual

(* V2-RECEIVABLES-CHARGE-ENGINE.md:16: issuing a charge into an open       *)
(* period books a journal.                                                 *)
ChargesIssued == \A c \in Charges : charge[c] # "refused"
=============================================================================
