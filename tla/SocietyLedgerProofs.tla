-------------------------- MODULE SocietyLedgerProofs --------------------------
(* What is in the books is final, for any number of periods, journals,     *)
(* expenses and concurrent calls.  The properties alone are not inductive: *)
(* a call decides on what it read under its first lock, so the invariant   *)
(* says what each control point still knows, and which locks exclude which.*)
EXTENDS SocietyLedger, TLAPS, FiniteSetTheorems

(* Only rows that exist name a source; a mirror is written booked, with    *)
(* its original as the source, and sources are unique.                     *)
Rows ==
  \A j \in Journals :
    /\ source[j] # None => journal[j] # "NONE"
    /\ mirrors[j] # None => journal[j] \in Booked /\ source[j] = mirrors[j]

(* What the row locked by a call's first step still says.                  *)
Knows ==
  \A r \in Requests :
    /\ at[r] \in {"drafting", "closing"} => on[r] \in Periods /\ period[on[r]] = "OPEN"
    /\ at[r] = "posting" => on[r] \in Journals /\ journal[on[r]] = "DRAFT"
    /\ at[r] = "reversing" => on[r] \in Journals /\ journal[on[r]] = "POSTED"
    /\ at[r] = "expensing" => on[r] \in Expenses /\ expense[on[r]] = "APPROVED"
    /\ at[r] = "settling" => on[r] \in Expenses

(* Two calls never hold locks that exclude each other.                     *)
Exclusion ==
  \A r, s \in Requests : r # s /\ on[r] = on[s] =>
    /\ ~(at[r] \in {"posting", "reversing"} /\ at[s] \in {"posting", "reversing"})
    /\ ~(at[r] \in {"expensing", "settling"} /\ at[s] \in {"expensing", "settling"})
    /\ ~(at[r] = "closing" /\ at[s] \in {"closing", "drafting"})

IInv ==
  /\ TypeOK /\ Rows /\ Knows /\ Exclusion
  /\ NoDraftInClosedPeriod /\ ReversedByOne /\ ExpenseBookedOnce

LEMMA InitInv == Init => IInv
<1> SUFFICES ASSUME Init PROVE IInv
  OBVIOUS
<1> USE LedgerAssumption DEF Init
<1>1. TypeOK
  BY DEF TypeOK, Lines, Sources
<1>2. Rows /\ Knows /\ Exclusion
  BY DEF Rows, Knows, Exclusion
<1>3. NoDraftInClosedPeriod /\ ReversedByOne /\ ExpenseBookedOnce
  BY DEF NoDraftInClosedPeriod, ReversedByOne, IsReversal, ExpenseBookedOnce, Booked
<1> QED
  BY <1>1, <1>2, <1>3 DEF IInv

(* The first step of every call takes a free row and changes nothing else. *)
LEMMA BeginKeeps ==
  ASSUME IInv, NEW r \in Requests, Begin(r)
  PROVE IInv'
<1> USE LedgerAssumption
<1>1. UNCHANGED <<period, journal, periodOf, lines, source, mirrors, expense, booked, payable,
                  settles, charge>>
  BY DEF Begin, Start, StartDraft, StartClose, StartPost, StartReverse, StartExpense, StartSettle,
     ledger, entries, subledger
<1>2. TypeOK'
  BY <1>1 DEF Begin, Start, StartDraft, StartClose, StartPost, StartReverse, StartExpense,
     StartSettle, IInv, TypeOK
<1>3. Knows' /\ Exclusion'
  <2>1. CASE \E p \in Periods : StartDraft(r, p) \/ StartClose(r, p)
    BY <1>1, <2>1 DEF Start, StartDraft, StartClose, PeriodBusy, PeriodHeld, PeriodShared, Holds,
       IInv, TypeOK, Knows, Exclusion
  <2>2. CASE \E j \in Journals : StartPost(r, j) \/ StartReverse(r, j)
    BY <1>1, <2>2 DEF Start, StartPost, StartReverse, JournalLocked, Holds,
       IInv, TypeOK, Knows, Exclusion
  <2>3. CASE \E e \in Expenses : StartExpense(r, e) \/ StartSettle(r, e)
    BY <1>1, <2>3 DEF Start, StartExpense, StartSettle, PayableLocked, Holds,
       IInv, TypeOK, Knows, Exclusion
  <2> QED
    BY <2>1, <2>2, <2>3 DEF Begin
<1>4. Rows' /\ NoDraftInClosedPeriod' /\ ReversedByOne' /\ ExpenseBookedOnce'
  BY <1>1 DEF IInv, Rows, NoDraftInClosedPeriod, ReversedByOne, IsReversal, ExpenseBookedOnce
<1> QED
  BY <1>2, <1>3, <1>4 DEF IInv

(* A call that ends without writing only gives its lock back.              *)
LEMMA EndKeeps ==
  ASSUME IInv, NEW r \in Requests, End(r),
         UNCHANGED <<ledger, expense, booked, charge>>,
         payable' \in [Expenses -> {"NONE", "OPEN", "PARTIALLY_PAID", "PAID"}],
         settles' \in [Journals -> Expenses \cup {None}]
  PROVE IInv'
<1> USE LedgerAssumption
<1>1. TypeOK' /\ Rows' /\ Knows' /\ Exclusion'
  BY DEF End, IInv, TypeOK, Rows, Knows, Exclusion, ledger, entries
<1>2. NoDraftInClosedPeriod' /\ ReversedByOne' /\ ExpenseBookedOnce'
  BY DEF IInv, NoDraftInClosedPeriod, ReversedByOne, IsReversal, ExpenseBookedOnce, ledger, entries
<1> QED
  BY <1>1, <1>2 DEF IInv

(* A draft is written while its period is shared, so nobody closes it.     *)
LEMMA EndDraftKeeps ==
  ASSUME IInv, NEW r \in Requests, NEW j \in Journals, NEW l \in Entries, NEW src \in Nameable,
         EndDraft(r, j, l, src)
  PROVE IInv'
<1> USE LedgerAssumption
<1>1. CASE ~MayInsert(j, "DRAFT", src)
  BY <1>1, EndKeeps DEF EndDraft, IInv, TypeOK, ledger, entries, subledger
<1>2. CASE MayInsert(j, "DRAFT", src)
  <2>1. /\ journal[j] = "NONE" /\ on[r] \in Periods /\ period[on[r]] = "OPEN"
        /\ source[j] = None /\ mirrors[j] = None
        /\ src # None => \A i \in Journals : source[i] # src
        /\ l \in Lines /\ src \in Sources
    BY <1>2 DEF EndDraft, MayInsert, IInv, TypeOK, Knows, Rows, Booked, Nameable, Sources
  <2> USE <1>2, <2>1 DEF EndDraft, Write, End, IInv, subledger
  <2>2. TypeOK'
    BY DEF TypeOK, Sources
  <2>3. Rows' /\ Knows' /\ Exclusion'
    BY DEF TypeOK, Rows, Knows, Exclusion, Booked
  <2>4. NoDraftInClosedPeriod'
    BY DEF TypeOK, NoDraftInClosedPeriod
  <2>5. ReversedByOne'
    <3>1. \A k, i \in Journals : IsReversal(k, i)' <=> IsReversal(k, i)
      BY DEF TypeOK, IsReversal, Booked
    <3>2. \A i \in Journals : ~IsReversal(j, i)
      BY DEF IsReversal, Booked
    <3>5. \A i \in Journals : ~IsReversal(i, j)
      BY DEF ReversedByOne
    <3>3. \A i \in Journals : i # j => lines'[i] = lines[i] /\ journal'[i] = journal[i]
      BY DEF TypeOK
    <3>4. \A i \in Journals : i # j => Negated(lines[i])' = Negated(lines[i])
      BY <3>3 DEF Negated
    <3> QED
      BY <3>1, <3>2, <3>3, <3>4, <3>5 DEF ReversedByOne, TypeOK
  <2>6. ExpenseBookedOnce'
    BY DEF TypeOK, ExpenseBookedOnce, Booked
  <2> QED
    BY <2>2, <2>3, <2>4, <2>5, <2>6
<1> QED
  BY <1>1, <1>2

LEMMA EndPostKeeps ==
  ASSUME IInv, NEW r \in Requests, EndPost(r)
  PROVE IInv'
<1> USE LedgerAssumption DEF EndPost, End, IInv, subledger
<1>1. on[r] \in Journals /\ journal[on[r]] = "DRAFT" /\ mirrors[on[r]] = None
  BY DEF Knows, Rows, Booked
<1>2. TypeOK'
  BY <1>1 DEF TypeOK
<1>3. Rows' /\ Knows' /\ Exclusion'
  BY <1>1 DEF TypeOK, Rows, Knows, Exclusion, Booked
<1>4. NoDraftInClosedPeriod'
  BY <1>1 DEF TypeOK, NoDraftInClosedPeriod
<1>5. ReversedByOne'
  <2>1. \A k, j \in Journals : IsReversal(k, j)' <=> IsReversal(k, j)
    BY <1>1 DEF TypeOK, IsReversal, Booked
  <2>2. \A j \in Journals : journal'[j] = "REVERSED" <=> journal[j] = "REVERSED"
    BY <1>1 DEF TypeOK
  <2> QED
    BY <2>1, <2>2 DEF ReversedByOne
<1>6. ExpenseBookedOnce'
  BY <1>1 DEF TypeOK, ExpenseBookedOnce, Booked
<1> QED
  BY <1>2, <1>3, <1>4, <1>5, <1>6

(* The unique index on the source lets one reversal of a journal in, and   *)
(* its lock keeps the journal POSTED until then.                           *)
LEMMA EndReverseKeeps ==
  ASSUME IInv, NEW r \in Requests, NEW k \in Journals, NEW p \in Periods, EndReverse(r, k, p)
  PROVE IInv'
<1> USE LedgerAssumption
<1>1. CASE ~Reversible(on[r], k, p)
  BY <1>1, EndKeeps DEF EndReverse, IInv, TypeOK, ledger, entries, subledger
<1>2. CASE Reversible(on[r], k, p)
  <2>1. /\ at[r] = "reversing" /\ on[r] \in Journals /\ journal[on[r]] = "POSTED"
        /\ journal[k] = "NONE" /\ k # on[r] /\ source[k] = None /\ mirrors[k] = None
        /\ period[p] = "OPEN"
        /\ \A i \in Journals : source[i] # on[r]
    BY <1>2 DEF EndReverse, Reversible, MayInsert, IInv, Knows, Rows, Booked
  <2>2. /\ journal' = [journal EXCEPT ![k] = "POSTED", ![on[r]] = "REVERSED"]
        /\ periodOf' = [periodOf EXCEPT ![k] = p]
        /\ lines' = [lines EXCEPT ![k] = Negated(lines[on[r]])]
        /\ source' = [source EXCEPT ![k] = on[r]]
        /\ mirrors' = [mirrors EXCEPT ![k] = on[r]]
        /\ End(r)
        /\ UNCHANGED <<period, subledger, charge>>
    BY <1>2 DEF EndReverse, Mirrored
  <2> USE <2>1, <2>2 DEF End, IInv, subledger
  <2>3. TypeOK'
    <3>1. Negated(lines[on[r]]) \in Lines
      BY DEF TypeOK, Lines, Negated
    <3> QED
      BY <3>1 DEF TypeOK, Sources
  <2>4. Rows'
    BY DEF TypeOK, Rows, Booked
  <2>5. Knows' /\ Exclusion'
    BY DEF TypeOK, Knows, Exclusion
  <2>6. NoDraftInClosedPeriod'
    BY DEF TypeOK, NoDraftInClosedPeriod
  <2>7. ReversedByOne'
    <3>1. \A i, j \in Journals :
            IsReversal(i, j)' <=> IsReversal(i, j) \/ (i = k /\ j = on[r])
      BY DEF TypeOK, IsReversal, Booked
    <3>2. \A j \in Journals : journal'[j] = "REVERSED" <=> journal[j] = "REVERSED" \/ j = on[r]
      BY DEF TypeOK
    <3>3. \A i \in Journals : ~IsReversal(i, on[r]) /\ ~IsReversal(i, k) /\ ~IsReversal(k, i)
      <4>1. \A i \in Journals : ~IsReversal(i, on[r]) /\ ~IsReversal(k, i)
        BY DEF TypeOK, Rows, IsReversal, Booked
      <4>2. \A i \in Journals : ~IsReversal(i, k)
        BY DEF Rows, IsReversal, ReversedByOne, Booked
      <4> QED
        BY <4>1, <4>2
    <3>4. lines'[k] = Negated(lines[on[r]]) /\ \A i \in Journals : i # k => lines'[i] = lines[i]
      BY DEF TypeOK
    <3>5. \A j \in Journals : journal'[j] = "REVERSED" <=> \E i \in Journals : IsReversal(i, j)'
      BY <3>1, <3>2 DEF ReversedByOne
    <3>6. \A i, m, j \in Journals : IsReversal(i, j)' /\ IsReversal(m, j)' => i = m
      BY <3>1, <3>3 DEF ReversedByOne
    <3>7. \A i, j \in Journals : IsReversal(i, j)' => lines'[i] = Negated(lines'[j])
      BY <3>1, <3>3, <3>4 DEF ReversedByOne
    <3>8. \A j \in Journals : Negated(lines[j])' = Negated(lines'[j])
      BY DEF Negated
    <3> QED
      BY <3>5, <3>6, <3>7, <3>8 DEF ReversedByOne
  <2>8. ExpenseBookedOnce'
    BY DEF TypeOK, ExpenseBookedOnce, Booked
  <2> QED
    BY <2>3, <2>4, <2>5, <2>6, <2>7, <2>8
<1> QED
  BY <1>1, <1>2

(* The period is closed under a lock no draft can be written through, and  *)
(* only when it holds none.                                                *)
LEMMA EndCloseKeeps ==
  ASSUME IInv, NEW r \in Requests, EndClose(r)
  PROVE IInv'
<1> USE LedgerAssumption DEF EndClose, End, IInv, entries, subledger
<1>1. on[r] \in Periods
  BY DEF Knows
<1>2. TypeOK'
  BY <1>1 DEF TypeOK
<1>3. Rows' /\ Knows' /\ Exclusion'
  BY <1>1 DEF TypeOK, Rows, Knows, Exclusion
<1>4. NoDraftInClosedPeriod'
  BY <1>1 DEF TypeOK, Rows, NoDraftInClosedPeriod, DraftsOf
<1>5. ReversedByOne' /\ ExpenseBookedOnce'
  BY DEF ReversedByOne, IsReversal, ExpenseBookedOnce
<1> QED
  BY <1>2, <1>3, <1>4, <1>5

LEMMA EndExpenseKeeps ==
  ASSUME IInv, NEW r \in Requests, NEW j \in Journals, EndExpense(r, j)
  PROVE IInv'
<1> USE LedgerAssumption
<1> DEFINE e == on[r]
           accepted == period[DateOf[e]] = "OPEN" /\ MayInsert(j, "DRAFT", e)
<1>1. e \in Expenses /\ expense[e] = "APPROVED" /\ booked[e] = None /\ DateOf[e] \in Periods
  BY DEF EndExpense, IInv, Knows, ExpenseBookedOnce
<1>2. CASE ~accepted
  BY <1>1, <1>2, EndKeeps DEF EndExpense, ExpenseAfter, IInv, TypeOK, ledger, entries
<1>3. CASE accepted
  <2>1. /\ journal[j] = "NONE" /\ source[j] = None /\ mirrors[j] = None
        /\ \A i \in Journals : source[i] # e
    BY <1>1, <1>3 DEF MayInsert, IInv, Rows, Booked
  <2>2. /\ Write(j, "POSTED", DateOf[e], ExpenseLines(e), e)
        /\ booked' = [booked EXCEPT ![e] = j]
        /\ expense' = [expense EXCEPT ![e] = "POSTED"]
        /\ End(r)
        /\ UNCHANGED <<period, payable, settles, charge>>
    BY <1>3 DEF EndExpense, ExpenseAfter
  <2>3. ExpenseLines(e) \in Lines
    BY <1>1 DEF ExpenseLines, Lines
  <2>4. e \notin Journals /\ e # None /\ j # None
    BY <1>1
  <2> HIDE DEF e, accepted
  <2> USE <1>1, <2>1, <2>2, <2>3, <2>4 DEF Write, IInv
  <2>5. TypeOK'
    BY DEF TypeOK, Sources, End
  <2>6. Rows'
    BY DEF TypeOK, Rows, Booked
  <2>7. Knows' /\ Exclusion'
    BY DEF TypeOK, Knows, Exclusion, End, EndExpense, e
  <2>8. NoDraftInClosedPeriod'
    BY DEF TypeOK, NoDraftInClosedPeriod
  <2>9. ReversedByOne'
    BY DEF TypeOK, Rows, ReversedByOne, IsReversal, Booked
  <2>10. ExpenseBookedOnce'
    BY DEF TypeOK, ExpenseBookedOnce, Booked
  <2> QED
    BY <2>5, <2>6, <2>7, <2>8, <2>9, <2>10
<1> QED
  BY <1>2, <1>3

LEMMA OthersKeep ==
  ASSUME IInv,
         \/ \E e \in Expenses : CreateExpense(e) \/ ApproveExpense(e)
         \/ \E c \in Charges, j \in Journals, p \in Periods : Issue(c, j, p)
         \/ UNCHANGED vars
  PROVE IInv'
<1> USE LedgerAssumption DEF IInv
<1>1. ASSUME NEW e \in Expenses, CreateExpense(e) \/ ApproveExpense(e) PROVE IInv'
  <2> USE <1>1 DEF CreateExpense, ApproveExpense, ledger, entries, calls
  <2>1. TypeOK' /\ Rows' /\ Exclusion'
    BY DEF TypeOK, Rows, Exclusion
  <2>2. Knows' /\ NoDraftInClosedPeriod' /\ ReversedByOne'
    BY DEF TypeOK, Knows, NoDraftInClosedPeriod, ReversedByOne, IsReversal
  <2>3. ExpenseBookedOnce'
    BY DEF TypeOK, ExpenseBookedOnce
  <2> QED
    BY <2>1, <2>2, <2>3
<1>2. ASSUME NEW c \in Charges, NEW j \in Journals, NEW p \in Periods, Issue(c, j, p) PROVE IInv'
  <2>1. ~MayInsert(j, "POSTED", c)
    BY DEF MayInsert
  <2> USE <1>2, <2>1 DEF Issue, entries, subledger, calls
  <2>2. TypeOK' /\ Rows' /\ Knows' /\ Exclusion'
    BY DEF TypeOK, Rows, Knows, Exclusion
  <2>3. NoDraftInClosedPeriod' /\ ReversedByOne' /\ ExpenseBookedOnce'
    BY DEF NoDraftInClosedPeriod, ReversedByOne, IsReversal, ExpenseBookedOnce
  <2> QED
    BY <2>2, <2>3
<1>3. CASE UNCHANGED vars
  BY <1>3 DEF vars, ledger, entries, subledger, calls, TypeOK, Rows, Knows, Exclusion,
     NoDraftInClosedPeriod, ReversedByOne, IsReversal, ExpenseBookedOnce
<1> QED
  BY <1>1, <1>2, <1>3

LEMMA NextKeeps == IInv /\ [Next]_vars => IInv'
<1> SUFFICES ASSUME IInv, [Next]_vars PROVE IInv'
  OBVIOUS
<1>1. ASSUME NEW r \in Requests, Commit(r) PROVE IInv'
  <2>1. ASSUME NEW j \in Journals, EndSettle(r, j) PROVE IInv'
    <3>1. on[r] \in Expenses
      BY <2>1 DEF EndSettle, IInv, Knows
    <3> QED
      BY <2>1, <3>1, EndKeeps DEF EndSettle, PayableAfter, IInv, TypeOK
  <2> QED
    BY <1>1, <2>1, EndDraftKeeps, EndPostKeeps, EndReverseKeeps, EndCloseKeeps, EndExpenseKeeps
       DEF Commit
<1>2. ASSUME NEW r \in Requests, Abort(r) PROVE IInv'
  BY <1>2, EndKeeps DEF Abort, IInv, TypeOK, subledger
<1> QED
  BY <1>1, <1>2, BeginKeeps, OthersKeep DEF Next

LEMMA Inductive == Spec => []IInv
  BY InitInv, NextKeeps, PTL DEF Spec

(* Rows and control points of the ledger keep their shape.                 *)
THEOREM LedgerTyped == Spec => []TypeOK
  BY Inductive, PTL DEF IInv

(* closePeriod and createDraft never leave a draft in a closed period.     *)
THEOREM ClosedHoldsNoDraft == Spec => []NoDraftInClosedPeriod
  BY Inductive, PTL DEF IInv

(* Every reversed journal has exactly one mirrored journal in the books.   *)
THEOREM ReversalUnique == Spec => []ReversedByOne
  BY Inductive, PTL DEF IInv

(* An expense is booked by one journal of its own amount.                  *)
THEOREM ExpenseUnique == Spec => []ExpenseBookedOnce
  BY Inductive, PTL DEF IInv

(* No step of any call books into a closed period or opens it again.       *)
THEOREM ClosedIsFinal == Spec => ClosedBooksFrozen
<1> DEFINE Frozen(p) ==
      period[p] = "CLOSED" =>
        /\ period'[p] = "CLOSED"
        /\ \A j \in Journals :
             journal'[j] \in Booked /\ periodOf'[j] = p => journal[j] \in Booked /\ periodOf[j] = p
<1>1. IInv /\ [Next]_vars => \A p \in Periods : Frozen(p)
  <2> SUFFICES ASSUME IInv, [Next]_vars, NEW p \in Periods PROVE Frozen(p)
    OBVIOUS
  <2> USE LedgerAssumption
  <2>1. ASSUME UNCHANGED <<period, journal, periodOf>> PROVE Frozen(p)
    BY <2>1
  <2>2. ASSUME NEW r \in Requests, Begin(r) \/ Abort(r) PROVE Frozen(p)
    BY <2>2, <2>1 DEF Begin, Abort, Start, StartDraft, StartClose, StartPost, StartReverse,
       StartExpense, StartSettle, ledger, entries
  <2>3. ASSUME NEW r \in Requests, EndPost(r) PROVE Frozen(p)
    BY <2>3 DEF EndPost, IInv, TypeOK, Knows, Booked
  <2>4. ASSUME NEW r \in Requests, EndClose(r) PROVE Frozen(p)
    BY <2>4 DEF EndClose, entries, IInv, TypeOK, Knows
  <2>5. ASSUME NEW r \in Requests, NEW j \in Journals, NEW l \in Entries,
               NEW src \in Nameable, EndDraft(r, j, l, src)
        PROVE Frozen(p)
    BY <2>5 DEF EndDraft, Write, entries, IInv, TypeOK, Booked
  <2>6. ASSUME NEW r \in Requests, NEW k \in Journals, NEW q \in Periods, EndReverse(r, k, q)
        PROVE Frozen(p)
    BY <2>6 DEF EndReverse, Reversible, Mirrored, entries, IInv, TypeOK, Knows, Booked
  <2>7. ASSUME NEW r \in Requests, NEW j \in Journals, EndExpense(r, j) PROVE Frozen(p)
    BY <2>7 DEF EndExpense, Write, entries, IInv, TypeOK, Knows, Booked
  <2>8. ASSUME NEW r \in Requests, NEW j \in Journals, EndSettle(r, j) PROVE Frozen(p)
    BY <2>8, <2>1 DEF EndSettle, ledger, entries
  <2>9. ASSUME NEW e \in Expenses, CreateExpense(e) \/ ApproveExpense(e) PROVE Frozen(p)
    BY <2>9, <2>1 DEF CreateExpense, ApproveExpense, ledger, entries
  <2>10. ASSUME NEW c \in Charges, NEW j \in Journals, NEW q \in Periods, Issue(c, j, q)
         PROVE Frozen(p)
    BY <2>10, <2>1 DEF Issue, MayInsert, entries
  <2>11. CASE UNCHANGED vars
    BY <2>11, <2>1 DEF vars, ledger, entries
  <2> QED
    BY <2>2, <2>3, <2>4, <2>5, <2>6, <2>7, <2>8, <2>9, <2>10, <2>11 DEF Next, Commit
<1> QED
  BY <1>1, Inductive, PTL DEF Spec, ClosedBooksFrozen
-----------------------------------------------------------------------------
(* Payables.  The sum of the settlements is a number because they are      *)
(* finitely many, and does not move under the payable: a settled journal   *)
(* is booked, and the lines of a row are written once.                     *)
Evidence ==
  \A j \in Journals : settles[j] # None => journal[j] # "NONE"

Owing ==
  /\ \A e \in Expenses : IsFiniteSet(Paise(e))
  /\ \A e \in Expenses : expense[e] \in {"NONE", "DRAFT"} <=> payable[e] = "NONE"
  /\ \A r \in Requests : at[r] = "settling" => payable[on[r]] \in {"OPEN", "PARTIALLY_PAID"}

MInv == Evidence /\ Owing /\ PaidIffSettled

(* What it takes for a step to leave every sum alone.                      *)
LEMMA SamePaise ==
  ASSUME UNCHANGED settles,
         \A j \in Journals : settles[j] # None => lines'[j] = lines[j]
  PROVE \A e \in Expenses : Paise(e)' = Paise(e)
<1> SUFFICES ASSUME NEW e \in Expenses PROVE Paise(e)' = Paise(e)
  OBVIOUS
<1>1. e # None
  BY LedgerAssumption
<1>2. \A x : x \in Paise(e)' <=> x \in Paise(e)
  BY <1>1 DEF Paise
<1> QED
  BY <1>2

LEMMA PaiseOfOne ==
  ASSUME NEW j, NEW n \in Nat
  PROVE IsFiniteSet({j} \X (1 .. n)) /\ Cardinality({j} \X (1 .. n)) = n
<1>1. IsFiniteSet({j}) /\ Cardinality({j}) = 1
  BY FS_Singleton
<1>2. IsFiniteSet(1 .. n) /\ Cardinality(1 .. n) = n
  BY FS_Interval
<1> DEFINE S == {j}  T == 1 .. n
<1>3. IsFiniteSet(S \X T) /\ Cardinality(S \X T) = Cardinality(S) * Cardinality(T)
  <2> HIDE DEF S, T
  <2>1. IsFiniteSet(S) /\ IsFiniteSet(T)
    BY <1>1, <1>2 DEF S, T
  <2> QED
    BY <2>1, FS_Product
<1> QED
  BY <1>1, <1>2, <1>3

(* A settlement adds the paise of its journal, which settled nothing yet.  *)
LEMMA MorePaise ==
  ASSUME IInv, UNCHANGED lines, NEW e \in Expenses, NEW j \in Journals, settles[j] = None,
         settles' = [settles EXCEPT ![j] = e], lines[j].payable \in Nat,
         \A f \in Expenses : IsFiniteSet(Paise(f))
  PROVE /\ IsFiniteSet(Paise(e)') /\ Settled(e)' = Settled(e) + lines[j].payable
        /\ \A f \in Expenses : f # e => Paise(f)' = Paise(f)
<1> DEFINE New == {j} \X (1 .. lines[j].payable)
<1>7. settles'[j] = e /\ \A k \in Journals : k # j => settles'[k] = settles[k]
  BY DEF IInv, TypeOK
<1>8. e # None /\ lines' = lines
  BY LedgerAssumption
<1>1. Paise(e)' = Paise(e) \cup New
  <2>1. {k \in Journals : settles'[k] = e} = {k \in Journals : settles[k] = e} \cup {j}
    BY <1>7, <1>8
  <2> DEFINE Of(K) == UNION {{k} \X (1 .. lines[k].payable) : k \in K}
  <2>2. ASSUME NEW K PROVE Of(K \cup {j}) = Of(K) \cup New
    OBVIOUS
  <2>3. Paise(e) = Of({k \in Journals : settles[k] = e})
    BY DEF Paise
  <2>4. Paise(e)' = Of({k \in Journals : settles'[k] = e})
    BY <1>8 DEF Paise
  <2> HIDE DEF Of, New
  <2> QED
    BY <2>1, <2>2, <2>3, <2>4
<1>2. Paise(e) \cap New = {}
  <2> SUFFICES ASSUME NEW x \in Paise(e), x \in New PROVE FALSE
    OBVIOUS
  <2>1. PICK k \in Journals : settles[k] = e /\ x \in {k} \X (1 .. lines[k].payable)
    BY DEF Paise
  <2>2. x[1] = k /\ x[1] = j
    BY <2>1
  <2> QED
    BY <1>8, <2>1, <2>2
<1>3. IsFiniteSet(New) /\ Cardinality(New) = lines[j].payable
  BY PaiseOfOne
<1>4. IsFiniteSet(Paise(e)) /\ Cardinality(Paise(e)) \in Nat
  BY FS_CardinalityType
<1>5. ASSUME NEW f \in Expenses, f # e PROVE Paise(f)' = Paise(f)
  <2>1. {k \in Journals : settles'[k] = f} = {k \in Journals : settles[k] = f}
    BY <1>5, <1>7, LedgerAssumption
  <2> QED
    BY <1>8, <2>1 DEF Paise
<1>6. /\ IsFiniteSet(Paise(e) \cup New)
      /\ Cardinality(Paise(e) \cup New) = Cardinality(Paise(e)) + Cardinality(New) - Cardinality({})
  <2> HIDE DEF New
  <2>1. /\ IsFiniteSet(Paise(e) \cup New)
        /\ Cardinality(Paise(e) \cup New)
             = Cardinality(Paise(e)) + Cardinality(New) - Cardinality(Paise(e) \cap New)
    BY <1>3, <1>4, FS_Union
  <2> QED
    BY <1>2, <2>1
<1> HIDE DEF New
<1> QED
  BY <1>1, <1>3, <1>4, <1>5, <1>6, FS_EmptySet DEF Settled

LEMMA InitMoney == Init => MInv
<1> SUFFICES ASSUME Init PROVE MInv
  OBVIOUS
<1> USE LedgerAssumption
<1>1. \A e \in Expenses : Paise(e) = {}
  BY DEF Init, Paise
<1>2. \A e \in Expenses : IsFiniteSet(Paise(e)) /\ Settled(e) = 0
  BY <1>1, FS_EmptySet DEF Settled
<1> QED
  BY <1>2 DEF Init, MInv, Evidence, Owing, PaidIffSettled

(* Steps that settle nothing.                                              *)
LEMMA MoneyApart ==
  ASSUME IInv, MInv, UNCHANGED settles,
         \A j \in Journals : settles[j] # None => lines'[j] = lines[j] /\ journal'[j] # "NONE",
         \A e \in Expenses :
           \/ payable'[e] = payable[e] /\ expense[e] = expense'[e]
           \/ payable'[e] = payable[e] /\ expense[e] = "APPROVED" /\ expense'[e] = "POSTED"
           \/ payable'[e] = payable[e] /\ expense[e] = "NONE" /\ expense'[e] = "DRAFT"
           \/ payable[e] = "NONE" /\ payable'[e] = "OPEN" /\ expense'[e] = "APPROVED",
         \A r \in Requests : at'[r] = "settling" =>
           \/ at[r] = "settling" /\ on'[r] = on[r]
           \/ on'[r] \in Expenses /\ payable'[on'[r]] \in {"OPEN", "PARTIALLY_PAID"}
  PROVE MInv'
<1>1. \A e \in Expenses : Paise(e)' = Paise(e)
  BY SamePaise DEF MInv
<1>2. \A e \in Expenses : Settled(e)' = Settled(e)
  BY <1>1 DEF Settled
<1>3. \A e \in Expenses : Settled(e) \in Nat
  BY FS_CardinalityType DEF MInv, Owing, Settled
<1>4. Evidence'
  BY DEF MInv, Evidence
<1>5. Owing'
  BY <1>1 DEF MInv, Owing, IInv, Knows
<1>6. PaidIffSettled'
  BY <1>2, <1>3, LedgerAssumption DEF MInv, PaidIffSettled
<1> QED
  BY <1>4, <1>5, <1>6 DEF MInv

(* A settlement adds to one payable, which its call holds, no more than is *)
(* outstanding on it.                                                      *)
LEMMA SettleKeeps ==
  ASSUME IInv, MInv, NEW r \in Requests, NEW j \in Journals, EndSettle(r, j)
  PROVE MInv'
<1>1. PICK e \in Expenses : on[r] = e /\ payable[e] \in {"OPEN", "PARTIALLY_PAID"}
  BY DEF EndSettle, IInv, Knows, MInv, Owing
<1>2. \A s \in Requests : at'[s] = "settling" => at[s] = "settling" /\ on'[s] = on[s] /\ on[s] # e
  BY <1>1 DEF EndSettle, End, IInv, TypeOK, Exclusion
<1>3. CASE ~Pays(j, e)
  BY <1>1, <1>2, <1>3, MoneyApart DEF EndSettle, ledger, entries, MInv, Evidence
<1>4. CASE Pays(j, e)
  <2>1. /\ lines' = lines /\ journal' = journal /\ expense' = expense
        /\ settles[j] = None /\ journal[j] = "POSTED"
        /\ lines[j].payable \in 1 .. (Amount[e] - Settled(e))
        /\ settles' = [settles EXCEPT ![j] = e]
        /\ payable' = PayableAfter(e, lines[j].payable)
    BY <1>1, <1>4 DEF EndSettle, Pays, ledger, entries
  <2>2. \A f \in Expenses : IsFiniteSet(Paise(f)) /\ Settled(f) \in Nat /\ Amount[f] \in Nat \ {0}
    BY FS_CardinalityType, LedgerAssumption DEF MInv, Owing, Settled
  <2>3. lines[j].payable \in Nat \ {0} /\ Settled(e) + lines[j].payable <= Amount[e]
    BY <1>1, <2>1, <2>2
  <2>4. /\ IsFiniteSet(Paise(e)') /\ Settled(e)' = Settled(e) + lines[j].payable
        /\ \A f \in Expenses : f # e => Paise(f)' = Paise(f)
    BY <1>1, <2>1, <2>2, <2>3, MorePaise
  <2>5. \A f \in Expenses : f # e => Settled(f)' = Settled(f)
    BY <2>4 DEF Settled
  <2>6. /\ payable'[e] = IF Settled(e) + lines[j].payable = Amount[e] THEN "PAID" ELSE "PARTIALLY_PAID"
        /\ \A f \in Expenses : f # e => payable'[f] = payable[f]
    BY <1>1, <2>1 DEF PayableAfter, IInv, TypeOK
  <2>7. Evidence'
    BY <2>1 DEF MInv, Evidence, IInv, TypeOK
  <2>8. Owing'
    <3>1. \A f \in Expenses : IsFiniteSet(Paise(f)')
      BY <2>2, <2>4
    <3>2. \A f \in Expenses : expense'[f] \in {"NONE", "DRAFT"} <=> payable'[f] = "NONE"
      BY <1>1, <2>1, <2>6 DEF MInv, Owing
    <3>3. \A s \in Requests : at'[s] = "settling" => payable'[on'[s]] \in {"OPEN", "PARTIALLY_PAID"}
      BY <1>1, <1>2, <2>6 DEF MInv, Owing, IInv, Knows
    <3> QED
      BY <3>1, <3>2, <3>3 DEF Owing
  <2>9. PaidIffSettled'
    <3>1. ASSUME NEW f \in Expenses
          PROVE /\ Settled(f)' <= Amount[f]
                /\ payable'[f] = "PAID" <=> Settled(f)' = Amount[f]
                /\ payable'[f] = "PARTIALLY_PAID" <=> Settled(f)' \in 1 .. (Amount[f] - 1)
      <4>1. CASE f = e
        <5> DEFINE n == lines[j].payable  o == Settled(e)  a == Amount[e]
        <5>1. /\ n \in Nat \ {0} /\ o \in Nat /\ a \in Nat \ {0} /\ o + n <= a
              /\ Settled(f)' = o + n /\ Amount[f] = a
              /\ payable'[f] = IF o + n = a THEN "PAID" ELSE "PARTIALLY_PAID"
          BY <1>1, <2>2, <2>3, <2>4, <2>6, <4>1
        <5> HIDE DEF n, o, a
        <5> QED
          BY <5>1
      <4>2. CASE f # e
        BY <2>5, <2>6, <4>2 DEF MInv, PaidIffSettled
      <4> QED
        BY <4>1, <4>2
    <3> QED
      BY <3>1 DEF PaidIffSettled
  <2> QED
    BY <2>7, <2>8, <2>9 DEF MInv
<1> QED
  BY <1>3, <1>4

(* The lines of a row are written with it, so no settled one changes.      *)
LEMMA WriteApart ==
  ASSUME IInv, MInv, UNCHANGED <<payable, settles>>,
         \A j \in Journals :
           journal[j] # "NONE" => lines'[j] = lines[j] /\ journal'[j] # "NONE",
         \A e \in Expenses :
           expense'[e] = expense[e] \/ (expense[e] = "APPROVED" /\ expense'[e] = "POSTED"),
         NEW r \in Requests, End(r)
  PROVE MInv'
<1>1. \A j \in Journals : settles[j] # None => lines'[j] = lines[j] /\ journal'[j] # "NONE"
  BY DEF MInv, Evidence
<1>2. \A s \in Requests : at'[s] = "settling" => at[s] = "settling" /\ on'[s] = on[s]
  BY DEF End, IInv, TypeOK
<1> QED
  BY <1>1, <1>2, MoneyApart

LEMMA MoneyKeeps == IInv /\ MInv /\ [Next]_vars => MInv'
<1> SUFFICES ASSUME IInv, MInv, [Next]_vars PROVE MInv'
  OBVIOUS
<1>1. \A j \in Journals : settles[j] # None => journal[j] # "NONE"
  BY DEF MInv, Evidence
<1>2. ASSUME NEW r \in Requests, Begin(r) PROVE MInv'
  <2>1. UNCHANGED <<lines, journal, settles, payable, expense>>
    BY <1>2 DEF Begin, Start, StartDraft, StartClose, StartPost, StartReverse, StartExpense,
       StartSettle, ledger, entries, subledger
  <2>2. \A s \in Requests : at'[s] = "settling" =>
          \/ at[s] = "settling" /\ on'[s] = on[s]
          \/ on'[s] \in Expenses /\ payable[on'[s]] \in {"OPEN", "PARTIALLY_PAID"}
    BY <1>2 DEF Begin, Start, StartDraft, StartClose, StartPost, StartReverse, StartExpense,
       StartSettle, IInv, TypeOK
  <2> QED
    BY <1>1, <2>1, <2>2, MoneyApart
<1>3. ASSUME NEW r \in Requests, EndPost(r) \/ EndClose(r) \/ Abort(r) PROVE MInv'
  <2>1. UNCHANGED <<lines, expense, payable, settles>> /\ End(r)
    BY <1>3 DEF EndPost, EndClose, Abort, ledger, entries, subledger
  <2>2. \A j \in Journals : journal[j] # "NONE" => journal'[j] # "NONE"
    BY <1>3 DEF EndPost, EndClose, Abort, ledger, entries, IInv, TypeOK
  <2> QED
    BY <2>1, <2>2, WriteApart
<1>4. ASSUME NEW r \in Requests, NEW j \in Journals, NEW l \in Entries, NEW src \in Nameable,
             EndDraft(r, j, l, src)
      PROVE MInv'
  <2>1. UNCHANGED <<expense, payable, settles>> /\ End(r)
    BY <1>4 DEF EndDraft, subledger
  <2>2. \A k \in Journals : journal[k] # "NONE" => lines'[k] = lines[k] /\ journal'[k] # "NONE"
    BY <1>4 DEF EndDraft, Write, MayInsert, entries, IInv, TypeOK
  <2> QED
    BY <2>1, <2>2, WriteApart
<1>5. ASSUME NEW r \in Requests, NEW k \in Journals, NEW p \in Periods, EndReverse(r, k, p)
      PROVE MInv'
  <2>1. UNCHANGED <<expense, payable, settles>> /\ End(r)
    BY <1>5 DEF EndReverse, subledger
  <2>2. \A j \in Journals : journal[j] # "NONE" => lines'[j] = lines[j] /\ journal'[j] # "NONE"
    BY <1>5 DEF EndReverse, Reversible, Mirrored, MayInsert, entries, IInv, TypeOK
  <2> QED
    BY <2>1, <2>2, WriteApart
<1>6. ASSUME NEW r \in Requests, NEW j \in Journals, EndExpense(r, j) PROVE MInv'
  <2>1. UNCHANGED <<payable, settles>> /\ End(r)
    BY <1>6 DEF EndExpense
  <2>2. \A k \in Journals : journal[k] # "NONE" => lines'[k] = lines[k] /\ journal'[k] # "NONE"
    BY <1>6 DEF EndExpense, Write, MayInsert, entries, IInv, TypeOK
  <2>3. \A e \in Expenses :
           expense'[e] = expense[e] \/ (expense[e] = "APPROVED" /\ expense'[e] = "POSTED")
    BY <1>6 DEF EndExpense, ExpenseAfter, IInv, TypeOK, Knows
  <2> QED
    BY <2>1, <2>2, <2>3, WriteApart
<1>7. ASSUME NEW e \in Expenses, CreateExpense(e) \/ ApproveExpense(e) PROVE MInv'
  BY <1>1, <1>7, MoneyApart DEF CreateExpense, ApproveExpense, ledger, entries, calls,
     IInv, TypeOK, MInv, Owing
<1>8. ASSUME NEW c \in Charges, NEW j \in Journals, NEW p \in Periods, Issue(c, j, p) PROVE MInv'
  BY <1>1, <1>8, MoneyApart DEF Issue, MayInsert, entries, subledger, calls
<1>9. CASE UNCHANGED vars
  BY <1>1, <1>9, MoneyApart DEF vars, ledger, entries, subledger, calls
<1> QED
  BY <1>2, <1>3, <1>4, <1>5, <1>6, <1>7, <1>8, <1>9, SettleKeeps DEF Next, Commit

(* A payable is PAID exactly when its settlements add up to its amount,    *)
(* and never settled beyond it.                                            *)
THEOREM PaidExactly == Spec => []PaidIffSettled
<1>1. MInv => PaidIffSettled
  BY DEF MInv
<1> QED
  BY <1>1, Inductive, InitMoney, MoneyKeeps, PTL DEF Spec
-----------------------------------------------------------------------------
(* Waiting calls.  A draft is written without another lock; whoever waits  *)
(* for a period waits for a draft being written or for closePeriod; and    *)
(* closePeriod waits for a draft only while postJournal wants its period.  *)
LEMMA SomeoneEnds == IInv => SomeCallCanEnd
<1> SUFFICES ASSUME IInv, NEW q \in Requests, at[q] # "idle"
             PROVE \E r \in Requests : at[r] # "idle" /\ (~Waits(r) \/ Deadlocked(r))
  BY DEF SomeCallCanEnd
<1>1. CASE \E r \in Requests : at[r] = "drafting"
  BY <1>1 DEF Waits
<1>2. CASE \E r \in Requests : at[r] = "closing"
  <2>1. PICK r \in Requests : at[r] = "closing"
    BY <1>2
  <2>2. ASSUME CloseWaits(r) PROVE Deadlocked(r)
    <3>1. PICK j \in Journals, v \in Requests :
            /\ journal[j] = "DRAFT" /\ periodOf[j] = on[r]
            /\ Holds(v, {"posting", "reversing"}, j)
      BY <2>2 DEF CloseWaits, DraftsOf, JournalLocked
    <3>2. Holds(v, {"posting"}, j)
      BY <3>1 DEF Holds, IInv, Knows
    <3> QED
      BY <2>1, <3>1, <3>2 DEF Deadlocked, Holds
  <2> QED
    BY <2>1, <2>2 DEF Waits
<1>3. CASE \E r \in Requests : at[r] \in {"posting", "reversing", "expensing"}
  <2>1. PICK r \in Requests : at[r] \in {"posting", "reversing", "expensing"}
    BY <1>3
  <2>2. ASSUME NEW p, PeriodBusy(p) PROVE \E s \in Requests : at[s] \in {"closing", "drafting"}
    BY <2>2 DEF PeriodBusy, PeriodHeld, PeriodShared, Holds
  <2> QED
    BY <1>1, <1>2, <2>1, <2>2 DEF Waits
<1>4. CASE \E r \in Requests : at[r] = "settling"
  BY <1>3, <1>4 DEF Waits, JournalLocked, Holds
<1> QED
  BY <1>1, <1>2, <1>3, <1>4 DEF IInv, TypeOK

(* Some call of the ledger can always finish, or is a victim of the one    *)
(* deadlock its locks allow.                                               *)
THEOREM LedgerNeverStuck == Spec => []SomeCallCanEnd
  BY Inductive, SomeoneEnds, PTL
-----------------------------------------------------------------------------
(* Refinement.  A step of the program reaches the books in one of four     *)
(* ways: it leaves them alone, enters one journal, closes a period, or     *)
(* moves a payable.  What it read under its first lock still holds, by the *)
(* invariants above, when it reaches them.                                 *)
DraftsByHand ==
  \A j \in Journals : journal[j] = "DRAFT" => lines[j] \in Entries

LEMMA DraftsKeep == IInv /\ DraftsByHand /\ [Next]_vars => DraftsByHand'
<1> SUFFICES ASSUME IInv, DraftsByHand, [Next]_vars PROVE DraftsByHand'
  OBVIOUS
<1> USE DEF DraftsByHand, IInv, TypeOK
<1>1. ASSUME UNCHANGED <<journal, lines>> PROVE DraftsByHand'
  BY <1>1
<1>2. ASSUME NEW r \in Requests, Begin(r) \/ Abort(r) \/ EndClose(r) PROVE DraftsByHand'
  BY <1>1, <1>2 DEF Begin, Abort, Start, StartDraft, StartClose, StartPost, StartReverse,
     StartExpense, StartSettle, EndClose, ledger, entries
<1>3. ASSUME NEW r \in Requests, EndPost(r) PROVE DraftsByHand'
  BY <1>3 DEF EndPost
<1>4. ASSUME NEW r \in Requests, NEW j \in Journals, NEW l \in Entries, NEW src \in Nameable,
             EndDraft(r, j, l, src)
      PROVE DraftsByHand'
  BY <1>4 DEF EndDraft, Write, entries
<1>5. ASSUME NEW r \in Requests, NEW k \in Journals, NEW p \in Periods, EndReverse(r, k, p)
      PROVE DraftsByHand'
  BY <1>5 DEF EndReverse, Mirrored, Knows, entries
<1>6. ASSUME NEW r \in Requests, NEW j \in Journals, EndExpense(r, j) PROVE DraftsByHand'
  BY <1>6 DEF EndExpense, Write, entries
<1>7. ASSUME NEW r \in Requests, NEW j \in Journals, EndSettle(r, j) PROVE DraftsByHand'
  BY <1>1, <1>7 DEF EndSettle, ledger, entries
<1>8. ASSUME NEW e \in Expenses, CreateExpense(e) \/ ApproveExpense(e) PROVE DraftsByHand'
  BY <1>1, <1>8 DEF CreateExpense, ApproveExpense, ledger, entries
<1>9. ASSUME NEW c \in Charges, NEW j \in Journals, NEW p \in Periods, Issue(c, j, p)
      PROVE DraftsByHand'
  BY <1>1, <1>9 DEF Issue, MayInsert, entries
<1>10. CASE UNCHANGED vars
  BY <1>1, <1>10 DEF vars, ledger, entries
<1> QED
  BY <1>2, <1>3, <1>4, <1>5, <1>6, <1>7, <1>8, <1>9, <1>10 DEF Next, Commit

BooksInv == IInv /\ MInv /\ DraftsByHand

(* The sums do not move when nothing is settled: no settled row changes.   *)
LEMMA SamePaid ==
  ASSUME MInv, UNCHANGED settles,
         \A j \in Journals : journal[j] # "NONE" => lines'[j] = lines[j]
  PROVE UNCHANGED <<Paid, Used>>
<1>1. \A e \in Expenses : Paise(e)' = Paise(e)
  BY SamePaise DEF MInv, Evidence
<1>2. \A e \in Expenses : Settled(e)' = Settled(e)
  BY <1>1 DEF Settled
<1> QED
  BY <1>2 DEF Paid, Used

LEMMA SameBook ==
  ASSUME \A j \in Journals :
           /\ journal'[j] \in Booked <=> journal[j] \in Booked
           /\ journal[j] \in Booked =>
                periodOf'[j] = periodOf[j] /\ lines'[j] = lines[j] /\ mirrors'[j] = mirrors[j]
  PROVE UNCHANGED Book
  BY DEF Book

(* One journal enters the books, the others stay as they are.              *)
LEMMA OneEntry ==
  ASSUME NEW j \in Journals, journal[j] \notin Booked, journal'[j] \in Booked,
         \A i \in Journals \ {j} :
           /\ journal'[i] \in Booked <=> journal[i] \in Booked
           /\ journal[i] \in Booked =>
                periodOf'[i] = periodOf[i] /\ lines'[i] = lines[i] /\ mirrors'[i] = mirrors[i]
  PROVE /\ j \notin DOMAIN Book
        /\ Book' = [i \in DOMAIN Book \cup {j} |->
             IF i = j THEN [period |-> periodOf'[j], lines |-> lines'[j], cancels |-> mirrors'[j]]
             ELSE Book[i]]
<1>1. {k \in Journals : journal'[k] \in Booked} = {k \in Journals : journal[k] \in Booked} \cup {j}
  OBVIOUS
<1> QED
  BY <1>1 DEF Book

(* A POSTED journal is an entry that stands.                               *)
LEMMA PostedStands ==
  ASSUME IInv, NEW j \in Journals, journal[j] = "POSTED"
  PROVE Books!Stands(j) /\ Book[j].lines = lines[j]
<1>1. /\ j \in DOMAIN Book
      /\ Book[j] = [period |-> periodOf[j], lines |-> lines[j], cancels |-> mirrors[j]]
  BY DEF Book, Booked
<1>2. ASSUME NEW k \in DOMAIN Book, Book[k].cancels = j PROVE FALSE
  <2>1. k \in Journals /\ IsReversal(k, j)
    BY <1>2 DEF Book, IsReversal
  <2> QED
    BY <2>1 DEF IInv, ReversedByOne
<1> QED
  BY <1>1, <1>2 DEF Books!Stands

LEMMA InitBooks == Init => BooksInv /\ Books!Init
<1> SUFFICES ASSUME Init PROVE BooksInv /\ Books!Init
  OBVIOUS
<1>1. BooksInv
  BY InitInv, InitMoney DEF BooksInv, DraftsByHand, Init
<1>2. OpenPeriods = Periods /\ Owed = {} /\ Used = {}
  BY DEF Init, OpenPeriods, Owed, Used
<1>3. Book = [j \in {} |-> None]
  <2>1. {k \in Journals : journal[k] \in Booked} = {}
    BY DEF Init, Booked
  <2> QED
    BY <2>1 DEF Book
<1>4. Paid = [e \in Expenses |-> 0]
  <2>1. \A e \in Expenses : Settled(e) = 0
    <3>1. \A e \in Expenses : Paise(e) = {}
      BY LedgerAssumption DEF Init, Paise
    <3> QED
      BY <3>1, FS_EmptySet DEF Settled
  <2> QED
    BY <2>1 DEF Paid
<1> QED
  BY <1>1, <1>2, <1>3, <1>4 DEF Books!Init, Init

(* Calls that leave every posted journal, payable and settlement alone.    *)
LEMMA AsideRefines ==
  ASSUME BooksInv, UNCHANGED <<period, payable, booked, settles>>,
         \A j \in Journals :
           /\ journal'[j] \in Booked <=> journal[j] \in Booked
           /\ journal[j] # "NONE" => lines'[j] = lines[j]
           /\ journal[j] \in Booked => periodOf'[j] = periodOf[j] /\ mirrors'[j] = mirrors[j]
  PROVE UNCHANGED Books!vars
<1>1. UNCHANGED <<Paid, Used>>
  BY SamePaid DEF BooksInv
<1>2. UNCHANGED Book
  BY SameBook DEF Booked
<1>3. UNCHANGED <<OpenPeriods, Owed>>
  BY DEF OpenPeriods, Owed
<1> QED
  BY <1>1, <1>2, <1>3 DEF Books!vars

(* One journal enters the books of an open period.                         *)
LEMMA EnterRefines ==
  ASSUME BooksInv, UNCHANGED <<period, payable, settles>>,
         NEW j \in Journals, journal[j] \notin Booked, journal'[j] \in Booked,
         journal[j] = "NONE" \/ lines'[j] = lines[j],
         \A i \in Journals \ {j} :
           /\ journal'[i] \in Booked <=> journal[i] \in Booked
           /\ periodOf'[i] = periodOf[i] /\ lines'[i] = lines[i] /\ mirrors'[i] = mirrors[i],
         periodOf'[j] \in Periods, period[periodOf'[j]] = "OPEN"
  PROVE Books!Enter(j, periodOf'[j], lines'[j], mirrors'[j])
<1>1. UNCHANGED <<Paid, Used>>
  BY SamePaid DEF BooksInv
<1>2. /\ j \notin DOMAIN Book
      /\ Book' = [i \in DOMAIN Book \cup {j} |->
           IF i = j THEN [period |-> periodOf'[j], lines |-> lines'[j], cancels |-> mirrors'[j]]
           ELSE Book[i]]
  BY OneEntry
<1>3. UNCHANGED <<OpenPeriods, Owed>> /\ periodOf'[j] \in OpenPeriods
  BY DEF OpenPeriods, Owed
<1> QED
  BY <1>1, <1>2, <1>3 DEF Books!Enter

LEMMA DraftRefines ==
  ASSUME BooksInv, NEW r \in Requests, NEW j \in Journals, NEW l \in Entries, NEW src \in Nameable,
         EndDraft(r, j, l, src)
  PROVE UNCHANGED Books!vars
<1>1. UNCHANGED <<period, payable, booked, settles>>
  BY DEF EndDraft, subledger
<1>2. CASE MayInsert(j, "DRAFT", src)
  <2>1. /\ journal[j] = "NONE" /\ journal'[j] = "DRAFT"
        /\ mirrors' = mirrors
        /\ \A i \in Journals \ {j} :
             journal'[i] = journal[i] /\ periodOf'[i] = periodOf[i] /\ lines'[i] = lines[i]
    BY <1>2 DEF EndDraft, Write, MayInsert, BooksInv, IInv, TypeOK
  <2> QED
    BY <1>1, <2>1, AsideRefines DEF Booked
<1>3. CASE ~MayInsert(j, "DRAFT", src)
  BY <1>1, <1>3, AsideRefines DEF EndDraft, entries
<1> QED
  BY <1>2, <1>3

(* A draft enters as it was written; its period was seen open.             *)
LEMMA PostRefines ==
  ASSUME BooksInv, NEW r \in Requests, EndPost(r)
  PROVE Books!Next \/ UNCHANGED Books!vars
<1>1. PICK j \in Journals : /\ on[r] = j /\ journal[j] = "DRAFT" /\ lines[j] \in Entries
                            /\ periodOf[j] \in Periods /\ mirrors[j] = None
  BY DEF EndPost, BooksInv, IInv, Knows, DraftsByHand, TypeOK, Rows, Booked
<1>2. UNCHANGED <<period, periodOf, lines, mirrors, payable, booked, settles>>
  BY DEF EndPost, subledger
<1>3. CASE period[periodOf[j]] = "OPEN"
  <2>1. journal' = [journal EXCEPT ![j] = "POSTED"]
    BY <1>1, <1>3 DEF EndPost
  <2>2. journal'[j] = "POSTED" /\ \A i \in Journals \ {j} : journal'[i] = journal[i]
    BY <2>1 DEF BooksInv, IInv, TypeOK
  <2>3. Books!Enter(j, periodOf'[j], lines'[j], mirrors'[j])
    BY <1>1, <1>2, <1>3, <2>2, EnterRefines DEF Booked
  <2>4. Books!Post(j, periodOf[j], lines[j])
    BY <1>1, <1>2, <2>3 DEF Books!Post
  <2> QED
    BY <1>1, <2>4 DEF Books!Next
<1>4. CASE period[periodOf[j]] # "OPEN"
  <2>1. journal' = journal
    BY <1>1, <1>4 DEF EndPost
  <2> QED
    BY <1>2, <2>1, AsideRefines
<1> QED
  BY <1>3, <1>4

(* The original still stands under its lock, and its mirror enters.        *)
LEMMA ReverseRefines ==
  ASSUME BooksInv, NEW r \in Requests, NEW k \in Journals, NEW p \in Periods, EndReverse(r, k, p)
  PROVE Books!Next \/ UNCHANGED Books!vars
<1>1. PICK j \in Journals : on[r] = j /\ journal[j] = "POSTED"
  BY DEF EndReverse, BooksInv, IInv, Knows
<1>2. UNCHANGED <<period, payable, booked, settles>>
  BY DEF EndReverse, subledger
<1>3. CASE Reversible(on[r], k, p)
  <2>1. /\ journal[k] = "NONE" /\ k # j /\ period[p] = "OPEN"
        /\ journal' = [journal EXCEPT ![k] = "POSTED", ![j] = "REVERSED"]
        /\ periodOf' = [periodOf EXCEPT ![k] = p]
        /\ lines' = [lines EXCEPT ![k] = Negated(lines[j])]
        /\ mirrors' = [mirrors EXCEPT ![k] = j]
    BY <1>1, <1>3 DEF EndReverse, Reversible, Mirrored, MayInsert
  <2>2. /\ journal'[k] = "POSTED" /\ journal'[j] = "REVERSED"
        /\ periodOf'[k] = p /\ lines'[k] = Negated(lines[j]) /\ mirrors'[k] = j
    BY <2>1 DEF BooksInv, IInv, TypeOK
  <2>3. \A i \in Journals \ {k} :
          /\ journal'[i] \in Booked <=> journal[i] \in Booked
          /\ periodOf'[i] = periodOf[i] /\ lines'[i] = lines[i] /\ mirrors'[i] = mirrors[i]
    BY <1>1, <2>1 DEF BooksInv, IInv, TypeOK, Booked
  <2>4. Books!Enter(k, p, Negated(lines[j]), j)
    BY <1>2, <2>1, <2>2, <2>3, EnterRefines DEF Booked
  <2>5. Books!Stands(j) /\ Book[j].lines = lines[j]
    BY <1>1, PostedStands DEF BooksInv
  <2>6. Books!Reverse(j, k, p)
    BY <1>2, <2>4, <2>5 DEF Books!Reverse, Books!Negated, Negated
  <2> QED
    BY <2>6 DEF Books!Next
<1>4. CASE ~Reversible(on[r], k, p)
  BY <1>2, <1>4, AsideRefines DEF EndReverse, entries
<1> QED
  BY <1>3, <1>4

LEMMA CloseRefines ==
  ASSUME BooksInv, NEW r \in Requests, EndClose(r)
  PROVE Books!Next \/ UNCHANGED Books!vars
<1>1. PICK p \in Periods : on[r] = p /\ period[p] = "OPEN"
  BY DEF EndClose, BooksInv, IInv, Knows
<1>2. UNCHANGED <<journal, periodOf, lines, mirrors, payable, booked, settles>>
  BY DEF EndClose, entries, subledger
<1>3. UNCHANGED <<Paid, Used, Book, Owed>>
  BY <1>2, SamePaid, SameBook DEF BooksInv, Owed
<1>4. CASE DraftsOf(p) = {}
  <2>1. period' = [period EXCEPT ![p] = "CLOSED"]
    BY <1>1, <1>4 DEF EndClose
  <2>2. p \in OpenPeriods /\ OpenPeriods' = OpenPeriods \ {p}
    BY <1>1, <2>1 DEF OpenPeriods, BooksInv, IInv, TypeOK
  <2>3. Books!Close(p)
    BY <1>2, <1>3, <2>2 DEF Books!Close
  <2> QED
    BY <2>3 DEF Books!Next
<1>5. CASE DraftsOf(p) # {}
  <2>1. period' = period
    BY <1>1, <1>5 DEF EndClose
  <2> QED
    BY <1>2, <2>1, AsideRefines
<1> QED
  BY <1>4, <1>5

LEMMA ExpenseRefines ==
  ASSUME BooksInv, NEW r \in Requests, NEW j \in Journals, EndExpense(r, j)
  PROVE Books!Next \/ UNCHANGED Books!vars
<1>1. PICK e \in Expenses : on[r] = e /\ expense[e] = "APPROVED" /\ booked[e] = None
  BY DEF EndExpense, BooksInv, IInv, Knows, ExpenseBookedOnce
<1>2. UNCHANGED <<period, payable, settles>>
  BY DEF EndExpense
<1>3. CASE period[DateOf[e]] = "OPEN" /\ MayInsert(j, "DRAFT", e)
  <2>1. /\ journal[j] = "NONE" /\ mirrors[j] = None
        /\ Write(j, "POSTED", DateOf[e], ExpenseLines(e), e)
        /\ booked' = [booked EXCEPT ![e] = j]
    BY <1>1, <1>3 DEF EndExpense, MayInsert, BooksInv, IInv, Rows, Booked
  <2>2. /\ journal'[j] = "POSTED" /\ periodOf'[j] = DateOf[e] /\ lines'[j] = ExpenseLines(e)
        /\ mirrors'[j] = None
        /\ \A i \in Journals \ {j} :
             /\ journal'[i] = journal[i] /\ periodOf'[i] = periodOf[i]
             /\ lines'[i] = lines[i] /\ mirrors'[i] = mirrors[i]
    BY <2>1 DEF Write, BooksInv, IInv, TypeOK
  <2>3. DateOf[e] \in Periods
    BY LedgerAssumption
  <2>4. Books!Enter(j, DateOf[e], ExpenseLines(e), None)
    BY <1>2, <1>3, <2>1, <2>2, <2>3, EnterRefines DEF Booked
  <2>5. e \in Owed
    BY <1>1 DEF BooksInv, MInv, Owing, Owed
  <2>6. Books!BookExpense(e, j)
    BY <1>1, <2>1, <2>4, <2>5 DEF Books!BookExpense, Books!ExpenseLines, ExpenseLines
  <2> QED
    BY <2>6 DEF Books!Next
<1>4. CASE ~(period[DateOf[e]] = "OPEN" /\ MayInsert(j, "DRAFT", e))
  <2>1. UNCHANGED <<journal, periodOf, lines, mirrors, booked>>
    BY <1>1, <1>4 DEF EndExpense, entries
  <2> QED
    BY <1>2, <2>1, AsideRefines
<1> QED
  BY <1>3, <1>4

(* The payable is held, so nothing else was paid of it meanwhile; the      *)
(* evidence is read under its own lock.                                    *)
LEMMA SettleRefines ==
  ASSUME BooksInv, NEW r \in Requests, NEW j \in Journals, EndSettle(r, j)
  PROVE Books!Next \/ UNCHANGED Books!vars
<1>1. PICK e \in Expenses : on[r] = e /\ payable[e] \in {"OPEN", "PARTIALLY_PAID"}
  BY DEF EndSettle, BooksInv, IInv, Knows, MInv, Owing
<1>2. UNCHANGED <<period, journal, periodOf, lines, mirrors, booked>>
  BY DEF EndSettle, ledger, entries
<1>3. CASE Pays(j, e)
  <2>1. /\ settles[j] = None /\ journal[j] = "POSTED" /\ lines[j].expense >= 0
        /\ lines[j].payable \in 1 .. (Amount[e] - Settled(e))
        /\ settles' = [settles EXCEPT ![j] = e]
        /\ payable' = PayableAfter(e, lines[j].payable)
    BY <1>1, <1>3 DEF EndSettle, Pays
  <2>2. \A f \in Expenses : IsFiniteSet(Paise(f)) /\ Settled(f) \in Nat /\ Amount[f] \in Nat
    BY FS_CardinalityType, LedgerAssumption DEF BooksInv, MInv, Owing, Settled
  <2>3. lines[j].payable \in Nat
    BY <2>1, <2>2
  <2>4. /\ Settled(e)' = Settled(e) + lines[j].payable
        /\ \A f \in Expenses : f # e => Paise(f)' = Paise(f)
    BY <1>2, <2>1, <2>2, <2>3, MorePaise DEF BooksInv
  <2>5. Paid' = [Paid EXCEPT ![e] = @ + lines[j].payable]
    <3>1. \A f \in Expenses : f # e => Settled(f)' = Settled(f)
      BY <2>4 DEF Settled
    <3> QED
      BY <2>4, <3>1 DEF Paid
  <2>6. j \notin Used /\ Used' = Used \cup {j}
    BY <2>1, LedgerAssumption DEF Used, BooksInv, IInv, TypeOK
  <2>7. e \in Owed /\ Owed' = Owed
    BY <1>1, <2>1 DEF Owed, PayableAfter, BooksInv, IInv, TypeOK
  <2>8. Books!Stands(j) /\ Book[j].lines = lines[j]
    BY <2>1, PostedStands DEF BooksInv
  <2>9. UNCHANGED <<OpenPeriods, Book>>
    BY <1>2 DEF OpenPeriods, Book
  <2>10. Paid[e] = Settled(e)
    BY DEF Paid
  <2>11. Books!Pay(e, j)
    BY <1>2, <2>1, <2>5, <2>6, <2>7, <2>8, <2>9, <2>10 DEF Books!Pay
  <2> QED
    BY <2>11 DEF Books!Next
<1>4. CASE ~Pays(j, e)
  <2>1. UNCHANGED <<settles, payable>>
    BY <1>1, <1>4 DEF EndSettle
  <2> QED
    BY <1>2, <2>1, AsideRefines
<1> QED
  BY <1>3, <1>4

LEMMA ApproveRefines ==
  ASSUME BooksInv, NEW e \in Expenses, ApproveExpense(e)
  PROVE Books!Next
<1>1. UNCHANGED <<period, journal, periodOf, lines, mirrors, booked, settles>>
  BY DEF ApproveExpense, ledger, entries
<1>2. UNCHANGED <<Paid, Used, Book, OpenPeriods>>
  BY <1>1, SamePaid, SameBook DEF BooksInv, OpenPeriods
<1>3. e \notin Owed /\ Owed' = Owed \cup {e}
  BY DEF ApproveExpense, Owed, BooksInv, MInv, Owing, IInv, TypeOK
<1>4. Books!Approve(e)
  BY <1>1, <1>2, <1>3 DEF Books!Approve
<1> QED
  BY <1>4 DEF Books!Next

LEMMA NextRefines == BooksInv /\ [Next]_vars => [Books!Next]_Books!vars
<1> SUFFICES ASSUME BooksInv, [Next]_vars PROVE Books!Next \/ UNCHANGED Books!vars
  OBVIOUS
<1>1. ASSUME NEW r \in Requests, Begin(r) \/ Abort(r) PROVE UNCHANGED Books!vars
  <2>1. UNCHANGED <<period, journal, periodOf, lines, mirrors, payable, booked, settles>>
    BY <1>1 DEF Begin, Abort, Start, StartDraft, StartClose, StartPost, StartReverse,
       StartExpense, StartSettle, ledger, entries, subledger
  <2> QED
    BY <2>1, AsideRefines
<1>2. ASSUME NEW e \in Expenses, CreateExpense(e) PROVE UNCHANGED Books!vars
  BY <1>2, AsideRefines DEF CreateExpense, ledger, entries
<1>3. ASSUME NEW c \in Charges, NEW j \in Journals, NEW p \in Periods, Issue(c, j, p)
      PROVE UNCHANGED Books!vars
  BY <1>3, AsideRefines DEF Issue, MayInsert, entries, subledger
<1>4. CASE UNCHANGED vars
  BY <1>4, AsideRefines DEF vars, ledger, entries, subledger
<1> QED
  BY <1>1, <1>2, <1>3, <1>4, DraftRefines, PostRefines, ReverseRefines, CloseRefines,
     ExpenseRefines, SettleRefines, ApproveRefines DEF Next, Commit

(* Every behaviour of the calls, their locks, refusals and deadlocks is a  *)
(* behaviour of the append-only books of SocietyBooks.                     *)
THEOREM LedgerImplementsBooks == Spec => ImplementsBooks
<1>1. BooksInv /\ [Next]_vars => BooksInv'
  BY NextKeeps, MoneyKeeps, DraftsKeep DEF BooksInv
<1> QED
  BY <1>1, InitBooks, NextRefines, PTL DEF Spec, ImplementsBooks, Books!Spec
=============================================================================
