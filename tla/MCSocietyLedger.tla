---------------------------- MODULE MCSocietyLedger ----------------------------
(* Small instances of SocietyLedger: one accountant's payment of part of   *)
(* the expense, and the dates of the expenses.                             *)
EXTENDS SocietyLedger, TLC

CONSTANTS e1, p1

AmountTwo == (e1 :> 2)
FirstPeriod == (e1 :> p1)

Payment(a) == [payable |-> a, expense |-> 0]
AnyPayment == {Payment(1), Payment(2)}

JournalSymmetry == Permutations(Journals)
CallSymmetry == Permutations(Requests)
SlotSymmetry == JournalSymmetry \cup CallSymmetry
=============================================================================
