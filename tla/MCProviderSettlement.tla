------------------------- MODULE MCProviderSettlement -------------------------
(* Small instances of the bookings, field agents and settlements of one    *)
(* provider: distinct slots do not overlap, and rows of a table that the   *)
(* instance does not name are interchangeable.                             *)
EXTENDS ProviderSettlement, TLC

OwnTime == {<<s, s>> : s \in Slots}

RowSymmetry == Permutations(Jobs) \cup Permutations(Slots) \cup Permutations(Payments)
=============================================================================
