--------------------------- MODULE MCAmenityBookings ---------------------------
(* A small instance of AmenityBookings: one window, and one place with     *)
(* approval and deposit or two places without, which an administrator may  *)
(* exchange while nothing is booked.                                       *)
EXTENDS AmenityBookings, TLC

Early == {1, 2}

Single == [capacity |-> 1, approval |-> TRUE, deposit |-> TRUE]
Pair == [capacity |-> 2, approval |-> FALSE, deposit |-> FALSE]

OneWindow == {Early}
TwoPolicies == {Single, Pair}
HoursChoices == {None, {Early}}

Slot == Permutations(Bookings) \cup Permutations(Requests) \cup Permutations(Units)
=============================================================================
