--------------------------- MODULE MCPaymentOrders ---------------------------
(* Small instances of PaymentOrders: who may pay what, and which order was *)
(* collected before receipts were recorded.                                *)
EXTENDS PaymentOrders, TLC

CONSTANTS u1, k1, i1

EveryonePays == Payers \X Invoices
NothingCollected == {}
OneCollected == {<<<<u1, k1>>, i1>>}

CallSymmetry == Permutations(Requests)
WorkSymmetry == Permutations(Handlers)
SlotSymmetry == CallSymmetry \cup WorkSymmetry
=============================================================================
