-------------------------- MODULE InvoiceSettlement --------------------------
(***************************************************************************)
(* What online payment of maintenance invoices promises, with no request,  *)
(* lock, webhook or retry in sight: an invoice is collected by at most one *)
(* order at a time, it is PAID exactly while an order of its own holds the *)
(* money, and a refund makes it payable again.                             *)
(*                                                                         *)
(* PaymentOrders is the program that has to implement this specification.  *)
(***************************************************************************)
CONSTANTS Invoices,   \* MaintenanceInvoice rows of one society
          Orders,     \* Payment rows that can exist
          None,       \* the target of an order that does not exist
          Legacy      \* <<order, invoice>> pairs captured before the history starts

(* What is assumed of the constants: an order collected one invoice, and an *)
(* invoice was collected by one order.                                      *)
SettlementAssumption ==
  /\ None \notin Invoices
  /\ Legacy \subseteq Orders \X Invoices
  /\ \A p, q \in Legacy : p[1] = q[1] \/ p[2] = q[2] => p = q

VARIABLES invoice,    \* status of each invoice
          target,     \* the invoice each order pays, None before the order exists
          status      \* status of each order, "NONE" before it exists

vars == <<invoice, target, status>>

InvoiceStatus == {"ISSUED", "PAID"}
OrderStatus == {"NONE", "CREATED", "CAPTURED", "FAILED", "REFUNDED"}
Live == {"CREATED", "CAPTURED"}

TypeOK ==
  /\ invoice \in [Invoices -> InvoiceStatus]
  /\ target \in [Orders -> Invoices \cup {None}]
  /\ status \in [Orders -> OrderStatus]

CollectedBefore(o, i) == <<o, i>> \in Legacy

Init ==
  /\ invoice = [i \in Invoices |->
       IF \E o \in Orders : CollectedBefore(o, i) THEN "PAID" ELSE "ISSUED"]
  /\ target = [o \in Orders |->
       IF \E i \in Invoices : CollectedBefore(o, i)
       THEN CHOOSE i \in Invoices : CollectedBefore(o, i)
       ELSE None]
  /\ status = [o \in Orders |->
       IF \E i \in Invoices : CollectedBefore(o, i) THEN "CAPTURED" ELSE "NONE"]

(* A new order for an invoice that is due and that no live order targets.  *)
Open(o, i) ==
  /\ status[o] = "NONE"
  /\ invoice[i] = "ISSUED"
  /\ \A p \in Orders : target[p] = i => status[p] \notin Live
  /\ target' = [target EXCEPT ![o] = i]
  /\ status' = [status EXCEPT ![o] = "CREATED"]
  /\ UNCHANGED invoice

Capture(o) ==
  /\ status[o] = "CREATED"
  /\ status' = [status EXCEPT ![o] = "CAPTURED"]
  /\ invoice' = [invoice EXCEPT ![target[o]] = "PAID"]
  /\ UNCHANGED target

Fail(o) ==
  /\ status[o] = "CREATED"
  /\ status' = [status EXCEPT ![o] = "FAILED"]
  /\ UNCHANGED <<invoice, target>>

Refund(o) ==
  /\ status[o] = "CAPTURED"
  /\ status' = [status EXCEPT ![o] = "REFUNDED"]
  /\ invoice' = [invoice EXCEPT ![target[o]] = "ISSUED"]
  /\ UNCHANGED target

Next == \E o \in Orders :
  \/ \E i \in Invoices : Open(o, i)
  \/ Capture(o)
  \/ Fail(o)
  \/ Refund(o)

Spec == Init /\ [][Next]_vars

-----------------------------------------------------------------------------

(* An order targets an invoice from the moment it exists, and not before.  *)
TargetKnown == \A o \in Orders : target[o] = None <=> status[o] = "NONE"

(* Two orders never try to collect, or hold, the money of one invoice      *)
(* (createPayment's look-up of an active order under the invoice's lock).  *)
OneLiveOrder ==
  \A o, p \in Orders :
    /\ target[o] = target[p]
    /\ status[o] \in Live
    /\ status[p] \in Live
    => o = p

(* An invoice is PAID exactly while one of its orders holds captured money:*)
(* a capture never leaves its invoice due, a refund never leaves it PAID   *)
(* (the invoice updates of the webhook transaction).                       *)
PaidIffCaptured ==
  \A i \in Invoices :
    invoice[i] = "PAID" <=>
      \E o \in Orders : target[o] = i /\ status[o] = "CAPTURED"

(* Inductive form of the two facts above.                                  *)
SettlementInv == TypeOK /\ TargetKnown /\ OneLiveOrder /\ PaidIffCaptured
=============================================================================
