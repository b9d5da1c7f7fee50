---------------------------- MODULE PaymentOrders ----------------------------
(***************************************************************************)
(* Online payment of maintenance invoices: payment-order.service.ts (the   *)
(* createPayment transaction), billing.service.ts (reconcile and replay of *)
(* webhook receipts) and payment-webhook.processor.ts (the transaction     *)
(* that applies one gateway event).                                        *)
(*                                                                         *)
(* A Payment row is identified by its payer and idempotency key, which the *)
(* unique index of the table makes a key.  Row locks are not variables:    *)
(* a lock is held by the transaction whose control point is past the       *)
(* SELECT ... FOR UPDATE, so InvoiceLocked, OrderLocked and ReceiptLocked  *)
(* read the control points.  Statements of one transaction that nothing    *)
(* can separate (no lock to wait for, no row another commit may change)    *)
(* are one action.                                                         *)
(***************************************************************************)
EXTENDS Naturals

CONSTANTS
  Invoices,    \* MaintenanceInvoice rows of one society
  Payers,      \* residents
  Keys,        \* idempotency keys chosen by the clients
  MayPay,      \* <<payer, invoice>>: verified owner or tenant of the invoice's unit
  Requests,    \* slots for concurrent createPayment calls
  Handlers,    \* slots for concurrent webhook deliveries and replays
  Copies,      \* distinct provider event ids with the same content
  Legacy,      \* <<order, invoice>> collected before receipts were recorded
  MaxCrashes,  \* bound on lost transactions and dropped connections
  None

Orders == Payers \X Keys
Payer(o) == o[1]

Outcomes == {"CAPTURED", "FAILED", "REFUNDED"}

(* A gateway event: its order, its status, and which copy it is.           *)
Events == Orders \X Outcomes \X Copies
OrderOf(e) == e[1]
OutcomeOf(e) == e[2]

ASSUME PaymentAssumption ==
  /\ None \notin Invoices \cup Orders \cup Events
  /\ MayPay \subseteq Payers \X Invoices
  /\ Legacy \subseteq Orders \X Invoices
  /\ \A p, q \in Legacy : p[1] = q[1] \/ p[2] = q[2] => p = q
  /\ MaxCrashes \in Nat

VARIABLES
  invoice,       \* MaintenanceInvoice.status
  target,        \* Payment.invoiceId, None while the row does not exist
  status,        \* Payment.status, "NONE" while the row does not exist
  sent,          \* events the gateway has emitted
  receipt,       \* PaymentWebhookReceipt.processingStatus, "NONE" without a row
  claimed,       \* events with a PaymentEvent row (unique providerEventId)
  call,          \* control point of each createPayment call
  askedOrder,    \* the payer and key of the call
  askedInvoice,  \* the invoice of the call
  reply,         \* the order the call answered with, None for an error
  work,          \* control point of each webhook handler
  handled,       \* the event the handler is working on
  crashes

rows == <<invoice, target, status>>
webhookRows == <<sent, receipt, claimed>>
callVars == <<call, askedOrder, askedInvoice, reply>>
workVars == <<work, handled>>
vars == <<rows, webhookRows, callVars, workVars, crashes>>
-----------------------------------------------------------------------------
(* Row locks, read off the control points.                                 *)

(* createPayment holds its invoice FOR UPDATE from its first statement.    *)
InvoiceLocked(i) == \E r \in Requests : call[r] = "holding" /\ askedInvoice[r] = i

(* The processor holds the receipt and the Payment row FOR UPDATE.         *)
OrderLocked(o) == \E h \in Handlers : work[h] = "applying" /\ OrderOf(handled[h]) = o
ReceiptLocked(e) == \E h \in Handlers : work[h] = "applying" /\ handled[h] = e

CollectedBefore(o, i) == <<o, i>> \in Legacy
WasCollected(o) == \E i \in Invoices : CollectedBefore(o, i)

(* Orders settled before webhook receipts existed left a PaymentEvent but  *)
(* no PaymentWebhookReceipt.                                               *)
Init ==
  /\ invoice = [i \in Invoices |->
       IF \E o \in Orders : CollectedBefore(o, i) THEN "PAID" ELSE "ISSUED"]
  /\ target = [o \in Orders |->
       IF WasCollected(o) THEN CHOOSE i \in Invoices : CollectedBefore(o, i) ELSE None]
  /\ status = [o \in Orders |-> IF WasCollected(o) THEN "CAPTURED" ELSE "NONE"]
  /\ sent = {e \in Events : OutcomeOf(e) = "CAPTURED" /\ WasCollected(OrderOf(e))}
  /\ claimed = sent
  /\ receipt = [e \in Events |-> "NONE"]
  /\ call = [r \in Requests |-> "idle"]
  /\ askedOrder = [r \in Requests |-> None]
  /\ askedInvoice = [r \in Requests |-> None]
  /\ reply = [r \in Requests |-> None]
  /\ work = [h \in Handlers |-> "idle"]
  /\ handled = [h \in Handlers |-> None]
  /\ crashes = 0

-----------------------------------------------------------------------------
(* createPayment                                                           *)

(* The orders on invoice i a gateway payment may still arrive for.         *)
ActiveOrders(i) == {o \in Orders : target[o] = i /\ status[o] = "CREATED"}

Ask(r, o, i, pc, answer) ==
  /\ call' = [call EXCEPT ![r] = pc]
  /\ askedOrder' = [askedOrder EXCEPT ![r] = o]
  /\ askedInvoice' = [askedInvoice EXCEPT ![r] = i]
  /\ reply' = [reply EXCEPT ![r] = answer]

(* Mutant: the invoice is read without FOR UPDATE.                         *)
MayCallUnlocked(r, o, i) ==
  /\ call[r] # "holding"
  /\ <<Payer(o), i>> \in MayPay

(* The guards every call passes: an authorised payer, and the invoice row  *)
(* locked by nobody else.                                                  *)
MayCall(r, o, i) ==
  /\ call[r] # "holding"
  /\ <<Payer(o), i>> \in MayPay
  /\ ~InvoiceLocked(i)

(* The payer's key is known: its own order again, or an error when the key *)
(* belongs to another invoice.                                             *)
CreateRepeated(r, o, i) ==
  /\ MayCall(r, o, i)
  /\ status[o] # "NONE"
  /\ Ask(r, o, i, "done", IF target[o] = i THEN o ELSE None)
  /\ UNCHANGED <<rows, webhookRows, workVars, crashes>>

(* A new key on an invoice that is already paid.                           *)
CreateNotPayable(r, o, i) ==
  /\ MayCall(r, o, i)
  /\ status[o] = "NONE"
  /\ invoice[i] # "ISSUED"
  /\ Ask(r, o, i, "done", None)
  /\ UNCHANGED <<rows, webhookRows, workVars, crashes>>

(* A payment is in progress: the payer's own order, or a conflict.         *)
CreateJoined(r, o, i) ==
  /\ MayCall(r, o, i)
  /\ status[o] = "NONE"
  /\ invoice[i] = "ISSUED"
  /\ \E p \in ActiveOrders(i) :
       Ask(r, o, i, "done", IF Payer(p) = Payer(o) THEN p ELSE None)
  /\ UNCHANGED <<rows, webhookRows, workVars, crashes>>

(* Mutant: no look-up of a payment in progress.                            *)
CreateLockedBlindly(r, o, i) ==
  /\ MayCall(r, o, i)
  /\ status[o] = "NONE"
  /\ invoice[i] = "ISSUED"
  /\ Ask(r, o, i, "holding", None)
  /\ UNCHANGED <<rows, webhookRows, workVars, crashes>>

(* Nothing in progress: go on to the INSERT, keeping the invoice locked.   *)
CreateLocked(r, o, i) ==
  /\ MayCall(r, o, i)
  /\ status[o] = "NONE"
  /\ invoice[i] = "ISSUED"
  /\ ActiveOrders(i) = {}
  /\ Ask(r, o, i, "holding", None)
  /\ UNCHANGED <<rows, webhookRows, workVars, crashes>>

(* INSERT and commit.                                                      *)
CreateInserted(r) ==
  LET o == askedOrder[r]
      i == askedInvoice[r]
  IN /\ call[r] = "holding"
     /\ status[o] = "NONE"
     /\ target' = [target EXCEPT ![o] = i]
     /\ status' = [status EXCEPT ![o] = "CREATED"]
     /\ Ask(r, o, i, "done", o)
     /\ UNCHANGED <<invoice, webhookRows, workVars, crashes>>

(* Mutant: whatever row the INSERT returns is the answer.                  *)
CreateClashedUnnoticed(r) ==
  /\ call[r] = "holding"
  /\ status[askedOrder[r]] # "NONE"
  /\ ~OrderLocked(askedOrder[r])
  /\ Ask(r, askedOrder[r], askedInvoice[r], "done", askedOrder[r])
  /\ UNCHANGED <<rows, webhookRows, workVars, crashes>>

(* The same key was inserted for another invoice since the look-up: ON     *)
(* CONFLICT waits for that row, and the transaction rolls back.            *)
CreateClashed(r) ==
  LET o == askedOrder[r]
      i == askedInvoice[r]
  IN /\ call[r] = "holding"
     /\ status[o] # "NONE"
     /\ ~OrderLocked(o)
     /\ Ask(r, o, i, "done", IF target[o] = i THEN o ELSE None)
     /\ UNCHANGED <<rows, webhookRows, workVars, crashes>>

(* The connection is lost; PostgreSQL rolls the transaction back.          *)
CreateLost(r) ==
  /\ call[r] = "holding"
  /\ crashes < MaxCrashes
  /\ crashes' = crashes + 1
  /\ call' = [call EXCEPT ![r] = "idle"]
  /\ UNCHANGED <<rows, webhookRows, askedOrder, askedInvoice, reply, workVars>>

-----------------------------------------------------------------------------
(* The gateway: it may report a failed attempt and later a capture of the  *)
(* same order, repeats itself under fresh event ids, and refunds only what *)
(* it captured.                                                            *)
GatewayEmits(e) ==
  /\ e \notin sent
  /\ status[OrderOf(e)] # "NONE"
  /\ LET reported == {OutcomeOf(f) : f \in {x \in sent : OrderOf(x) = OrderOf(e)}}
     IN /\ OutcomeOf(e) = "FAILED" => "CAPTURED" \notin reported
        /\ OutcomeOf(e) = "REFUNDED" => "CAPTURED" \in reported
  /\ sent' = sent \cup {e}
  /\ UNCHANGED <<rows, receipt, claimed, callVars, workVars, crashes>>

-----------------------------------------------------------------------------
(* Webhook delivery                                                        *)

Hand(h, pc, e) ==
  /\ work' = [work EXCEPT ![h] = pc]
  /\ handled' = [handled EXCEPT ![h] = e]

(* Storing a receipt locks nobody out: a known one is updated in place, a  *)
(* new one needs its Payment row for the foreign key.                      *)
MayStore(e) ==
  /\ ~ReceiptLocked(e)
  /\ receipt[e] = "NONE" => ~OrderLocked(OrderOf(e))

(* Mutant: a delivery of a receipt that once failed ends there.            *)
DeliverUnlessFailed(h, e) ==
  /\ work[h] = "idle"
  /\ e \in sent
  /\ receipt[e] \in {"NONE", "RECEIVED"}
  /\ MayStore(e)
  /\ receipt' = [receipt EXCEPT ![e] = "RECEIVED"]
  /\ Hand(h, "received", e)
  /\ UNCHANGED <<rows, sent, claimed, callVars, crashes>>

(* Mutant: a delivery of a receipt that is already stored ends there.      *)
DeliverOnce(h, e) ==
  /\ work[h] = "idle"
  /\ e \in sent
  /\ receipt[e] = "NONE"
  /\ MayStore(e)
  /\ receipt' = [receipt EXCEPT ![e] = "RECEIVED"]
  /\ Hand(h, "received", e)
  /\ UNCHANGED <<rows, sent, claimed, callVars, crashes>>

(* reconcile persists the receipt in a statement of its own; a receipt     *)
(* that is already PROCESSED ends the delivery there.                      *)
Deliver(h, e) ==
  /\ work[h] = "idle"
  /\ e \in sent
  /\ receipt[e] # "PROCESSED"
  /\ MayStore(e)
  /\ receipt' = [receipt EXCEPT ![e] = IF @ = "NONE" THEN "RECEIVED" ELSE @]
  /\ Hand(h, "received", e)
  /\ UNCHANGED <<rows, sent, claimed, callVars, crashes>>

(* An operator replays a stored receipt, whatever its status.              *)
Replay(h, e) ==
  /\ work[h] = "idle"
  /\ receipt[e] # "NONE"
  /\ ~ReceiptLocked(e)
  /\ Hand(h, "received", e)
  /\ UNCHANGED <<rows, webhookRows, callVars, crashes>>

(* The processor's transaction starts by locking the receipt and the order.*)
MayProcess(h) ==
  /\ work[h] = "received"
  /\ ~ReceiptLocked(handled[h])

(* Another transaction processed the receipt, or its event was recorded    *)
(* before receipts existed.                                                *)
ProcessDuplicate(h) ==
  LET e == handled[h]
  IN /\ MayProcess(h)
     /\ \/ receipt[e] = "PROCESSED"
        \/ e \in claimed /\ ~OrderLocked(OrderOf(e))
     /\ receipt' = [receipt EXCEPT ![e] = "PROCESSED"]
     /\ Hand(h, "idle", None)
     /\ UNCHANGED <<rows, sent, claimed, callVars, crashes>>

(* Mutant: a capture also revives an order that failed before.             *)
AllowedLate(from, outcome) ==
  \/ outcome = "CAPTURED" /\ from \in {"CREATED", "FAILED"}
  \/ outcome = "FAILED" /\ from = "CREATED"
  \/ outcome = "REFUNDED" /\ from = "CAPTURED"

(* Mutant: a repeated capture is accepted as a transition.                 *)
AllowedRepeated(from, outcome) ==
  \/ outcome = "CAPTURED" /\ from \in {"CREATED", "CAPTURED"}
  \/ outcome = "FAILED" /\ from = "CREATED"
  \/ outcome = "REFUNDED" /\ from = "CAPTURED"

(* The transitions the UPDATE of Payment allows.                           *)
Allowed(from, outcome) ==
  \/ outcome \in {"CAPTURED", "FAILED"} /\ from = "CREATED"
  \/ outcome = "REFUNDED" /\ from = "CAPTURED"

Fresh(h) ==
  /\ MayProcess(h)
  /\ receipt[handled[h]] # "PROCESSED"
  /\ handled[h] \notin claimed
  /\ ~OrderLocked(OrderOf(handled[h]))

(* Mutant: an impossible transition is acknowledged and dropped.           *)
ProcessSwallowed(h) ==
  /\ Fresh(h)
  /\ ~Allowed(status[OrderOf(handled[h])], OutcomeOf(handled[h]))
  /\ receipt' = [receipt EXCEPT ![handled[h]] = "PROCESSED"]
  /\ Hand(h, "idle", None)
  /\ UNCHANGED <<rows, sent, claimed, callVars, crashes>>

(* No row is updated: the exception rolls the claim back.                  *)
ProcessRejected(h) ==
  /\ Fresh(h)
  /\ ~Allowed(status[OrderOf(handled[h])], OutcomeOf(handled[h]))
  /\ Hand(h, "failing", handled[h])
  /\ UNCHANGED <<rows, webhookRows, callVars, crashes>>

(* The claim and the new Payment status are written but not committed.     *)
ProcessApplies(h) ==
  /\ Fresh(h)
  /\ Allowed(status[OrderOf(handled[h])], OutcomeOf(handled[h]))
  /\ Hand(h, "applying", handled[h])
  /\ UNCHANGED <<rows, webhookRows, callVars, crashes>>

(* Mutant: a refund leaves its invoice alone.                              *)
InvoiceAfterCapture(i, outcome) == IF outcome = "CAPTURED" THEN "PAID" ELSE invoice[i]

(* The invoice after an outcome: the UPDATE of an invoice in any other     *)
(* status matches no row.                                                  *)
InvoiceAfter(i, outcome) ==
  CASE outcome = "CAPTURED" /\ invoice[i] = "ISSUED" -> "PAID"
    [] outcome = "REFUNDED" /\ invoice[i] = "PAID" -> "ISSUED"
    [] OTHER -> invoice[i]

(* The invoice row is updated once nobody else holds it, the receipt is    *)
(* marked and everything commits.                                          *)
ProcessCommits(h) ==
  LET e == handled[h]
      o == OrderOf(e)
      i == target[o]
  IN /\ work[h] = "applying"
     /\ OutcomeOf(e) # "FAILED" => ~InvoiceLocked(i)
     /\ invoice' = [invoice EXCEPT ![i] = InvoiceAfter(i, OutcomeOf(e))]
     /\ status' = [status EXCEPT ![o] = OutcomeOf(e)]
     /\ claimed' = claimed \cup {e}
     /\ receipt' = [receipt EXCEPT ![e] = "PROCESSED"]
     /\ Hand(h, "idle", None)
     /\ UNCHANGED <<target, sent, callVars, crashes>>

(* After the rollback, a statement of its own marks the receipt FAILED     *)
(* unless another handler has processed it meanwhile.                      *)
MarkFailed(h) ==
  LET e == handled[h]
  IN /\ work[h] = "failing"
     /\ ~ReceiptLocked(e)
     /\ receipt' = [receipt EXCEPT ![e] = IF @ = "PROCESSED" THEN @ ELSE "FAILED"]
     /\ Hand(h, "idle", None)
     /\ UNCHANGED <<rows, sent, claimed, callVars, crashes>>

(* The API process dies, or the statement that marks the failure fails.    *)
HandlerLost(h) ==
  /\ work[h] # "idle"
  /\ crashes < MaxCrashes
  /\ crashes' = crashes + 1
  /\ Hand(h, "idle", None)
  /\ UNCHANGED <<rows, webhookRows, callVars>>

-----------------------------------------------------------------------------
RequestStep(r) ==
  \/ \E o \in Orders, i \in Invoices :
       \/ CreateRepeated(r, o, i)
       \/ CreateNotPayable(r, o, i)
       \/ CreateJoined(r, o, i)
       \/ CreateLocked(r, o, i)
  \/ CreateInserted(r)
  \/ CreateClashed(r)
  \/ CreateLost(r)

HandlerStep(h) ==
  \/ \E e \in Events : Deliver(h, e) \/ Replay(h, e)
  \/ ProcessDuplicate(h)
  \/ ProcessRejected(h)
  \/ ProcessApplies(h)
  \/ ProcessCommits(h)
  \/ MarkFailed(h)
  \/ HandlerLost(h)

Next ==
  \/ \E r \in Requests : RequestStep(r)
  \/ \E h \in Handlers : HandlerStep(h)
  \/ \E e \in Events : GatewayEmits(e)

Spec == Init /\ [][Next]_vars
-----------------------------------------------------------------------------
(* Type invariant: every row, control point and message has its shape.     *)
TypeOK ==
  /\ invoice \in [Invoices -> {"ISSUED", "PAID"}]
  /\ target \in [Orders -> Invoices \cup {None}]
  /\ status \in [Orders -> {"NONE", "CREATED", "CAPTURED", "FAILED", "REFUNDED"}]
  /\ sent \subseteq Events
  /\ receipt \in [Events -> {"NONE", "RECEIVED", "PROCESSED", "FAILED"}]
  /\ claimed \subseteq Events
  /\ call \in [Requests -> {"idle", "holding", "done"}]
  /\ askedOrder \in [Requests -> Orders \cup {None}]
  /\ askedInvoice \in [Requests -> Invoices \cup {None}]
  /\ reply \in [Requests -> Orders \cup {None}]
  /\ work \in [Handlers -> {"idle", "received", "applying", "failing"}]
  /\ handled \in [Handlers -> Events \cup {None}]
  /\ crashes \in 0..MaxCrashes

Settlement == INSTANCE InvoiceSettlement
  WITH Invoices <- Invoices, Orders <- Orders, None <- None, Legacy <- Legacy,
       invoice <- invoice, target <- target, status <- status

(* Two orders never collect, or hold, the money of one invoice, however    *)
(* calls of different payers and keys interleave with webhooks: the active *)
(* look-up and the INSERT are separate statements of createPayment.        *)
OneLiveOrder == Settlement!OneLiveOrder

(* An invoice is PAID exactly while an order of its own is CAPTURED: the   *)
(* two rows are updated by guarded statements that may match nothing.      *)
PaidIffCaptured == Settlement!PaidIffCaptured

(* A call is only ever answered with an order of its own payer on its own  *)
(* invoice, also when a concurrent INSERT wins the key for another one.    *)
ReplyMatchesCall ==
  \A r \in Requests : reply[r] # None =>
    /\ Payer(reply[r]) = Payer(askedOrder[r])
    /\ target[reply[r]] = askedInvoice[r]

Reached(outcome) ==
  CASE outcome = "CAPTURED" -> {"CAPTURED", "REFUNDED"}
    [] outcome = "FAILED" -> {"FAILED"}
    [] outcome = "REFUNDED" -> {"REFUNDED"}

(* A receipt is PROCESSED, and so never delivered again, only once its     *)
(* event has taken effect on its order: no crash, rollback, replay or      *)
(* duplicate acknowledges an event that was not applied.                   *)
ProcessedMeansApplied ==
  \A e \in Events : receipt[e] = "PROCESSED" =>
    /\ e \in claimed
    /\ status[OrderOf(e)] \in Reached(OutcomeOf(e))

(* Every status an order shows was reported by exactly one claimed event   *)
(* of the gateway: two copies of one report are never both applied.        *)
AppliedOnce ==
  \A o \in Orders \ {p \in Orders : WasCollected(p)} :
    \A e, f \in {x \in claimed : OrderOf(x) = o} :
      OutcomeOf(e) = OutcomeOf(f) => e = f

(* A transaction is blocked by the one that holds the row it needs next.   *)
CallBlockedBy(r, h) ==
  /\ call[r] = "holding"
  /\ status[askedOrder[r]] # "NONE"
  /\ work[h] = "applying"
  /\ OrderOf(handled[h]) = askedOrder[r]

WorkBlockedBy(h, r) ==
  /\ work[h] = "applying"
  /\ OutcomeOf(handled[h]) # "FAILED"
  /\ call[r] = "holding"
  /\ askedInvoice[r] = target[OrderOf(handled[h])]

(* createPayment locks an invoice and then, on a key conflict, an order;   *)
(* the processor locks an order and then its invoice.  The opposite orders *)
(* never meet: no call waits for a handler that itself waits for a call.   *)
NoLockCycle ==
  \A r, s \in Requests, h \in Handlers :
    ~(CallBlockedBy(r, h) /\ WorkBlockedBy(h, s))

(* An order never changes its invoice, a FAILED or REFUNDED order never    *)
(* revives, and an applied event is never forgotten.                       *)
HistoryKept ==
  [][/\ \A o \in Orders : target[o] # None => target'[o] = target[o]
     /\ \A o \in Orders : status[o] \in {"FAILED", "REFUNDED"} => status'[o] = status[o]
     /\ claimed \subseteq claimed']_vars

(* The program implements the promise of InvoiceSettlement.                *)
ImplementsSettlement == Settlement!Spec

(* A delivery the gateway keeps repeating is not starved, and a            *)
(* transaction that can take its next step takes it.                       *)
Fairness ==
  /\ \A e \in Events : SF_vars(\E h \in Handlers : Deliver(h, e))
  /\ \A r \in Requests : WF_vars(CreateInserted(r) \/ CreateClashed(r))
  /\ \A h \in Handlers :
       /\ SF_vars(ProcessDuplicate(h) \/ ProcessRejected(h) \/ ProcessApplies(h))
       /\ SF_vars(ProcessCommits(h))
       /\ SF_vars(MarkFailed(h))

FairSpec == Spec /\ Fairness

Reported(o, outcome) == \E e \in sent : OrderOf(e) = o /\ OutcomeOf(e) = outcome

(* A capture and a refund that overtake each other on the wire, and are    *)
(* rejected, retried or lost in a crash on the way, still both take effect *)
(* in the end, unless a failure report of the order was applied first.     *)
RefundsArrive ==
  \A o \in Orders :
    Reported(o, "REFUNDED") ~> status[o] \in {"REFUNDED", "FAILED"}

(* Every capture reported takes effect, unless a failure report came first.*)
CapturesArrive ==
  \A o \in Orders :
    Reported(o, "CAPTURED") ~> status[o] \in {"CAPTURED", "REFUNDED", "FAILED"}
=============================================================================
