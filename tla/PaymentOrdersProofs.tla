------------------------- MODULE PaymentOrdersProofs -------------------------
(***************************************************************************)
(* PaymentOrders implements InvoiceSettlement, for any number of payers,   *)
(* keys, invoices, concurrent calls and webhook handlers.                  *)
(*                                                                         *)
(* The inductive invariant adds to the promise what each transaction knows *)
(* at the control point it has reached: a call that holds an invoice knows *)
(* it is due and free (HoldInv), a handler that holds an order knows its   *)
(* transition is still allowed (ApplyInv), and neither shares its row.     *)
(***************************************************************************)
EXTENDS PaymentOrders, TLAPS

OrderStatuses == {"NONE", "CREATED", "CAPTURED", "FAILED", "REFUNDED"}

TargetKnown == Settlement!TargetKnown

(* A call that holds its invoice found it due and without an active order, *)
(* and no other call can have changed that.                                *)
HoldInv ==
  /\ \A r \in Requests : call[r] = "holding" =>
       /\ askedOrder[r] \in Orders
       /\ askedInvoice[r] \in Invoices
       /\ invoice[askedInvoice[r]] = "ISSUED"
       /\ \A o \in Orders : target[o] = askedInvoice[r] => status[o] # "CREATED"
  /\ \A r, s \in Requests :
       call[r] = "holding" /\ call[s] = "holding" /\ askedInvoice[r] = askedInvoice[s]
         => r = s

(* A handler that holds its order found the transition allowed and the     *)
(* event unclaimed, and no other handler holds the same order.             *)
ApplyInv ==
  /\ \A h \in Handlers : work[h] # "idle" => handled[h] \in Events
  /\ \A h \in Handlers : work[h] = "applying" =>
       /\ Allowed(status[OrderOf(handled[h])], OutcomeOf(handled[h]))
       /\ handled[h] \notin claimed
  /\ \A g, h \in Handlers :
       work[g] = "applying" /\ work[h] = "applying" /\ OrderOf(handled[g]) = OrderOf(handled[h])
         => g = h

RowsInv == TypeOK /\ TargetKnown /\ OneLiveOrder /\ PaidIffCaptured

OrdersInv == RowsInv /\ HoldInv /\ ApplyInv

-----------------------------------------------------------------------------
LEMMA EventParts ==
  ASSUME NEW e \in Events
  PROVE  OrderOf(e) \in Orders /\ OutcomeOf(e) \in Outcomes
BY DEF Events, OrderOf, OutcomeOf

(* The initial states of the two specifications are the same.              *)
LEMMA InitRefines == Init => Settlement!Init
BY DEF Init, Settlement!Init, CollectedBefore, WasCollected, Settlement!CollectedBefore

LEMMA InitOrdersInv == Init => OrdersInv
<1> SUFFICES ASSUME Init PROVE OrdersInv
  OBVIOUS
<1>1. \A o \in Orders, i \in Invoices : CollectedBefore(o, i) =>
         (CHOOSE j \in Invoices : CollectedBefore(o, j)) = i
  <2> SUFFICES ASSUME NEW o \in Orders, NEW i \in Invoices, CollectedBefore(o, i)
               PROVE  (CHOOSE j \in Invoices : CollectedBefore(o, j)) = i
    OBVIOUS
  <2>1. \A j \in Invoices : CollectedBefore(o, j) => j = i
    BY PaymentAssumption, SMT DEF CollectedBefore
  <2> QED BY <2>1
<1>2. \A o \in Orders : WasCollected(o) =>
        /\ target[o] \in Invoices
        /\ CollectedBefore(o, target[o])
        /\ status[o] = "CAPTURED"
  BY <1>1 DEF Init, WasCollected
<1>3. \A o \in Orders : ~WasCollected(o) => target[o] = None /\ status[o] = "NONE"
  BY DEF Init
<1>4. TypeOK
  <2>1. invoice \in [Invoices -> {"ISSUED", "PAID"}]
    BY DEF Init
  <2>2. /\ target \in [Orders -> Invoices \cup {None}]
        /\ status \in [Orders -> OrderStatuses]
    <3>1. \A o \in Orders : target[o] \in Invoices \cup {None} /\ status[o] \in OrderStatuses
      BY <1>2, <1>3 DEF OrderStatuses
    <3>2. /\ target = [o \in Orders |-> target[o]]
          /\ status = [o \in Orders |-> status[o]]
      BY DEF Init
    <3> QED BY <3>1, <3>2
  <2>3. crashes \in 0..MaxCrashes
    BY PaymentAssumption DEF Init
  <2>4. sent \subseteq Events /\ claimed \subseteq Events
    BY DEF Init
  <2>5. receipt \in [Events -> {"NONE", "RECEIVED", "PROCESSED", "FAILED"}]
    BY DEF Init
  <2>6. /\ call \in [Requests -> {"idle", "holding", "done"}]
        /\ askedOrder \in [Requests -> Orders \cup {None}]
        /\ askedInvoice \in [Requests -> Invoices \cup {None}]
        /\ reply \in [Requests -> Orders \cup {None}]
    BY DEF Init
  <2>7. /\ work \in [Handlers -> {"idle", "received", "applying", "failing"}]
        /\ handled \in [Handlers -> Events \cup {None}]
    BY DEF Init
  <2> QED BY <2>1, <2>2, <2>3, <2>4, <2>5, <2>6, <2>7 DEF TypeOK, OrderStatuses
<1>5. TargetKnown
  BY <1>2, <1>3, PaymentAssumption DEF TargetKnown, Settlement!TargetKnown
<1>6. OneLiveOrder
  <2> SUFFICES ASSUME NEW o \in Orders, NEW p \in Orders,
                      target[o] = target[p],
                      status[o] \in Settlement!Live, status[p] \in Settlement!Live
               PROVE  o = p
    BY DEF OneLiveOrder, Settlement!OneLiveOrder
  <2>1. CollectedBefore(o, target[o]) /\ CollectedBefore(p, target[o])
    BY <1>2, <1>3 DEF Settlement!Live
  <2>2. <<o, target[o]>> = <<p, target[o]>>
    BY <2>1, PaymentAssumption DEF CollectedBefore
  <2> QED BY <2>2
<1>7. PaidIffCaptured
  <2> SUFFICES ASSUME NEW i \in Invoices
               PROVE  invoice[i] = "PAID" <=>
                        \E o \in Orders : target[o] = i /\ status[o] = "CAPTURED"
    BY DEF PaidIffCaptured, Settlement!PaidIffCaptured
  <2>1. invoice[i] = "PAID" <=> \E o \in Orders : CollectedBefore(o, i)
    BY DEF Init
  <2>2. \A o \in Orders : CollectedBefore(o, i) <=> target[o] = i /\ status[o] = "CAPTURED"
    <3> TAKE o \in Orders
    <3>1. ASSUME CollectedBefore(o, i) PROVE target[o] = i /\ status[o] = "CAPTURED"
      <4>1. WasCollected(o)
        BY <3>1 DEF WasCollected
      <4> QED BY <3>1, <4>1, <1>1 DEF Init
    <3>2. ASSUME target[o] = i, status[o] = "CAPTURED" PROVE CollectedBefore(o, i)
      BY <3>2, <1>2, <1>3
    <3> QED BY <3>1, <3>2
  <2> QED BY <2>1, <2>2
<1>8. HoldInv /\ ApplyInv
  BY DEF Init, HoldInv, ApplyInv
<1> QED BY <1>4, <1>5, <1>6, <1>7, <1>8 DEF OrdersInv, RowsInv
-----------------------------------------------------------------------------
(* What the actions change, one fact per group of actions.                 *)

RowsKept == UNCHANGED <<invoice, target, status>>

(* The four ways a call ends, or starts to wait, without touching a row.   *)
LEMMA QuietCallStep ==
  ASSUME OrdersInv, NEW r \in Requests, NEW o \in Orders, NEW i \in Invoices,
         CreateRepeated(r, o, i) \/ CreateNotPayable(r, o, i) \/ CreateJoined(r, o, i)
  PROVE  OrdersInv' /\ RowsKept
<1>1. PICK a \in Orders \cup {None} : Ask(r, o, i, "done", a)
  <2>1. CASE CreateRepeated(r, o, i)
    BY <2>1 DEF CreateRepeated
  <2>2. CASE CreateNotPayable(r, o, i)
    BY <2>2 DEF CreateNotPayable
  <2>3. CASE CreateJoined(r, o, i)
    BY <2>3 DEF CreateJoined, ActiveOrders
  <2> QED BY <2>1, <2>2, <2>3
<1>2. UNCHANGED <<rows, webhookRows, workVars, crashes>>
  BY DEF CreateRepeated, CreateNotPayable, CreateJoined
<1>3. RowsKept
  BY <1>2 DEF rows, RowsKept
<1>4. RowsInv'
  BY <1>1, <1>2 DEF OrdersInv, RowsInv, TypeOK, TargetKnown, OneLiveOrder, PaidIffCaptured,
     Settlement!TargetKnown, Settlement!OneLiveOrder, Settlement!PaidIffCaptured, Ask,
     rows, webhookRows, workVars
<1>5. HoldInv'
  BY <1>1, <1>2 DEF OrdersInv, RowsInv, HoldInv, TypeOK, Ask, rows
<1>6. ApplyInv'
  BY <1>2 DEF OrdersInv, ApplyInv, rows, webhookRows, workVars
<1> QED BY <1>3, <1>4, <1>5, <1>6 DEF OrdersInv

(* A call that takes the lock has seen the invoice due and free.           *)
LEMMA LockStep ==
  ASSUME OrdersInv, NEW r \in Requests, NEW o \in Orders, NEW i \in Invoices,
         CreateLocked(r, o, i)
  PROVE  OrdersInv' /\ RowsKept
<1> USE DEF CreateLocked
<1>1. RowsKept
  BY DEF rows, RowsKept
<1>2. RowsInv'
  BY DEF OrdersInv, RowsInv, TypeOK, TargetKnown, OneLiveOrder, PaidIffCaptured,
     Settlement!TargetKnown, Settlement!OneLiveOrder, Settlement!PaidIffCaptured, Ask,
     rows, webhookRows, workVars
<1>3. HoldInv'
  BY DEF OrdersInv, RowsInv, HoldInv, TypeOK, Ask, rows, MayCall, InvoiceLocked, ActiveOrders
<1>4. ApplyInv'
  BY DEF OrdersInv, ApplyInv, rows, webhookRows, workVars
<1> QED BY <1>1, <1>2, <1>3, <1>4 DEF OrdersInv

(* An INSERT opens an order on an invoice no live order targets.           *)
LEMMA InsertStep ==
  ASSUME OrdersInv, NEW r \in Requests, CreateInserted(r)
  PROVE  OrdersInv' /\ Settlement!Open(askedOrder[r], askedInvoice[r])
         /\ askedOrder[r] \in Orders /\ askedInvoice[r] \in Invoices
<1> DEFINE o == askedOrder[r]
           i == askedInvoice[r]
<1>1. /\ o \in Orders
      /\ i \in Invoices
      /\ invoice[i] = "ISSUED"
      /\ status[o] = "NONE"
      /\ \A p \in Orders : target[p] = i => status[p] \notin {"CREATED", "CAPTURED"}
  BY DEF CreateInserted, OrdersInv, RowsInv, HoldInv, PaidIffCaptured, Settlement!PaidIffCaptured
<1>2. Settlement!Open(o, i)
  BY <1>1 DEF CreateInserted, Settlement!Open, Settlement!Live
<1>3. TypeOK'
  BY <1>1 DEF OrdersInv, RowsInv, TypeOK, CreateInserted, Ask, webhookRows, workVars
<1>4. (TargetKnown /\ OneLiveOrder /\ PaidIffCaptured)'
  BY <1>1, PaymentAssumption DEF CreateInserted, OrdersInv, RowsInv, TypeOK, TargetKnown, OneLiveOrder, PaidIffCaptured,
     Settlement!TargetKnown, Settlement!OneLiveOrder, Settlement!PaidIffCaptured, Settlement!Live
<1>5. HoldInv'
  BY <1>1 DEF OrdersInv, RowsInv, HoldInv, TypeOK, Ask, CreateInserted
<1>6. ApplyInv'
  <2>1. \A h \in Handlers : work[h] = "applying" => OrderOf(handled[h]) # o
    BY <1>1 DEF OrdersInv, ApplyInv, Allowed
  <2>2. \A h \in Handlers : work[h] = "applying" => OrderOf(handled[h]) \in Orders
    BY EventParts DEF OrdersInv, ApplyInv
  <2> QED BY <2>1, <2>2 DEF OrdersInv, RowsInv, TypeOK, ApplyInv, CreateInserted, webhookRows, workVars
<1> QED BY <1>1, <1>2, <1>3, <1>4, <1>5, <1>6 DEF OrdersInv, RowsInv

(* A clash or a lost connection only releases the invoice.                 *)
LEMMA ReleaseStep ==
  ASSUME OrdersInv, NEW r \in Requests, CreateClashed(r) \/ CreateLost(r)
  PROVE  OrdersInv' /\ RowsKept
<1>1. /\ askedOrder[r] \in Orders
      /\ askedInvoice[r] \in Invoices
  BY DEF OrdersInv, HoldInv, CreateClashed, CreateLost
<1>2. CASE CreateClashed(r)
  <2>1. RowsKept /\ TypeOK'
    BY <1>1, <1>2 DEF OrdersInv, RowsInv, TypeOK, CreateClashed, Ask, rows, webhookRows, workVars, RowsKept
  <2>2. HoldInv'
    BY <1>1, <1>2 DEF OrdersInv, RowsInv, TypeOK, HoldInv, CreateClashed, Ask, rows
  <2>3. ApplyInv'
    BY <1>2 DEF OrdersInv, ApplyInv, CreateClashed, rows, webhookRows, workVars
  <2> QED BY <2>1, <2>2, <2>3 DEF OrdersInv, RowsInv, RowsKept, TargetKnown, OneLiveOrder, PaidIffCaptured,
       Settlement!TargetKnown, Settlement!OneLiveOrder, Settlement!PaidIffCaptured
<1>3. CASE CreateLost(r)
  <2>1. RowsKept /\ TypeOK'
    BY <1>1, <1>3, PaymentAssumption DEF OrdersInv, RowsInv, TypeOK, CreateLost, rows, webhookRows, workVars, RowsKept
  <2>2. HoldInv'
    BY <1>1, <1>3 DEF OrdersInv, RowsInv, TypeOK, HoldInv, CreateLost, rows
  <2>3. ApplyInv'
    BY <1>3 DEF OrdersInv, ApplyInv, CreateLost, rows, webhookRows, workVars
  <2> QED BY <2>1, <2>2, <2>3 DEF OrdersInv, RowsInv, RowsKept, TargetKnown, OneLiveOrder, PaidIffCaptured,
       Settlement!TargetKnown, Settlement!OneLiveOrder, Settlement!PaidIffCaptured
<1> QED BY <1>2, <1>3
(* The gateway and the handlers' steps that only read rows.                *)
LEMMA QuietWorkStep ==
  ASSUME OrdersInv,
         \/ \E e \in Events : GatewayEmits(e)
         \/ \E h \in Handlers : \/ \E e \in Events : Deliver(h, e) \/ Replay(h, e)
                               \/ ProcessDuplicate(h)
                               \/ ProcessRejected(h)
                               \/ MarkFailed(h)
                               \/ HandlerLost(h)
  PROVE  OrdersInv' /\ RowsKept
<1>1. /\ UNCHANGED <<invoice, target, status, claimed>>
      /\ UNCHANGED <<call, askedOrder, askedInvoice, reply>>
      /\ TypeOK'
  <2>1. CASE \E e \in Events : GatewayEmits(e)
    BY <2>1 DEF OrdersInv, RowsInv, TypeOK, GatewayEmits, rows, callVars, workVars
  <2>2. ASSUME NEW h \in Handlers, NEW e \in Events, Deliver(h, e)
        PROVE  <1>1!1 /\ <1>1!2 /\ <1>1!3
    BY <2>2 DEF OrdersInv, RowsInv, TypeOK, Deliver, Hand, rows, callVars
  <2>3. ASSUME NEW h \in Handlers, NEW e \in Events, Replay(h, e)
        PROVE  <1>1!1 /\ <1>1!2 /\ <1>1!3
    BY <2>3 DEF OrdersInv, RowsInv, TypeOK, Replay, Hand, rows, webhookRows, callVars
  <2>4. ASSUME NEW h \in Handlers, ProcessDuplicate(h)
        PROVE  <1>1!1 /\ <1>1!2 /\ <1>1!3
    BY <2>4 DEF OrdersInv, RowsInv, TypeOK, ProcessDuplicate, Hand, rows, callVars
  <2>5. ASSUME NEW h \in Handlers, ProcessRejected(h)
        PROVE  <1>1!1 /\ <1>1!2 /\ <1>1!3
    BY <2>5 DEF OrdersInv, RowsInv, TypeOK, ApplyInv, ProcessRejected, Fresh, MayProcess, Hand, rows, webhookRows, callVars
  <2>6. ASSUME NEW h \in Handlers, MarkFailed(h)
        PROVE  <1>1!1 /\ <1>1!2 /\ <1>1!3
    BY <2>6 DEF OrdersInv, RowsInv, TypeOK, MarkFailed, Hand, rows, callVars
  <2>7. ASSUME NEW h \in Handlers, HandlerLost(h)
        PROVE  <1>1!1 /\ <1>1!2 /\ <1>1!3
    BY <2>7, PaymentAssumption DEF OrdersInv, RowsInv, TypeOK, HandlerLost, Hand, rows, webhookRows, callVars
  <2> QED BY <2>1, <2>2, <2>3, <2>4, <2>5, <2>6, <2>7
<1>2. HoldInv'
  BY <1>1 DEF OrdersInv, HoldInv
<1>3. \A h \in Handlers : work'[h] # "idle" =>
        /\ handled'[h] \in Events
        /\ work'[h] = "applying" => work[h] = "applying" /\ handled'[h] = handled[h]
  BY DEF OrdersInv, RowsInv, TypeOK, ApplyInv, GatewayEmits, Deliver, Replay, ProcessDuplicate,
     ProcessRejected, Fresh, MayProcess, MarkFailed, HandlerLost, Hand, workVars
<1>4. ApplyInv'
  BY <1>1, <1>3 DEF OrdersInv, ApplyInv
<1> QED BY <1>1, <1>2, <1>4 DEF OrdersInv, RowsInv, RowsKept, TargetKnown, OneLiveOrder, PaidIffCaptured,
     Settlement!TargetKnown, Settlement!OneLiveOrder, Settlement!PaidIffCaptured

(* A handler that starts to apply an event takes a free order.             *)
LEMMA ApplyStep ==
  ASSUME OrdersInv, NEW h \in Handlers, ProcessApplies(h)
  PROVE  OrdersInv' /\ RowsKept
<1> USE DEF ProcessApplies, Fresh, MayProcess, Hand
<1>1. handled[h] \in Events
  BY DEF OrdersInv, ApplyInv
<1>2. RowsKept /\ TypeOK'
  BY <1>1 DEF OrdersInv, RowsInv, TypeOK, rows, webhookRows, callVars, RowsKept
<1>3. HoldInv'
  BY DEF OrdersInv, HoldInv, rows, callVars
<1>4. ApplyInv'
  BY <1>1 DEF OrdersInv, RowsInv, TypeOK, ApplyInv, OrderLocked, rows, webhookRows
<1> QED BY <1>2, <1>3, <1>4 DEF OrdersInv, RowsInv, RowsKept, TargetKnown, OneLiveOrder, PaidIffCaptured,
     Settlement!TargetKnown, Settlement!OneLiveOrder, Settlement!PaidIffCaptured

(* A commit is exactly one step of the promise.                            *)
LEMMA CommitStep ==
  ASSUME OrdersInv, NEW h \in Handlers, ProcessCommits(h)
  PROVE  /\ OrdersInv'
         /\ OrderOf(handled[h]) \in Orders
         /\ \/ Settlement!Capture(OrderOf(handled[h]))
            \/ Settlement!Fail(OrderOf(handled[h]))
            \/ Settlement!Refund(OrderOf(handled[h]))
<1> DEFINE e == handled[h]
           o == OrderOf(e)
           i == target[o]
<1>1. /\ e \in Events
      /\ o \in Orders
      /\ OutcomeOf(e) \in Outcomes
      /\ Allowed(status[o], OutcomeOf(e))
  BY EventParts DEF OrdersInv, ApplyInv, ProcessCommits
<1>2. i \in Invoices
  BY <1>1 DEF OrdersInv, RowsInv, TypeOK, TargetKnown, Settlement!TargetKnown, Allowed
<1>3. /\ status[o] = "CREATED" => invoice[i] = "ISSUED"
      /\ status[o] = "CAPTURED" => invoice[i] = "PAID"
  <2>1. ASSUME status[o] = "CREATED" PROVE invoice[i] # "PAID"
    <3>1. \A p \in Orders : target[p] = i /\ status[p] = "CAPTURED" => p = o
      BY <1>1, <2>1 DEF OrdersInv, RowsInv, OneLiveOrder, Settlement!OneLiveOrder, Settlement!Live
    <3> QED BY <1>2, <2>1, <3>1 DEF OrdersInv, RowsInv, PaidIffCaptured, Settlement!PaidIffCaptured
  <2> QED BY <1>1, <1>2, <2>1 DEF OrdersInv, RowsInv, TypeOK, PaidIffCaptured, Settlement!PaidIffCaptured
<1>4. /\ target' = target
      /\ status' = [status EXCEPT ![o] = OutcomeOf(e)]
      /\ \/ /\ OutcomeOf(e) = "CAPTURED" /\ status[o] = "CREATED"
            /\ invoice' = [invoice EXCEPT ![i] = "PAID"]
         \/ /\ OutcomeOf(e) = "FAILED" /\ status[o] = "CREATED"
            /\ invoice' = invoice
         \/ /\ OutcomeOf(e) = "REFUNDED" /\ status[o] = "CAPTURED"
            /\ invoice' = [invoice EXCEPT ![i] = "ISSUED"]
  <2>1. /\ target' = target
        /\ status' = [status EXCEPT ![o] = OutcomeOf(e)]
        /\ invoice' = [invoice EXCEPT ![i] = InvoiceAfter(i, OutcomeOf(e))]
    BY DEF ProcessCommits
  <2>2. CASE OutcomeOf(e) = "CAPTURED"
    BY <1>1, <1>3, <2>1, <2>2 DEF InvoiceAfter, Allowed
  <2>3. CASE OutcomeOf(e) = "FAILED"
    BY <1>1, <1>2, <1>3, <2>1, <2>3 DEF InvoiceAfter, Allowed, OrdersInv, RowsInv, TypeOK
  <2>4. CASE OutcomeOf(e) = "REFUNDED"
    BY <1>1, <1>3, <2>1, <2>4 DEF InvoiceAfter, Allowed
  <2> QED BY <1>1, <2>2, <2>3, <2>4 DEF Outcomes
<1>5. Settlement!Capture(o) \/ Settlement!Fail(o) \/ Settlement!Refund(o)
  BY <1>4 DEF Settlement!Capture, Settlement!Fail, Settlement!Refund
<1>6. TypeOK'
  <2>1. /\ invoice' \in [Invoices -> {"ISSUED", "PAID"}]
        /\ target' \in [Orders -> Invoices \cup {None}]
        /\ status' \in [Orders -> {"NONE", "CREATED", "CAPTURED", "FAILED", "REFUNDED"}]
    BY <1>1, <1>4 DEF OrdersInv, RowsInv, TypeOK, Outcomes
  <2> QED BY <1>1, <2>1 DEF OrdersInv, RowsInv, TypeOK, ProcessCommits, Hand, callVars
<1>7. (TargetKnown /\ OneLiveOrder /\ PaidIffCaptured)'
  BY <1>1, <1>2, <1>4, PaymentAssumption DEF OrdersInv, RowsInv, TypeOK, TargetKnown, OneLiveOrder, PaidIffCaptured,
     Settlement!TargetKnown, Settlement!OneLiveOrder, Settlement!PaidIffCaptured, Settlement!Live
<1>8. HoldInv'
  <2>1. \A r \in Requests : call[r] = "holding" => askedInvoice[r] # i \/ invoice' = invoice
    BY <1>1, <1>4 DEF ProcessCommits, InvoiceLocked
  <2>2. UNCHANGED <<call, askedOrder, askedInvoice>>
    BY DEF ProcessCommits, callVars
  <2>3. \A p \in Orders : status'[p] = "CREATED" => status[p] = "CREATED"
    BY <1>1, <1>4 DEF OrdersInv, RowsInv, TypeOK
  <2>4. \A j \in Invoices : j # i \/ invoice' = invoice => invoice'[j] = invoice[j]
    BY <1>4 DEF OrdersInv, RowsInv, TypeOK
  <2> QED BY <1>4, <2>1, <2>2, <2>3, <2>4 DEF OrdersInv, HoldInv
<1>9. ApplyInv'
  <2>1. \A g \in Handlers : work'[g] # "idle" => g # h /\ work'[g] = work[g] /\ handled'[g] = handled[g]
    BY DEF OrdersInv, RowsInv, TypeOK, ProcessCommits, Hand
  <2>2. \A g \in Handlers : work'[g] = "applying" => OrderOf(handled[g]) # o /\ handled[g] # e
    BY <2>1 DEF OrdersInv, ApplyInv, ProcessCommits
  <2>3. \A p \in Orders : p # o => status'[p] = status[p]
    BY <1>4 DEF OrdersInv, RowsInv, TypeOK
  <2>4. claimed' = claimed \cup {e}
    BY DEF ProcessCommits
  <2>5. \A g \in Handlers : work'[g] = "applying" =>
          /\ Allowed(status'[OrderOf(handled'[g])], OutcomeOf(handled'[g]))
          /\ handled'[g] \notin claimed'
    <3> SUFFICES ASSUME NEW g \in Handlers, work'[g] = "applying"
                 PROVE  /\ Allowed(status'[OrderOf(handled'[g])], OutcomeOf(handled'[g]))
                        /\ handled'[g] \notin claimed'
      OBVIOUS
    <3>1. work[g] = "applying" /\ handled'[g] = handled[g] /\ handled[g] \in Events
      BY <2>1 DEF OrdersInv, ApplyInv
    <3>2. OrderOf(handled[g]) \in Orders
      BY <3>1, EventParts
    <3>3. status'[OrderOf(handled[g])] = status[OrderOf(handled[g])]
      BY <2>2, <2>3, <3>2
    <3>4. Allowed(status[OrderOf(handled[g])], OutcomeOf(handled[g])) /\ handled[g] \notin claimed
      BY <3>1 DEF OrdersInv, ApplyInv
    <3> QED BY <2>2, <2>4, <3>1, <3>3, <3>4
  <2> QED BY <2>1, <2>5 DEF OrdersInv, ApplyInv
<1> QED BY <1>1, <1>5, <1>6, <1>7, <1>8, <1>9 DEF OrdersInv, RowsInv

-----------------------------------------------------------------------------
(* Every step keeps the invariant, and is a step of the promise or leaves  *)
(* its three variables alone.                                              *)
LEMMA StepRefines ==
  OrdersInv /\ [Next]_vars => OrdersInv' /\ [Settlement!Next]_<<invoice, target, status>>
<1> SUFFICES ASSUME OrdersInv, [Next]_vars
             PROVE  OrdersInv' /\ (Settlement!Next \/ RowsKept)
  BY DEF RowsKept
<1>1. ASSUME NEW r \in Requests, RequestStep(r)
      PROVE  OrdersInv' /\ (Settlement!Next \/ RowsKept)
  <2>1. ASSUME NEW o \in Orders, NEW i \in Invoices,
               CreateRepeated(r, o, i) \/ CreateNotPayable(r, o, i) \/ CreateJoined(r, o, i)
        PROVE  OrdersInv' /\ RowsKept
    BY <2>1, QuietCallStep
  <2>2. ASSUME NEW o \in Orders, NEW i \in Invoices, CreateLocked(r, o, i)
        PROVE  OrdersInv' /\ RowsKept
    BY <2>2, LockStep
  <2>3. CASE CreateInserted(r)
    BY <2>3, InsertStep DEF Settlement!Next
  <2>4. CASE CreateClashed(r) \/ CreateLost(r)
    BY <2>4, ReleaseStep
  <2> QED BY <1>1, <2>1, <2>2, <2>3, <2>4 DEF RequestStep
<1>2. ASSUME NEW h \in Handlers, HandlerStep(h)
      PROVE  OrdersInv' /\ (Settlement!Next \/ RowsKept)
  <2>1. CASE ProcessApplies(h)
    BY <2>1, ApplyStep
  <2>2. CASE ProcessCommits(h)
    BY <2>2, CommitStep DEF Settlement!Next
  <2>3. CASE \/ \E e \in Events : Deliver(h, e) \/ Replay(h, e)
             \/ ProcessDuplicate(h) \/ ProcessRejected(h) \/ MarkFailed(h) \/ HandlerLost(h)
    BY <2>3, QuietWorkStep
  <2> QED BY <1>2, <2>1, <2>2, <2>3 DEF HandlerStep
<1>3. CASE \E e \in Events : GatewayEmits(e)
  BY <1>3, QuietWorkStep
<1>4. CASE UNCHANGED vars
  BY <1>4 DEF vars, rows, webhookRows, callVars, workVars, RowsKept, OrdersInv, RowsInv, TypeOK, HoldInv, ApplyInv,
     TargetKnown, OneLiveOrder, PaidIffCaptured,
     Settlement!TargetKnown, Settlement!OneLiveOrder, Settlement!PaidIffCaptured
<1> QED BY <1>1, <1>2, <1>3, <1>4 DEF Next

LEMMA OrdersInvariant == Spec => []OrdersInv
<1>1. OrdersInv /\ [Next]_vars => OrdersInv'
  BY StepRefines
<1> QED BY InitOrdersInv, <1>1, PTL DEF Spec

(* Type correctness of every reachable state.                              *)
THEOREM TypeCorrect == Spec => []TypeOK
<1>1. OrdersInv => TypeOK
  BY DEF OrdersInv, RowsInv
<1> QED BY OrdersInvariant, <1>1, PTL

(* However createPayment calls and webhooks interleave, crash and repeat,  *)
(* no two orders ever collect or hold the money of one invoice.            *)
THEOREM NoDoubleCollection == Spec => []OneLiveOrder
<1>1. OrdersInv => OneLiveOrder
  BY DEF OrdersInv, RowsInv
<1> QED BY OrdersInvariant, <1>1, PTL

(* ... and an invoice is PAID exactly while its money is held.             *)
THEOREM PaidMatchesMoney == Spec => []PaidIffCaptured
<1>1. OrdersInv => PaidIffCaptured
  BY DEF OrdersInv, RowsInv
<1> QED BY OrdersInvariant, <1>1, PTL

(* PaymentOrders implements InvoiceSettlement.                             *)
THEOREM Implements == Spec => ImplementsSettlement
<1>1. Init => Settlement!Init
  BY InitRefines
<1>2. OrdersInv /\ [Next]_vars => [Settlement!Next]_(Settlement!vars)
  BY StepRefines DEF Settlement!vars
<1> QED BY OrdersInvariant, <1>1, <1>2, PTL DEF Spec, ImplementsSettlement, Settlement!Spec
-----------------------------------------------------------------------------
(* Neither side of a possible deadlock exists: an invoice a handler needs  *)
(* is never held, since a call keeps its lock only on a due invoice        *)
(* without an active order.                                                *)
THEOREM LockOrderSafe == Spec => []NoLockCycle
<1>1. OrdersInv => NoLockCycle
  <2> SUFFICES ASSUME OrdersInv, NEW h \in Handlers, NEW s \in Requests, WorkBlockedBy(h, s)
               PROVE  FALSE
    BY DEF NoLockCycle
  <2> DEFINE o == OrderOf(handled[h])
  <2>1. /\ o \in Orders
        /\ OutcomeOf(handled[h]) \in {"CAPTURED", "REFUNDED"}
        /\ Allowed(status[o], OutcomeOf(handled[h]))
    BY EventParts DEF WorkBlockedBy, OrdersInv, ApplyInv, Outcomes
  <2>2. /\ target[o] \in Invoices
        /\ invoice[target[o]] = "ISSUED"
        /\ status[o] # "CREATED"
    BY <2>1 DEF WorkBlockedBy, OrdersInv, HoldInv
  <2>3. status[o] # "CAPTURED"
    BY <2>1, <2>2 DEF OrdersInv, RowsInv, PaidIffCaptured, Settlement!PaidIffCaptured
  <2> QED BY <2>1, <2>2, <2>3 DEF Allowed
<1> QED BY OrdersInvariant, <1>1, PTL

-----------------------------------------------------------------------------
(* Events: what a claimed event did is still visible, a PROCESSED receipt  *)
(* has its claim, and no report is claimed twice.                          *)
EventsInv ==
  /\ \A e \in claimed : status[OrderOf(e)] \in Reached(OutcomeOf(e))
  /\ \A e \in Events : receipt[e] = "PROCESSED" => e \in claimed
  /\ AppliedOnce

LEMMA InitEventsInv == Init => EventsInv
<1> SUFFICES ASSUME Init PROVE EventsInv
  OBVIOUS
<1>1. \A e \in claimed : /\ OrderOf(e) \in Orders
                         /\ OutcomeOf(e) = "CAPTURED"
                         /\ WasCollected(OrderOf(e))
  BY EventParts DEF Init
<1>2. \A e \in claimed : status[OrderOf(e)] \in Reached(OutcomeOf(e))
  BY <1>1 DEF Init, Reached
<1>3. \A e \in Events : receipt[e] = "PROCESSED" => e \in claimed
  BY DEF Init
<1>4. AppliedOnce
  BY <1>1 DEF AppliedOnce
<1> QED BY <1>2, <1>3, <1>4 DEF EventsInv

LEMMA NextEventsInv == OrdersInv /\ EventsInv /\ [Next]_vars => EventsInv'
<1> SUFFICES ASSUME OrdersInv, EventsInv, [Next]_vars PROVE EventsInv'
  OBVIOUS
<1>1. ASSUME NEW h \in Handlers, ProcessCommits(h) PROVE EventsInv'
  <2> DEFINE e == handled[h]
             o == OrderOf(e)
  <2>1. /\ e \in Events /\ o \in Orders /\ OutcomeOf(e) \in Outcomes
        /\ Allowed(status[o], OutcomeOf(e))
        /\ status' = [status EXCEPT ![o] = OutcomeOf(e)]
        /\ claimed' = claimed \cup {e}
        /\ receipt' = [receipt EXCEPT ![e] = "PROCESSED"]
    BY <1>1, EventParts DEF ProcessCommits, OrdersInv, ApplyInv
  <2>2. \A f \in claimed : f \in Events /\ OrderOf(f) \in Orders /\ OutcomeOf(f) \in Outcomes
    BY EventParts DEF OrdersInv, RowsInv, TypeOK
  <2>3. \A f \in claimed : OrderOf(f) = o =>
          /\ status[o] = "CAPTURED" /\ OutcomeOf(e) = "REFUNDED"
          /\ OutcomeOf(f) = "CAPTURED"
    BY <2>1, <2>2 DEF EventsInv, Reached, Allowed, Outcomes
  <2>4. \A f \in claimed' : status'[OrderOf(f)] \in Reached(OutcomeOf(f))
    <3> SUFFICES ASSUME NEW f \in claimed'
                 PROVE  status'[OrderOf(f)] \in Reached(OutcomeOf(f))
      OBVIOUS
    <3>1. CASE f = e
      BY <2>1, <3>1 DEF Reached, Outcomes, OrdersInv, RowsInv, TypeOK
    <3>2. CASE f \in claimed /\ OrderOf(f) = o
      BY <2>1, <2>3, <3>2 DEF Reached, OrdersInv, RowsInv, TypeOK
    <3>3. CASE f \in claimed /\ OrderOf(f) # o
      BY <2>1, <2>2, <3>3 DEF EventsInv, OrdersInv, RowsInv, TypeOK
    <3> QED BY <2>1, <3>1, <3>2, <3>3
  <2>5. \A f \in Events : receipt'[f] = "PROCESSED" => f \in claimed'
    BY <2>1 DEF EventsInv, OrdersInv, RowsInv, TypeOK
  <2>6. AppliedOnce'
    BY <2>1, <2>3 DEF EventsInv, AppliedOnce
  <2> QED BY <2>4, <2>5, <2>6 DEF EventsInv
<1>2. ASSUME NEW r \in Requests, CreateInserted(r) PROVE EventsInv'
  <2>1. \A e \in claimed : status'[OrderOf(e)] = status[OrderOf(e)]
    <3> SUFFICES ASSUME NEW e \in claimed
                 PROVE  status'[OrderOf(e)] = status[OrderOf(e)]
      OBVIOUS
    <3>1. OrderOf(e) \in Orders /\ OutcomeOf(e) \in Outcomes
      BY EventParts DEF OrdersInv, RowsInv, TypeOK
    <3>2. OrderOf(e) # askedOrder[r]
      BY <1>2, <3>1 DEF CreateInserted, EventsInv, Reached, Outcomes
    <3> QED BY <1>2, <3>1, <3>2 DEF CreateInserted, OrdersInv, RowsInv, TypeOK
  <2>2. UNCHANGED <<claimed, receipt>>
    BY <1>2 DEF CreateInserted, webhookRows
  <2> QED BY <2>1, <2>2 DEF EventsInv, AppliedOnce
<1>3. ASSUME NEW h \in Handlers, ProcessDuplicate(h) PROVE EventsInv'
  BY <1>3 DEF ProcessDuplicate, EventsInv, AppliedOnce, OrdersInv, RowsInv, TypeOK, rows
<1>4. ASSUME NEW h \in Handlers, MarkFailed(h) PROVE EventsInv'
  BY <1>4 DEF MarkFailed, EventsInv, AppliedOnce, OrdersInv, RowsInv, TypeOK, rows
<1>5. ASSUME NEW h \in Handlers, NEW e \in Events, Deliver(h, e) PROVE EventsInv'
  BY <1>5 DEF Deliver, EventsInv, AppliedOnce, OrdersInv, RowsInv, TypeOK, rows
<1>6. ASSUME UNCHANGED <<status, claimed, receipt>> PROVE EventsInv'
  BY <1>6 DEF EventsInv, AppliedOnce
<1>7. ASSUME NEW r \in Requests, RequestStep(r) PROVE EventsInv'
  BY <1>2, <1>6, <1>7 DEF RequestStep, CreateRepeated, CreateNotPayable, CreateJoined, CreateLocked,
     CreateClashed, CreateLost, rows, webhookRows
<1>8. ASSUME NEW h \in Handlers, HandlerStep(h) PROVE EventsInv'
  BY <1>1, <1>3, <1>4, <1>5, <1>6, <1>8 DEF HandlerStep, Replay, ProcessRejected, ProcessApplies,
     HandlerLost, rows, webhookRows
<1> QED BY <1>6, <1>7, <1>8 DEF Next, vars, GatewayEmits, rows, webhookRows

LEMMA EventsInvariant == Spec => []EventsInv
<1>1. EventsInv /\ OrdersInv /\ [Next]_vars => EventsInv'
  BY NextEventsInv
<1> QED BY InitEventsInv, <1>1, OrdersInvariant, PTL DEF Spec

(* A receipt is acknowledged for good only once its event took effect.     *)
THEOREM NoEventLost == Spec => []ProcessedMeansApplied
<1>1. EventsInv => ProcessedMeansApplied
  BY DEF EventsInv, ProcessedMeansApplied
<1> QED BY EventsInvariant, <1>1, PTL

(* No report of the gateway is applied twice, whatever its event ids.      *)
THEOREM NoEventTwice == Spec => []AppliedOnce
<1>1. EventsInv => AppliedOnce
  BY DEF EventsInv
<1> QED BY EventsInvariant, <1>1, PTL

-----------------------------------------------------------------------------
(* What an order once was stays true of it, step by step.                  *)
KeepsHistory ==
  /\ \A o \in Orders : target[o] # None => target'[o] = target[o]
  /\ \A o \in Orders : status[o] \in {"FAILED", "REFUNDED"} => status'[o] = status[o]
  /\ claimed \subseteq claimed'

LEMMA StepKeepsHistory == OrdersInv /\ [Next]_vars => KeepsHistory
<1> SUFFICES ASSUME OrdersInv, [Next]_vars PROVE KeepsHistory
  OBVIOUS
<1>1. ASSUME NEW r \in Requests, CreateInserted(r) PROVE KeepsHistory
  <2>1. askedOrder[r] \in Orders /\ target[askedOrder[r]] = None
    BY <1>1 DEF CreateInserted, OrdersInv, RowsInv, HoldInv, TargetKnown, Settlement!TargetKnown
  <2> QED BY <1>1, <2>1 DEF CreateInserted, KeepsHistory, OrdersInv, RowsInv, TypeOK, webhookRows
<1>2. ASSUME NEW h \in Handlers, ProcessCommits(h) PROVE KeepsHistory
  <2>1. Allowed(status[OrderOf(handled[h])], OutcomeOf(handled[h]))
    BY <1>2 DEF ProcessCommits, OrdersInv, ApplyInv
  <2>2. status[OrderOf(handled[h])] \notin {"FAILED", "REFUNDED"}
    BY <2>1 DEF Allowed
  <2> QED BY <1>2, <2>2 DEF ProcessCommits, KeepsHistory, OrdersInv, RowsInv, TypeOK
<1>3. ASSUME UNCHANGED <<rows, claimed>> PROVE KeepsHistory
  BY <1>3 DEF KeepsHistory, rows
<1>4. ASSUME NEW r \in Requests, RequestStep(r) PROVE KeepsHistory
  BY <1>1, <1>3, <1>4 DEF RequestStep, CreateRepeated, CreateNotPayable, CreateJoined, CreateLocked,
     CreateClashed, CreateLost, webhookRows
<1>5. ASSUME NEW h \in Handlers, HandlerStep(h) PROVE KeepsHistory
  BY <1>2, <1>3, <1>5 DEF HandlerStep, Deliver, Replay, ProcessDuplicate, ProcessRejected, ProcessApplies,
     MarkFailed, HandlerLost, webhookRows
<1> QED BY <1>3, <1>4, <1>5 DEF Next, vars, GatewayEmits, webhookRows

(* No interleaving moves an order to another invoice, revives one that     *)
(* failed or was refunded, or forgets an applied event.                    *)
THEOREM HistoryIsKept == Spec => HistoryKept
<1>1. OrdersInv /\ [Next]_vars => [KeepsHistory]_vars
  BY StepKeepsHistory
<1>2. Spec => [][KeepsHistory]_vars
  BY OrdersInvariant, <1>1, PTL DEF Spec
<1> QED BY <1>2 DEF KeepsHistory, HistoryKept

-----------------------------------------------------------------------------
(* An answer names an existing order of the caller, and that order's       *)
(* invoice is the one asked for.                                           *)
ReplyInv ==
  \A r \in Requests : reply[r] # None =>
    /\ Payer(reply[r]) = Payer(askedOrder[r])
    /\ target[reply[r]] = askedInvoice[r]
    /\ target[reply[r]] # None

(* An answer that is correct when it is given.                             *)
GoodAnswer(o, i, a) == a # None => Payer(a) = Payer(o) /\ target'[a] = i /\ i # None

LEMMA AnswerStep ==
  ASSUME OrdersInv, ReplyInv, KeepsHistory, NEW r \in Requests, NEW o, NEW i,
         NEW pc, NEW a \in Orders \cup {None}, Ask(r, o, i, pc, a), GoodAnswer(o, i, a)
  PROVE  ReplyInv'
<1> SUFFICES ASSUME NEW s \in Requests, reply'[s] # None
             PROVE  /\ Payer(reply'[s]) = Payer(askedOrder'[s])
                    /\ target'[reply'[s]] = askedInvoice'[s]
                    /\ target'[reply'[s]] # None
  BY DEF ReplyInv
<1>1. CASE s = r
  BY <1>1 DEF Ask, GoodAnswer, OrdersInv, RowsInv, TypeOK
<1>2. CASE s # r
  <2>1. /\ reply'[s] = reply[s]
        /\ askedOrder'[s] = askedOrder[s]
        /\ askedInvoice'[s] = askedInvoice[s]
        /\ reply[s] \in Orders
    BY <1>2 DEF Ask, OrdersInv, RowsInv, TypeOK
  <2>2. target'[reply[s]] = target[reply[s]]
    BY <2>1 DEF ReplyInv, KeepsHistory
  <2> QED BY <2>1, <2>2 DEF ReplyInv
<1> QED BY <1>1, <1>2

LEMMA NextReplyInv == OrdersInv /\ ReplyInv /\ [Next]_vars => ReplyInv'
<1> SUFFICES ASSUME OrdersInv, ReplyInv, [Next]_vars PROVE ReplyInv'
  OBVIOUS
<1>h. KeepsHistory
  BY StepKeepsHistory
<1>1. ASSUME NEW r \in Requests, NEW o \in Orders, NEW i \in Invoices,
             CreateRepeated(r, o, i)
      PROVE  ReplyInv'
  <2> DEFINE a == IF target[o] = i THEN o ELSE None
  <2>1. a \in Orders \cup {None} /\ Ask(r, o, i, "done", a) /\ target' = target
    BY <1>1 DEF CreateRepeated, rows
  <2>2. GoodAnswer(o, i, a)
    BY <2>1, PaymentAssumption DEF GoodAnswer
  <2> QED BY <2>1, <2>2, <1>h, AnswerStep
<1>2. ASSUME NEW r \in Requests, NEW o \in Orders, NEW i \in Invoices,
             CreateNotPayable(r, o, i) \/ CreateLocked(r, o, i)
      PROVE  ReplyInv'
  <2>1. PICK pc \in {"done", "holding"} : Ask(r, o, i, pc, None)
    BY <1>2 DEF CreateNotPayable, CreateLocked
  <2>2. GoodAnswer(o, i, None)
    BY DEF GoodAnswer
  <2> QED BY <2>1, <2>2, <1>h, AnswerStep
<1>3. ASSUME NEW r \in Requests, NEW o \in Orders, NEW i \in Invoices,
             CreateJoined(r, o, i)
      PROVE  ReplyInv'
  <2>1. PICK p \in ActiveOrders(i) : Ask(r, o, i, "done", IF Payer(p) = Payer(o) THEN p ELSE None)
    BY <1>3 DEF CreateJoined
  <2> DEFINE a == IF Payer(p) = Payer(o) THEN p ELSE None
  <2>2. a \in Orders \cup {None} /\ target' = target /\ target[p] = i
    BY <1>3 DEF CreateJoined, ActiveOrders, rows
  <2>3. GoodAnswer(o, i, a)
    BY <2>2, PaymentAssumption DEF GoodAnswer
  <2> QED BY <2>1, <2>2, <2>3, <1>h, AnswerStep
<1>4. ASSUME NEW r \in Requests, CreateInserted(r) PROVE ReplyInv'
  <2> DEFINE o == askedOrder[r]
             i == askedInvoice[r]
  <2>1. o \in Orders /\ i \in Invoices
    BY <1>4 DEF CreateInserted, OrdersInv, HoldInv
  <2>2. GoodAnswer(o, i, o)
    BY <1>4, <2>1, PaymentAssumption DEF CreateInserted, GoodAnswer, OrdersInv, RowsInv, TypeOK
  <2>3. Ask(r, o, i, "done", o)
    BY <1>4 DEF CreateInserted
  <2> QED BY <2>1, <2>2, <2>3, <1>h, AnswerStep
<1>5. ASSUME NEW r \in Requests, CreateClashed(r) PROVE ReplyInv'
  <2> DEFINE o == askedOrder[r]
             i == askedInvoice[r]
             a == IF target[o] = i THEN o ELSE None
  <2>1. o \in Orders /\ i \in Invoices
    BY <1>5 DEF CreateClashed, OrdersInv, HoldInv
  <2>2. a \in Orders \cup {None} /\ Ask(r, o, i, "done", a) /\ target' = target
    BY <1>5, <2>1 DEF CreateClashed, rows
  <2>3. GoodAnswer(o, i, a)
    BY <2>1, <2>2, PaymentAssumption DEF GoodAnswer
  <2> QED BY <2>1, <2>2, <2>3, <1>h, AnswerStep
<1>6. ASSUME UNCHANGED <<askedOrder, askedInvoice, reply>> PROVE ReplyInv'
  <2> SUFFICES ASSUME NEW s \in Requests, reply[s] # None
               PROVE  target'[reply[s]] = target[reply[s]]
    BY <1>6 DEF ReplyInv
  <2> QED BY <1>h DEF ReplyInv, KeepsHistory, OrdersInv, RowsInv, TypeOK
<1>7. ASSUME NEW r \in Requests, RequestStep(r) PROVE ReplyInv'
  BY <1>1, <1>2, <1>3, <1>4, <1>5, <1>6, <1>7 DEF RequestStep, CreateLost
<1>8. ASSUME NEW h \in Handlers, HandlerStep(h) PROVE ReplyInv'
  BY <1>6, <1>8 DEF HandlerStep, Deliver, Replay, ProcessDuplicate, ProcessRejected, ProcessApplies,
     ProcessCommits, MarkFailed, HandlerLost, callVars
<1> QED BY <1>6, <1>7, <1>8 DEF Next, vars, GatewayEmits, callVars

(* A caller is only ever answered with an order of its own payer on the    *)
(* invoice it asked for, and that stays so whatever commits later.         *)
THEOREM AnswersAreOwn == Spec => []ReplyMatchesCall
<1>1. Init => ReplyInv
  BY DEF Init, ReplyInv
<1>2. OrdersInv /\ ReplyInv /\ [Next]_vars => ReplyInv'
  BY NextReplyInv
<1>3. ReplyInv => ReplyMatchesCall
  BY DEF ReplyInv, ReplyMatchesCall
<1> QED BY <1>1, <1>2, <1>3, OrdersInvariant, PTL DEF Spec
=============================================================================
