----------------------- MODULE InvoiceSettlementProofs -----------------------
(***************************************************************************)
(* SettlementInv is an inductive invariant of InvoiceSettlement.  Its      *)
(* parts need each other: a capture keeps PaidIffCaptured because the      *)
(* order has a target (TargetKnown), a refund because no second order of   *)
(* the invoice is CAPTURED (OneLiveOrder), and Open keeps OneLiveOrder     *)
(* because it looks at every order of the invoice.                         *)
(***************************************************************************)
EXTENDS InvoiceSettlement, TLAPS

USE DEF InvoiceStatus, OrderStatus, Live

(* Each order was collected for at most one invoice, the one Init picks.   *)
LEMMA LegacyTarget ==
  ASSUME SettlementAssumption, NEW o \in Orders, NEW i \in Invoices, CollectedBefore(o, i)
  PROVE  (CHOOSE j \in Invoices : CollectedBefore(o, j)) = i
<1>1. \A j \in Invoices : CollectedBefore(o, j) => j = i
  <2> SUFFICES ASSUME NEW j \in Invoices, CollectedBefore(o, j)
               PROVE  j = i
    OBVIOUS
  <2>1. <<o, i>> \in Legacy /\ <<o, j>> \in Legacy
    BY DEF CollectedBefore
  <2>2. <<o, i>> = <<o, j>>
    BY <2>1 DEF SettlementAssumption
  <2> QED BY <2>2
<1> QED BY <1>1

(* The initial states satisfy the invariant: the collected pairs are       *)
(* one-to-one, so each PAID invoice has exactly its own CAPTURED order.    *)
LEMMA InitSettlementInv ==
  ASSUME SettlementAssumption, Init
  PROVE  SettlementInv
<1>1. \A o \in Orders : (\E i \in Invoices : CollectedBefore(o, i)) =>
        /\ target[o] \in Invoices
        /\ CollectedBefore(o, target[o])
        /\ status[o] = "CAPTURED"
  BY LegacyTarget DEF Init
<1>2. \A o \in Orders : ~(\E i \in Invoices : CollectedBefore(o, i)) =>
        target[o] = None /\ status[o] = "NONE"
  BY DEF Init
<1>3. TypeOK
  BY <1>1, <1>2 DEF Init, TypeOK
<1>4. TargetKnown
  BY <1>1, <1>2 DEF TargetKnown, SettlementAssumption
<1>5. OneLiveOrder
  <2> SUFFICES ASSUME NEW o \in Orders, NEW p \in Orders,
                      target[o] = target[p],
                      status[o] \in Live, status[p] \in Live
               PROVE  o = p
    BY DEF OneLiveOrder
  <2>1. CollectedBefore(o, target[o]) /\ CollectedBefore(p, target[o])
    BY <1>1, <1>2
  <2>2. <<o, target[o]>> = <<p, target[o]>>
    BY <2>1 DEF CollectedBefore, SettlementAssumption
  <2> QED BY <2>2
<1>6. PaidIffCaptured
  <2> SUFFICES ASSUME NEW i \in Invoices
               PROVE  invoice[i] = "PAID" <=>
                        \E o \in Orders : target[o] = i /\ status[o] = "CAPTURED"
    BY DEF PaidIffCaptured
  <2>1. invoice[i] = "PAID" <=> \E o \in Orders : CollectedBefore(o, i)
    BY DEF Init
  <2>2. \A o \in Orders : CollectedBefore(o, i) <=> target[o] = i /\ status[o] = "CAPTURED"
    <3> TAKE o \in Orders
    <3>1. ASSUME CollectedBefore(o, i) PROVE target[o] = i /\ status[o] = "CAPTURED"
      BY <3>1, LegacyTarget DEF Init
    <3>2. ASSUME target[o] = i, status[o] = "CAPTURED" PROVE CollectedBefore(o, i)
      BY <3>2, <1>1, <1>2
    <3> QED BY <3>1, <3>2
  <2> QED BY <2>1, <2>2
<1> QED BY <1>3, <1>4, <1>5, <1>6 DEF SettlementInv

(* Every step keeps the invariant.                                         *)
LEMMA NextSettlementInv ==
  ASSUME SettlementAssumption, SettlementInv, [Next]_vars
  PROVE  SettlementInv'
<1> USE DEF SettlementAssumption, SettlementInv, TypeOK, TargetKnown, OneLiveOrder, PaidIffCaptured
<1>1. ASSUME NEW o \in Orders, NEW i \in Invoices, Open(o, i)
      PROVE  SettlementInv'
  BY <1>1 DEF Open
<1>2. ASSUME NEW o \in Orders, Capture(o)
      PROVE  SettlementInv'
  BY <1>2 DEF Capture
<1>3. ASSUME NEW o \in Orders, Fail(o)
      PROVE  SettlementInv'
  BY <1>3 DEF Fail
<1>4. ASSUME NEW o \in Orders, Refund(o)
      PROVE  SettlementInv'
  BY <1>4 DEF Refund
<1>5. CASE UNCHANGED vars
  BY <1>5 DEF vars
<1> QED BY <1>1, <1>2, <1>3, <1>4, <1>5 DEF Next

(* The promise is kept forever, for any number of orders and invoices.     *)
THEOREM SettlementSafe ==
  ASSUME SettlementAssumption
  PROVE  Spec => []SettlementInv
<1>1. Init => SettlementInv
  BY InitSettlementInv
<1>2. SettlementInv /\ [Next]_vars => SettlementInv'
  BY NextSettlementInv
<1> QED BY <1>1, <1>2, PTL DEF Spec
=============================================================================
