--------------------------- MODULE ProviderSettlement ---------------------------
(***************************************************************************)
(* What the residents pay for the bookings of ServiceDispatch and what the *)
(* provider is paid out of it: consumer-payments, the settlement batches   *)
(* and refund recoveries of provider-settlement.  The two services meet in *)
(* the booking, payment and batch rows and run under no common lock.       *)
(*                                                                         *)
(* The gateway and the operators choose freely among the transitions the   *)
(* table allows.  Amounts, the commission and the currency are fixed with  *)
(* the capture and are left out.                                           *)
(***************************************************************************)
EXTENDS ServiceDispatch

CONSTANTS
  Payments,  \* ConsumerServicePayment rows that can exist, each with its own key
  Batches    \* ConsumerProviderSettlementBatch rows that can exist

ASSUME SettlementAssumption == None \notin Payments \cup Batches

VARIABLES
  payment,   \* ConsumerServicePayment.status, "NONE" before the row exists
  pays,      \* the booking it pays
  entry,     \* the batch of its ConsumerProviderSettlementEntry
  batch,     \* ConsumerProviderSettlementBatch.status
  recovery,  \* status of its ConsumerProviderSettlementRecovery
  refund,    \* what the transaction that starts its refund has seen of its batch
  draft,     \* the payments the transaction under the provider's lock has seen
  review     \* batches whose evidence the transaction that locks them accepted

moneyVars == <<payment, pays, entry, batch, recovery, refund, draft, review>>
vars == <<dispatchVars, moneyVars>>

PaymentStatus == {"NONE", "CREATED", "PENDING", "CAPTURED", "FAILED", "REFUND_PENDING", "REFUNDED"}
LivePayment == {"CREATED", "PENDING", "CAPTURED", "REFUND_PENDING"}
RefundStatus == {"REFUND_PENDING", "REFUNDED"}

Init ==
  /\ DispatchInit
  /\ payment = [p \in Payments |-> "NONE"]
  /\ pays = [p \in Payments |-> None]
  /\ entry = [p \in Payments |-> None]
  /\ batch = [n \in Batches |-> "NONE"]
  /\ recovery = [p \in Payments |-> "NONE"]
  /\ refund = [p \in Payments |-> "idle"]
  /\ draft = {}
  /\ review = {}
-----------------------------------------------------------------------------
(* Payments.                                                               *)
PaymentFree(p) == refund[p] = "idle"
Live(b) == {p \in Payments : pays[p] = b /\ payment[p] \in LivePayment}

(* createIntent under the booking's lock; a booking with a live payment    *)
(* answers with that one.                                                  *)
CreateIntent(p, b) ==
  /\ payment[p] = "NONE"
  /\ BookingFree(b)
  /\ status[b] \notin {"NONE", "CANCELLED"}
  /\ Live(b) = {}
  /\ payment' = [payment EXCEPT ![p] = "CREATED"]
  /\ pays' = [pays EXCEPT ![p] = b]
  /\ UNCHANGED <<entry, batch, recovery, refund, draft, review>>

AllowedAfter == {
  <<"CREATED", "PENDING">>, <<"CREATED", "FAILED">>,
  <<"PENDING", "CAPTURED">>, <<"PENDING", "FAILED">>,
  <<"CAPTURED", "REFUND_PENDING">>, <<"REFUND_PENDING", "REFUNDED">>}

(* Every transition but the one into the refund.                           *)
MovePayment(p, to) ==
  /\ PaymentFree(p)
  /\ to # "REFUND_PENDING"
  /\ <<payment[p], to>> \in AllowedAfter
  /\ payment' = [payment EXCEPT ![p] = to]
  /\ UNCHANGED <<pays, entry, batch, recovery, refund, draft, review>>

PaidOut(p) == entry[p] # None /\ batch[entry[p]] = "PAID"

(* Mutant: takes a payment in any batch for one that was paid out.         *)
RefundLooksLoosely(p) ==
  /\ PaymentFree(p)
  /\ <<payment[p], "REFUND_PENDING">> \in AllowedAfter
  /\ refund' = [refund EXCEPT ![p] = IF entry[p] # None THEN "paid out" ELSE "not paid out"]
  /\ UNCHANGED <<payment, pays, entry, batch, recovery, draft, review>>

(* The transition into the refund writes the payment, looks whether its    *)
(* batch is paid, and commits: the batch row is not locked.                *)
RefundLooks(p) ==
  /\ PaymentFree(p)
  /\ <<payment[p], "REFUND_PENDING">> \in AllowedAfter
  /\ refund' = [refund EXCEPT ![p] = IF PaidOut(p) THEN "paid out" ELSE "not paid out"]
  /\ UNCHANGED <<payment, pays, entry, batch, recovery, draft, review>>

RefundCommits(p) ==
  /\ refund[p] # "idle"
  /\ payment' = [payment EXCEPT ![p] = "REFUND_PENDING"]
  /\ recovery' = IF refund[p] = "paid out" /\ recovery[p] = "NONE"
                 THEN [recovery EXCEPT ![p] = "OPEN"] ELSE recovery
  /\ refund' = [refund EXCEPT ![p] = "idle"]
  /\ UNCHANGED <<pays, entry, batch, draft, review>>
-----------------------------------------------------------------------------
(* Settlement.                                                             *)
Eligible == {p \in Payments :
  /\ payment[p] = "CAPTURED"
  /\ status[pays[p]] = "COMPLETED"
  /\ entry[p] = None}

(* createDraft, under the provider's advisory lock: its snapshot, and what *)
(* is left of it once the payments are locked.                             *)
DraftReads ==
  /\ draft = {}
  /\ Eligible # {}
  /\ draft' = Eligible
  /\ UNCHANGED <<payment, pays, entry, batch, recovery, refund, review>>

(* Mutant: keeps what the snapshot saw.                                    *)
AllSelected == draft

StillCaptured == {p \in draft : payment[p] = "CAPTURED"}

DraftCommits(n) ==
  /\ StillCaptured # {}
  /\ \A p \in draft : PaymentFree(p)
  /\ batch[n] = "NONE"
  /\ batch' = [batch EXCEPT ![n] = "DRAFT"]
  /\ entry' = [p \in Payments |-> IF p \in StillCaptured THEN n ELSE entry[p]]
  /\ draft' = {}
  /\ UNCHANGED <<payment, pays, recovery, refund, review>>

DraftRefused ==
  /\ draft # {}
  /\ \A p \in draft : PaymentFree(p)
  /\ StillCaptured = {}
  /\ draft' = {}
  /\ UNCHANGED <<payment, pays, entry, batch, recovery, refund, review>>

InBatch(n) == {p \in Payments : entry[p] = n}

Payable(n) == \A p \in InBatch(n) : payment[p] = "CAPTURED" /\ status[pays[p]] = "COMPLETED"

(* approve and markPaid lock the batch, count what is no longer payable,   *)
(* and move it on: the payments are not locked.                            *)
ReviewAccepts(n) ==
  /\ n \notin review
  /\ batch[n] \in {"DRAFT", "APPROVED"}
  /\ Payable(n)
  /\ review' = review \cup {n}
  /\ UNCHANGED <<payment, pays, entry, batch, recovery, refund, draft>>

Approve(n) ==
  /\ n \in review
  /\ batch[n] = "DRAFT"
  /\ batch' = [batch EXCEPT ![n] = "APPROVED"]
  /\ review' = review \ {n}
  /\ UNCHANGED <<payment, pays, entry, recovery, refund, draft>>

MarkPaid(n) ==
  /\ n \in review
  /\ batch[n] = "APPROVED"
  /\ batch' = [batch EXCEPT ![n] = "PAID"]
  /\ review' = review \ {n}
  /\ UNCHANGED <<payment, pays, entry, recovery, refund, draft>>

(* A cancelled batch keeps its entries, so its payments are never settled. *)
CancelBatch(n) ==
  /\ n \notin review
  /\ batch[n] = "DRAFT"
  /\ batch' = [batch EXCEPT ![n] = "CANCELLED"]
  /\ UNCHANGED <<payment, pays, entry, recovery, refund, draft, review>>

ResolveRecovery(p) ==
  /\ recovery[p] = "OPEN"
  /\ recovery' = [recovery EXCEPT ![p] = "RESOLVED"]
  /\ UNCHANGED <<payment, pays, entry, batch, refund, draft, review>>
-----------------------------------------------------------------------------
PaymentStep(p) ==
  \/ \E b \in Bookings : CreateIntent(p, b)
  \/ \E to \in PaymentStatus : MovePayment(p, to)
  \/ RefundLooks(p)
  \/ RefundCommits(p)
  \/ ResolveRecovery(p)

BatchStep(n) ==
  \/ DraftCommits(n)
  \/ ReviewAccepts(n)
  \/ Approve(n)
  \/ MarkPaid(n)
  \/ CancelBatch(n)

MoneyStep ==
  \/ \E p \in Payments : PaymentStep(p)
  \/ \E n \in Batches : BatchStep(n)
  \/ DraftReads
  \/ DraftRefused

Next ==
  \/ DispatchNext /\ UNCHANGED moneyVars
  \/ MoneyStep /\ UNCHANGED dispatchVars

Spec == Init /\ [][Next]_vars
-----------------------------------------------------------------------------
(* Type invariant: rows and control points keep their shape, and what a    *)
(* transaction has locked or seen is a row that can be locked or seen.     *)
TypeOK ==
  /\ status \in [Bookings -> BookingStatus]
  /\ slot \in [Bookings -> Slots \cup {None}]
  /\ proposal \in [Bookings -> Slots \cup {None}]
  /\ job \in [Jobs -> JobRows]
  /\ active \in [Agents -> BOOLEAN]
  /\ leaving \subseteq Agents
  /\ recording \in [Jobs -> Verdicts \cup {None}]
  /\ held \in [Bookings -> Holds]
  /\ payment \in [Payments -> PaymentStatus]
  /\ pays \in [Payments -> Bookings \cup {None}]
  /\ entry \in [Payments -> Batches \cup {None}]
  /\ batch \in [Batches -> {"NONE", "DRAFT", "APPROVED", "PAID", "CANCELLED"}]
  /\ recovery \in [Payments -> {"NONE", "OPEN", "RESOLVED"}]
  /\ refund \in [Payments -> {"idle", "paid out", "not paid out"}]
  /\ draft \subseteq Payments
  /\ review \subseteq Batches

(* A booking has one agent at a time, and no agent has work at two         *)
(* bookings whose times overlap, however assignments of several bookings   *)
(* race with each other, with releases and with counter-proposals that     *)
(* move a booking to another time.                                         *)
NoDoubleWork ==
  \A i, j \in JobsAtWork : i # j =>
    /\ job[i].of # job[j].of
    /\ job[i].by = job[j].by => <<slot[job[i].of], slot[job[j].of]>> \notin Clashing

(* A completion the resident confirmed was asked for by the agent who did  *)
(* the job, and the latest assessment of every required check had passed   *)
(* and is never overturned: an assessment that waits for the booking's     *)
(* lock while it is confirmed is refused.                                  *)
ConfirmedPassed ==
  \A j \in Jobs : job[j].confirmed =>
    /\ status[job[j].of] = "COMPLETED"
    /\ job[j].state = "RELEASED"
    /\ job[j].asked
    /\ ChecksPass(j)

(* A payment joins a batch at most once, and only while it is captured, no *)
(* refund of it has begun and its booking is completed: the draft reads    *)
(* payments and bookings before it has the payments' locks and never has   *)
(* the bookings'.                                                          *)
DraftedWhenDue ==
  [][\A p \in Payments : entry'[p] # entry[p] =>
       /\ entry[p] = None
       /\ payment[p] = "CAPTURED"
       /\ refund[p] = "idle"
       /\ status[pays[p]] = "COMPLETED"]_vars

(* The provider owes money back only for a payment it was paid for and     *)
(* whose refund has started; a batch that is drafted, approved or          *)
(* cancelled while the refund runs leaves no debt.                         *)
RecoveryJustified ==
  \A p \in Payments : recovery[p] # "NONE" => PaidOut(p) /\ payment[p] \in RefundStatus

(* PROVIDER-SETTLEMENT-LEDGER.md: a refund after the batch was made is not *)
(* paid by accident, and a refund after it was paid leaves a recovery.     *)
RefundNeverKept ==
  \A p \in Payments : PaidOut(p) =>
    payment[p] = "CAPTURED" \/ recovery[p] # "NONE"
=============================================================================
