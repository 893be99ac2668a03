-------------------------------- MODULE Payments --------------------------------
(***************************************************************************)
(* One wallet top-up, from its order to the credit and its refunds.         *)
(*                                                                         *)
(* The gateway (api/service/gateway_topup*, gateway/wallet) keeps the       *)
(* top-up order and the wallet; the pay service (internal/pay) keeps the    *)
(* pay order and its refunds; PayPal (pay/channel/paypal) keeps the trade.  *)
(* Redirects, webhooks and refund requests are handled concurrently with    *)
(* the reconciliation loops of both services, each step one call to a       *)
(* database, to the other service or to PayPal.                            *)
(***************************************************************************)
EXTENDS Integers, Sequences, FiniteSets

CONSTANTS
  Requests,      \* goroutines that serve redirects, webhooks, refunds and events
  Amount,        \* amount of the pay order
  MaxRefunds,    \* bound: refunds asked for, each with its own biz_refund_id
  MaxDeliver,    \* deliveries of an event (nats.MaxDeliver)
  MaxFaults      \* bound: crashed handlers and lost answers

PayLoop == "pay reconciler"          \* cmd/pay
WalletLoop == "wallet reconciler"    \* StartGatewayTopupReconciler
Procs == Requests \cup {PayLoop, WalletLoop}

ASSUME ConstantsAssumption ==
  /\ Amount \in Nat \ {0}
  /\ MaxRefunds \in Nat /\ MaxDeliver \in Nat \ {0} /\ MaxFaults \in Nat
  /\ PayLoop \notin Requests /\ WalletLoop \notin Requests

VARIABLES
  topup,     \* row of the top-up: its status
  bound,     \* the row has its pay_order_id
  credits,   \* top-up records in the wallet that refer to the pay order
  order,     \* row of the pay order: its status
  tradeNo,   \* the row has its channel_trade_no
  refunds,   \* rows of the refunds, and the refund at PayPal
  trade,     \* the order at PayPal
  age,       \* of the pay order
  event,     \* deliveries left of pay.order.paid
  creator,   \* where GatewayCreateTopup is
  procs, faults

vars == <<topup, bound, credits, order, tradeNo, refunds, trade, age, event, creator,
          procs, faults>>

TopupStatus == {"none", "PENDING", "PAID", "FAILED"}
RefundedStatus == {"PARTIAL_REFUNDED", "REFUNDED"}
OrderStatus == {"none", "CREATED", "PAID", "CLOSED", "FAILED", "REFUNDING"} \cup RefundedStatus
RefundStatus == {"REFUNDING", "REFUNDED", "FAILED"}
TradeState == {"none", "Pending", "Authorized", "Settling", "Success", "Failed", "Closed"}
ReturnState == {"none", "Processing", "Success", "Failed"}
\* young: PayPal still lets the user approve. lapsed: it does not. stale: past staleOrderTTL.
Age == {"young", "lapsed", "stale"}
CreatorPC == {"start", "order", "createPay", "failOrder", "bindTrade", "bind", "failTopup",
              "done", "ended"}
PC == {"idle", "reconcile", "capture", "apply", "publish", "settle",
       "askRefund", "applyRefund", "orderRefund"}

Refund == [amount : 1..Amount, status : RefundStatus, paypal : ReturnState]

\* seen: the state the channel answered. refund: the row in hand, or 0. before: the amount
\* refunded before it.
Proc == [pc : PC, seen : TradeState \cup ReturnState, refund : 0..MaxRefunds, before : Int,
         acks : BOOLEAN]

TypeOK ==
  /\ topup \in TopupStatus /\ bound \in BOOLEAN /\ credits \in Nat
  /\ order \in OrderStatus /\ tradeNo \in BOOLEAN
  /\ refunds \in Seq(Refund) /\ Len(refunds) <= MaxRefunds
  /\ trade \in TradeState
  /\ age \in Age /\ event \in 0..MaxDeliver
  /\ creator \in CreatorPC
  /\ procs \in [Procs -> Proc] /\ faults \in 0..MaxFaults

Idle == [pc |-> "idle", seen |-> "none", refund |-> 0, before |-> 0, acks |-> FALSE]
At(p, label) == procs[p].pc = label
Become(p, state) == procs' = [procs EXCEPT ![p] = state]
Ends(p) == Become(p, Idle)
Fault == faults < MaxFaults /\ faults' = faults + 1

gatewayVars == <<topup, bound, credits>>
payVars == <<order, tradeNo, refunds>>
restVars == <<age, event, creator, faults>>

Init ==
  /\ topup = "none" /\ bound = FALSE /\ credits = 0
  /\ order = "none" /\ tradeNo = FALSE
  /\ refunds = <<>> /\ trade = "none"
  /\ age = "young" /\ event = 0 /\ creator = "start"
  /\ procs = [p \in Procs |-> Idle] /\ faults = 0

-----------------------------------------------------------------------------
(* GatewayCreateTopup, with pay.CreateOrder inside                           *)

\* CreateTopupOrder
InsertTopup ==
  /\ creator = "start" /\ creator' = "order"
  /\ topup' = "PENDING"
  /\ UNCHANGED <<bound, credits, payVars, trade, age, event, procs, faults>>

\* CreateOrder of the pay service: its row.
InsertOrder ==
  /\ creator = "order" /\ creator' = "createPay"
  /\ order' = "CREATED"
  /\ UNCHANGED <<gatewayVars, tradeNo, refunds, trade, age, event, procs, faults>>

\* CreatePay answers, is refused, or is carried out with its answer lost.
CreatePay ==
  /\ creator = "createPay"
  /\ \/ trade' = "Pending" /\ creator' = "bindTrade" /\ UNCHANGED faults
     \/ trade' \in {"none", "Pending"} /\ creator' = "failOrder" /\ Fault
  /\ UNCHANGED <<gatewayVars, payVars, age, event, procs>>

\* MarkFailed, by compare-and-set, after a refused CreatePay; its own failure is reported only.
FailOrder ==
  /\ creator = "failOrder" /\ creator' = "failTopup"
  /\ \/ order' = (IF order = "CREATED" THEN "FAILED" ELSE order) /\ UNCHANGED faults
     \/ Fault /\ UNCHANGED order
  /\ UNCHANGED <<gatewayVars, tradeNo, refunds, trade, age, event, procs>>

BindChannelTradeNo ==
  /\ creator = "bindTrade"
  /\ \/ tradeNo' = TRUE /\ creator' = "bind" /\ UNCHANGED faults
     \/ creator' = "failTopup" /\ Fault /\ UNCHANGED tradeNo
  /\ UNCHANGED <<gatewayVars, order, refunds, trade, age, event, procs>>

\* The user gets the PayURL only from here.
BindPayOrder ==
  /\ creator = "bind"
  /\ \/ bound' = TRUE /\ creator' = "done" /\ UNCHANGED faults
     \/ creator' = "failTopup" /\ Fault /\ UNCHANGED bound
  /\ UNCHANGED <<topup, credits, payVars, trade, age, event, procs>>

\* MarkTopupFailed; its own failure is ignored.
FailTopup ==
  /\ creator = "failTopup" /\ creator' = "ended"
  /\ \/ topup' = (IF topup = "PENDING" THEN "FAILED" ELSE topup) /\ UNCHANGED faults
     \/ Fault /\ UNCHANGED topup
  /\ UNCHANGED <<bound, credits, payVars, trade, age, event, procs>>

\* The api or the pay service dies on the way.
CreatorDies ==
  /\ creator \notin {"done", "ended"} /\ creator' = "ended"
  /\ Fault
  /\ UNCHANGED <<gatewayVars, payVars, trade, age, event, procs>>

Create == \/ InsertTopup \/ InsertOrder \/ CreatePay \/ FailOrder \/ BindChannelTradeNo
          \/ BindPayOrder \/ FailTopup

-----------------------------------------------------------------------------
(* PayPal, the user, and time                                                *)

\* The user approves on the page behind PayURL.
Approve ==
  /\ creator = "done" /\ age = "young" /\ trade = "Pending"
  /\ trade' = "Authorized"
  /\ UNCHANGED <<gatewayVars, payVars, restVars, procs>>

\* A capture under review is paid out or denied.
Decide ==
  /\ trade = "Settling"
  /\ trade' \in {"Success", "Failed"}
  /\ UNCHANGED <<gatewayVars, payVars, restVars, procs>>

\* An approval nobody captured is voided.
Void ==
  /\ trade = "Authorized" /\ age = "stale"
  /\ trade' = "Closed"
  /\ UNCHANGED <<gatewayVars, payVars, restVars, procs>>

DecideRefund(i) ==
  /\ refunds[i].paypal = "Processing"
  /\ \E end \in {"Success", "Failed"} : refunds' = [refunds EXCEPT ![i].paypal = end]
  /\ UNCHANGED <<gatewayVars, order, tradeNo, trade, restVars, procs>>

\* Ages are hours, calls are cut off after seconds: none spans two of them.
GrowsOld ==
  /\ creator \in {"done", "ended"} /\ At(PayLoop, "idle")
  /\ \/ age = "young" /\ age' = "lapsed"
     \/ age = "lapsed" /\ age' = "stale"
  /\ UNCHANGED <<gatewayVars, payVars, trade, event, creator, procs, faults>>

-----------------------------------------------------------------------------
(* Payments: HandleNotify, CompleteRedirect, ReconcileOne                    *)

\* The user comes back from PayPal; an order that has moved on is only shown.
CompleteRedirect(p) ==
  /\ At(p, "idle") /\ p \in Requests
  /\ creator = "done" /\ order = "CREATED"
  /\ Become(p, [Idle EXCEPT !.pc = "capture"])
  /\ UNCHANGED <<gatewayVars, payVars, trade, restVars>>

\* ListStaleCreated and QueryTrade: without a trade number nothing was ever ordered.
QueryTrade ==
  /\ At(PayLoop, "idle") /\ order = "CREATED"
  /\ Become(PayLoop, [Idle EXCEPT !.pc = "reconcile",
                                  !.seen = IF tradeNo THEN trade ELSE "Pending"])
  /\ UNCHANGED <<gatewayVars, payVars, trade, restVars>>

\* Mutants of ReconcileOne: outcomes it leaves to the webhook, and ones it takes for unpaid.
ReconcileBut(left, unpaid) ==
  /\ At(PayLoop, "reconcile")
  /\ LET seen == procs[PayLoop].seen IN
     CASE seen = "Authorized" -> Become(PayLoop, [Idle EXCEPT !.pc = "capture"])
       [] seen \in {"Success", "Failed", "Closed"} \ left ->
            Become(PayLoop, [Idle EXCEPT !.pc = "apply", !.seen = seen])
       [] seen \in unpaid /\ age = "stale" ->
            Become(PayLoop, [Idle EXCEPT !.pc = "apply", !.seen = "Closed"])
       [] OTHER -> Ends(PayLoop)
  /\ UNCHANGED <<gatewayVars, payVars, trade, restVars>>
SettlingIsUnpaid == ReconcileBut({}, {"Pending", "Settling"})
SuccessLeftToWebhook == ReconcileBut({"Success"}, {"Pending"})
DeniedLeftToWebhook == ReconcileBut({"Failed"}, {"Pending"})

\* Only what was authorized is captured; what is pending is closed once it is stale.
ReconcileOne ==
  /\ At(PayLoop, "reconcile")
  /\ LET seen == procs[PayLoop].seen IN
     CASE seen = "Authorized" -> Become(PayLoop, [Idle EXCEPT !.pc = "capture"])
       [] seen \in {"Success", "Failed", "Closed"} ->
            Become(PayLoop, [Idle EXCEPT !.pc = "apply", !.seen = seen])
       [] seen = "Pending" /\ age = "stale" ->
            Become(PayLoop, [Idle EXCEPT !.pc = "apply", !.seen = "Closed"])
       [] OTHER -> Ends(PayLoop)
  /\ UNCHANGED <<gatewayVars, payVars, trade, restVars>>

\* The capture decides an approved order; of any other it fails, and the order is looked up for
\* a capture that had gone through. Then again both calls may be cut off.
Capture(p) ==
  /\ At(p, "capture")
  /\ IF trade = "Authorized"
       THEN trade' \in {"Success", "Settling", "Failed"}
       ELSE UNCHANGED trade
  /\ \/ /\ trade = "Authorized" \/ trade = "Success"
        /\ Become(p, [Idle EXCEPT !.pc = "apply", !.seen = trade'])
        /\ UNCHANGED faults
     \/ trade \notin {"Authorized", "Success"} /\ Ends(p) /\ UNCHANGED faults
     \/ trade = "Authorized" /\ Ends(p) /\ Fault
  /\ UNCHANGED <<gatewayVars, payVars, age, event, creator>>

\* MarkPaid, MarkClosed and MarkFailed move only an order that is CREATED.
Outcome(seen) == CASE seen = "Success" -> "PAID"
                   [] seen = "Closed" -> "CLOSED"
                   [] seen = "Failed" -> "FAILED"
                   [] OTHER -> "CREATED"

Record(p, seen) ==
  /\ IF order = "CREATED"
       THEN /\ order' = Outcome(seen)
            /\ IF order' = "PAID" THEN Become(p, [Idle EXCEPT !.pc = "publish"]) ELSE Ends(p)
       ELSE UNCHANGED order /\ Ends(p)
  /\ UNCHANGED <<gatewayVars, tradeNo, refunds, trade, restVars>>

ApplyNotifyResult(p) == At(p, "apply") /\ Record(p, procs[p].seen)

\* A webhook, late, repeated or never: COMPLETED, DENIED or VOIDED. All three are final at
\* PayPal, so reading one and recording it may be one step.
HandleNotify(p) ==
  /\ At(p, "idle") /\ p \in Requests
  /\ trade \in {"Success", "Failed", "Closed"}
  /\ order = "CREATED"
  /\ Record(p, IF trade = "Success" THEN "Success" ELSE "Failed")

\* A failed publish is logged, and the event is gone.
Publish(p) ==
  /\ At(p, "publish") /\ Ends(p)
  /\ event' = MaxDeliver
  /\ UNCHANGED <<gatewayVars, payVars, trade, age, creator, faults>>

-----------------------------------------------------------------------------
(* The credit: handleTopupPaidMsg, ReconcileTopupsOnce, SettleTopup          *)

\* Mutant of HandleTopupPaidMsg: deliveries are not counted.
DeliverForEver(p) ==
  /\ At(p, "idle") /\ p \in Requests
  /\ order = "PAID" /\ event' = event - 1
  /\ Become(p, [Idle EXCEPT !.pc = "settle", !.acks = TRUE])
  /\ UNCHANGED <<gatewayVars, payVars, trade, age, creator, faults>>

\* The wallet's side asks the pay service again before it credits.
HandleTopupPaidMsg(p) ==
  /\ At(p, "idle") /\ p \in Requests
  /\ event > 0
  /\ IF topup # "PENDING" THEN event' = 0 /\ UNCHANGED procs
     ELSE /\ event' = event - 1
          /\ IF order = "PAID" THEN Become(p, [Idle EXCEPT !.pc = "settle", !.acks = TRUE])
             ELSE UNCHANGED procs
  /\ UNCHANGED <<gatewayVars, payVars, trade, age, creator, faults>>

ReconcileTopupsOnce ==
  /\ At(WalletLoop, "idle")
  /\ topup = "PENDING" /\ bound /\ order = "PAID"
  /\ Become(WalletLoop, [Idle EXCEPT !.pc = "settle"])
  /\ UNCHANGED <<gatewayVars, payVars, trade, restVars>>

\* Mutant of SettleTopup: the status is not read again under the lock.
SettleUnlocked(p) ==
  /\ At(p, "settle") /\ Ends(p)
  /\ topup' = "PAID" /\ credits' = credits + 1 /\ bound' = TRUE
  /\ event' = IF procs[p].acks THEN 0 ELSE event
  /\ UNCHANGED <<payVars, trade, age, creator, faults>>

\* One transaction, the row of the top-up locked.
SettleTopup(p) ==
  /\ At(p, "settle") /\ Ends(p)
  /\ IF topup = "PENDING" THEN topup' = "PAID" /\ credits' = credits + 1 /\ bound' = TRUE
     ELSE UNCHANGED gatewayVars
  /\ event' = IF procs[p].acks THEN 0 ELSE event
  /\ UNCHANGED <<payVars, trade, age, creator, faults>>

-----------------------------------------------------------------------------
(* Refunds: CreateRefund, HandleRefundNotify, applyRefundState               *)

\* The sum of the amounts of some rows: the pairs of a row and one unit of its money.
Units(rows) == {u \in rows \X (1..Amount) : u[2] <= refunds[u[1]].amount}
Total(rows) == Cardinality(Units(rows))

RowsIn(states) == {i \in DOMAIN refunds : refunds[i].status \in states}
SumRefunded == Total(RowsIn({"REFUNDING", "REFUNDED"}))

\* Mutant of PrepareRefund: the rows are not summed up.
PrepareUnsummed(p, n) ==
  /\ At(p, "idle") /\ p \in Requests
  /\ Len(refunds) < MaxRefunds
  /\ order \in {"PAID", "PARTIAL_REFUNDED"}
  /\ refunds' = Append(refunds, [amount |-> n, status |-> "REFUNDING", paypal |-> "none"])
  /\ order' = "REFUNDING"
  /\ Become(p, [Idle EXCEPT !.pc = "askRefund", !.refund = Len(refunds'),
                            !.before = SumRefunded])
  /\ UNCHANGED <<gatewayVars, tradeNo, trade, restVars>>

\* One transaction, the row of the pay order locked. A known biz_refund_id changes nothing.
PrepareRefund(p, n) ==
  /\ At(p, "idle") /\ p \in Requests
  /\ Len(refunds) < MaxRefunds
  /\ order \in {"PAID", "PARTIAL_REFUNDED"}
  /\ SumRefunded + n <= Amount
  /\ refunds' = Append(refunds, [amount |-> n, status |-> "REFUNDING", paypal |-> "none"])
  /\ order' = "REFUNDING"
  /\ Become(p, [Idle EXCEPT !.pc = "askRefund", !.refund = Len(refunds'),
                            !.before = SumRefunded])
  /\ UNCHANGED <<gatewayVars, tradeNo, trade, restVars>>

\* PayPal refunds at once, later or not at all; the answer may be lost.
AskRefund(p) ==
  /\ At(p, "askRefund")
  /\ \E answer \in {"Processing", "Success", "Failed"} :
       /\ refunds' = [refunds EXCEPT ![procs[p].refund].paypal = answer]
       /\ \/ /\ answer # "Processing" /\ UNCHANGED faults
             /\ procs' = [procs EXCEPT ![p].pc = "applyRefund", ![p].seen = answer]
          \/ answer = "Processing" /\ Ends(p) /\ UNCHANGED faults
          \/ Ends(p) /\ Fault
  /\ UNCHANGED <<gatewayVars, order, tradeNo, trade, age, event, creator>>

\* Mutant of HandleRefundNotify: the refund counts itself as refunded before.
NotifyCountsItself(p, i) ==
  /\ At(p, "idle") /\ p \in Requests
  /\ refunds[i].paypal = "Success"
  /\ Become(p, [Idle EXCEPT !.pc = "applyRefund", !.seen = "Success", !.refund = i,
                            !.before = SumRefunded])
  /\ UNCHANGED <<gatewayVars, payVars, trade, restVars>>

\* PayPal's only refund webhook is the one of success.
HandleRefundNotify(p, i) ==
  /\ At(p, "idle") /\ p \in Requests
  /\ refunds[i].paypal = "Success"
  /\ Become(p, [Idle EXCEPT !.pc = "applyRefund", !.seen = "Success", !.refund = i,
                            !.before = SumRefunded - refunds[i].amount])
  /\ UNCHANGED <<gatewayVars, payVars, trade, restVars>>

\* UpdateRefundStatus: whoever ends the refund also writes the order.
UpdateRefundStatus(p) ==
  /\ At(p, "applyRefund")
  /\ LET i == procs[p].refund IN
     IF refunds[i].status = "REFUNDING"
       THEN /\ refunds' = [refunds EXCEPT ![i].status =
                              IF procs[p].seen = "Success" THEN "REFUNDED" ELSE "FAILED"]
            /\ procs' = [procs EXCEPT ![p].pc = "orderRefund"]
       ELSE UNCHANGED refunds /\ Ends(p)
  /\ UNCHANGED <<gatewayVars, order, tradeNo, trade, restVars>>

\* UpdateOrderRefundStatus, whatever the status of the order.
UpdateOrderRefundStatus(p) ==
  /\ At(p, "orderRefund") /\ Ends(p)
  /\ LET before == procs[p].before
         after == before + refunds[procs[p].refund].amount IN
     order' = IF procs[p].seen = "Success"
                THEN IF after >= Amount THEN "REFUNDED" ELSE "PARTIAL_REFUNDED"
                ELSE IF before > 0 THEN "PARTIAL_REFUNDED" ELSE "PAID"
  /\ UNCHANGED <<gatewayVars, tradeNo, refunds, trade, restVars>>

-----------------------------------------------------------------------------
\* A handler dies, or a call of it fails before it has done anything.
Crash(p) ==
  /\ ~ At(p, "idle") /\ Ends(p) /\ Fault
  /\ UNCHANGED <<gatewayVars, payVars, trade, age, event, creator>>

Proceed(p) ==
  \/ Capture(p) \/ ApplyNotifyResult(p) \/ Publish(p) \/ SettleTopup(p)
  \/ AskRefund(p) \/ UpdateRefundStatus(p) \/ UpdateOrderRefundStatus(p)

Request(p) ==
  \/ HandleNotify(p) \/ CompleteRedirect(p) \/ HandleTopupPaidMsg(p)
  \/ \E n \in 1..Amount : PrepareRefund(p, n)
  \/ \E i \in DOMAIN refunds : HandleRefundNotify(p, i)

Reconcile == QueryTrade \/ ReconcileOne

Next ==
  \/ Create \/ CreatorDies
  \/ Approve \/ Decide \/ Void \/ GrowsOld
  \/ \E i \in DOMAIN refunds : DecideRefund(i)
  \/ Reconcile \/ ReconcileTopupsOnce
  \/ \E p \in Procs : Proceed(p) \/ Request(p) \/ Crash(p)

Spec == Init /\ [][Next]_vars

\* Time passes, PayPal decides, the loops tick, and a handler that has begun goes on. Nobody
\* owes a redirect, a webhook or the event.
Fairness ==
  /\ WF_vars(Create) /\ SF_vars(GrowsOld) /\ WF_vars(Decide)
  /\ WF_vars(Reconcile) /\ WF_vars(ReconcileTopupsOnce)
  /\ \A p \in Procs : WF_vars(Proceed(p))

FairSpec == Spec /\ Fairness

-----------------------------------------------------------------------------
(* What must hold                                                            *)

\* An order whose payment PayPal has taken, or is still reviewing, is never closed or failed,
\* whatever a reconciler, a redirect or a webhook saw before (the closing of stale orders in
\* ReconcileOne, and the states Settling and Authorized it keeps apart for that).
TakenNeverWrittenOff ==
  trade \in {"Settling", "Success"} => order \notin {"CLOSED", "FAILED"}

\* The event, its redeliveries and the reconciler together credit a top-up at most once, only
\* for money PayPal has taken, and exactly when its row says so; a top-up that was given up is
\* never one the user could still pay (SettleTopup, MarkTopupFailed).
CreditIsBacked ==
  /\ credits <= 1
  /\ credits = 1 <=> topup = "PAID"
  /\ credits = 1 => trade = "Success" /\ bound
  /\ topup = "FAILED" => trade \in {"none", "Pending"}

\* Concurrent and repeated refunds never send back more than was paid (PrepareRefund).
RefundsWithinPayment ==
  Total({i \in DOMAIN refunds : refunds[i].paypal \in {"Processing", "Success"}}) <= Amount

\* The status of an order tells what its refunds came to, but for REFUNDING, where it may be
\* left: out of order and repeated refund results never make it say more or less than the rows.
OrderTellsRefunds ==
  LET refunded == Total(RowsIn({"REFUNDED"})) IN
  /\ order \in {"PAID", "PARTIAL_REFUNDED", "REFUNDED"} => SumRefunded = refunded
  /\ order = "PAID" => refunded = 0
  /\ order = "PARTIAL_REFUNDED" => refunded \in 1..(Amount - 1)
  /\ order = "REFUNDED" => refunded = Amount

\* Money that PayPal has taken reaches the wallet, though the redirect, the webhook and the
\* event be lost and handlers die, unless a refund was asked for first (the two reconcilers).
TakenIsCredited ==
  trade = "Success" ~> credits = 1 \/ refunds # <<>>

\* No order stays in the set the pay reconciler scans: an unpaid one is closed, an approved one
\* captured, a denied one failed, without the help of any webhook (ReconcileOne).
OrderLeavesScan == order = "CREATED" ~> order # "CREATED"
=============================================================================
