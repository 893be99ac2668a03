------------------------------ MODULE Payments_proofs ------------------------------
(***************************************************************************)
(* Proofs about Payments, for any number of concurrent requests, refunds,   *)
(* redeliveries and faults.                                                *)
(***************************************************************************)
EXTENDS Payments, FiniteSetTheorems, SequenceTheorems, TLAPS

USE ConstantsAssumption

-----------------------------------------------------------------------------
(* The invariant. *)

\* Nobody has approved the order at PayPal, and nobody can any more: its page was
\* never shown, or is not accepted any longer.
Unpayable ==
  /\ trade \in {"none", "Pending"}
  /\ creator \in {"failTopup", "ended"} \/ (creator = "done" /\ age = "stale")

\* A process is the record it is updated as.
IsProc(r) == r = [pc |-> r.pc, seen |-> r.seen, refund |-> r.refund, before |-> r.before,
                  acks |-> r.acks]

\* What the actions leave in the single variables, each for itself.
Shaped ==
  /\ order \in OrderStatus /\ trade \in TradeState /\ age \in Age /\ creator \in CreatorPC
  /\ DOMAIN procs = Procs
  /\ \A p \in Procs : IsProc(procs[p])

\* Only an order that was handed to the user is ever approved, and time passes only
\* after its creation has ended.
Created ==
  /\ creator \in {"bind", "done"} => tradeNo
  /\ creator = "start" => topup = "none"
  /\ trade \notin {"none", "Pending"} => creator = "done"
  /\ age # "young" => creator \in {"done", "ended"}

\* What the reconciler has read is final, or will not be overtaken.
ReadHolds ==
  At(PayLoop, "reconcile") =>
    LET seen == procs[PayLoop].seen IN
    /\ seen \in {"Success", "Failed", "Closed"} => trade = seen
    /\ seen = "Pending" /\ age = "stale" => Unpayable

\* What may be recorded of an order, with PayPal's state of it.
Recordable(seen, state, unpayable) ==
  /\ seen = "Success" => state = "Success"
  /\ seen = "Failed" => state \in {"Failed", "Closed"}
  /\ seen = "Closed" => state \in {"Failed", "Closed"} \/ unpayable

RecordsHold ==
  \A p \in Procs : At(p, "apply") => Recordable(procs[p].seen, trade, Unpayable)

\* An order is given up only if it failed at PayPal, or cannot be paid any more.
WrittenOff == order \in {"CLOSED", "FAILED"} => trade \in {"Failed", "Closed"} \/ Unpayable

AfterPayment == {"settle", "askRefund", "applyRefund", "orderRefund"}

\* Whatever follows a payment follows one that PayPal has taken.
PaidIsTaken ==
  trade = "Success" \/
  /\ order \notin {"PAID", "REFUNDING"} \cup RefundedStatus
  /\ refunds = <<>>
  /\ \A p \in Procs : procs[p].pc \notin AfterPayment

\* The row of the top-up tells the credit.
RowTellsCredit ==
  /\ credits \in {0, 1}
  /\ credits = 1 <=> topup = "PAID"
  /\ credits = 1 => trade = "Success" /\ bound
  /\ topup = "FAILED" => creator = "ended"

IInv == /\ Shaped /\ Created /\ ReadHolds /\ RecordsHold /\ WrittenOff
        /\ PaidIsTaken /\ RowTellsCredit

-----------------------------------------------------------------------------
(* Records updated field by field                                            *)

LEMMA IdleIsCalm == IsProc(Idle) /\ Idle.pc = "idle"
BY DEF Idle, IsProc

LEMMA PcSet ==
  ASSUME NEW f, IsProc(f), NEW l
  PROVE IsProc([f EXCEPT !.pc = l]) /\ [f EXCEPT !.pc = l].pc = l
BY DEF IsProc

LEMMA SeenSet ==
  ASSUME NEW f, IsProc(f), NEW s
  PROVE /\ IsProc([f EXCEPT !.seen = s]) /\ [f EXCEPT !.seen = s].seen = s
        /\ [f EXCEPT !.seen = s].pc = f.pc
BY DEF IsProc

LEMMA RefundSet ==
  ASSUME NEW f, IsProc(f), NEW i
  PROVE IsProc([f EXCEPT !.refund = i]) /\ [f EXCEPT !.refund = i].pc = f.pc
BY DEF IsProc

LEMMA BeforeSet ==
  ASSUME NEW f, IsProc(f), NEW b
  PROVE IsProc([f EXCEPT !.before = b]) /\ [f EXCEPT !.before = b].pc = f.pc
BY DEF IsProc

LEMMA AcksSet ==
  ASSUME NEW f, IsProc(f), NEW a
  PROVE IsProc([f EXCEPT !.acks = a]) /\ [f EXCEPT !.acks = a].pc = f.pc
BY DEF IsProc

\* The updates of several fields, by names the provers can match.
WithSeen(f, l, s) == [f EXCEPT !.pc = l, !.seen = s]
WithRefund(f, l, i, b) == [f EXCEPT !.pc = l, !.refund = i, !.before = b]
WithAll(f, l, s, i, b) == [f EXCEPT !.pc = l, !.seen = s, !.refund = i, !.before = b]
WithAcks(f, l, a) == [f EXCEPT !.pc = l, !.acks = a]

LEMMA PcSeenSet ==
  ASSUME NEW f, IsProc(f), NEW l, NEW s
  PROVE /\ IsProc(WithSeen(f, l, s))
        /\ WithSeen(f, l, s).pc = l /\ WithSeen(f, l, s).seen = s
<1> DEFINE g == [f EXCEPT !.pc = l]
<1>1. WithSeen(f, l, s) = [g EXCEPT !.seen = s] BY DEF WithSeen
<1>2. IsProc(g) /\ g.pc = l BY PcSet
<1> HIDE DEF g
<1>3. /\ IsProc([g EXCEPT !.seen = s]) /\ [g EXCEPT !.seen = s].seen = s
      /\ [g EXCEPT !.seen = s].pc = l
  BY <1>2, SeenSet
<1> QED BY <1>1, <1>3

LEMMA PcRefundSet ==
  ASSUME NEW f, IsProc(f), NEW l, NEW i, NEW b
  PROVE IsProc(WithRefund(f, l, i, b)) /\ WithRefund(f, l, i, b).pc = l
<1> DEFINE g == [f EXCEPT !.pc = l]
           h == [g EXCEPT !.refund = i]
<1>1. WithRefund(f, l, i, b) = [h EXCEPT !.before = b] BY DEF WithRefund
<1>2. IsProc(g) /\ g.pc = l BY PcSet
<1> HIDE DEF g
<1>3. IsProc(h) /\ h.pc = l BY <1>2, RefundSet
<1> HIDE DEF h
<1>4. IsProc([h EXCEPT !.before = b]) /\ [h EXCEPT !.before = b].pc = l BY <1>3, BeforeSet
<1> QED BY <1>1, <1>4

LEMMA PcAllSet ==
  ASSUME NEW f, IsProc(f), NEW l, NEW s, NEW i, NEW b
  PROVE IsProc(WithAll(f, l, s, i, b)) /\ WithAll(f, l, s, i, b).pc = l
<1> DEFINE g == WithSeen(f, l, s)
           h == [g EXCEPT !.refund = i]
<1>1. WithAll(f, l, s, i, b) = [h EXCEPT !.before = b] BY DEF WithAll, WithSeen
<1>2. IsProc(g) /\ g.pc = l BY PcSeenSet
<1> HIDE DEF g
<1>3. IsProc(h) /\ h.pc = l BY <1>2, RefundSet
<1> HIDE DEF h
<1>4. IsProc([h EXCEPT !.before = b]) /\ [h EXCEPT !.before = b].pc = l BY <1>3, BeforeSet
<1> QED BY <1>1, <1>4

LEMMA PcAcksSet ==
  ASSUME NEW f, IsProc(f), NEW l, NEW a
  PROVE IsProc(WithAcks(f, l, a)) /\ WithAcks(f, l, a).pc = l
<1> DEFINE g == [f EXCEPT !.pc = l]
<1>1. WithAcks(f, l, a) = [g EXCEPT !.acks = a] BY DEF WithAcks
<1>2. IsProc(g) /\ g.pc = l BY PcSet
<1> HIDE DEF g
<1>3. IsProc([g EXCEPT !.acks = a]) /\ [g EXCEPT !.acks = a].pc = l BY <1>2, AcksSet
<1> QED BY <1>1, <1>3

-----------------------------------------------------------------------------
(* What a step does to one process, and what PayPal's answers are worth after *)
(* it.                                                                     *)

\* What is over at PayPal stays as it is, and nobody can pay what nobody could pay.
Settled ==
  /\ trade \in {"Success", "Failed", "Closed"} => trade' = trade
  /\ Unpayable => Unpayable'

Replaces(p, r) ==
  /\ DOMAIN procs' = Procs /\ procs'[p] = r
  /\ \A q \in Procs \ {p} : procs'[q] = procs[q]

LEMMA BecomeReplaces ==
  ASSUME Shaped, NEW p \in Procs, NEW r, Become(p, r)
  PROVE Replaces(p, r)
BY DEF Become, Shaped, Replaces

LEMMA ShapeStays ==
  ASSUME Shaped, NEW p \in Procs, NEW r, Replaces(p, r), IsProc(r),
         order' \in OrderStatus, trade' \in TradeState, age' \in Age, creator' \in CreatorPC
  PROVE Shaped'
<1>1. ASSUME NEW q \in Procs PROVE IsProc(procs'[q])
  <2>1. CASE q = p BY <2>1 DEF Replaces
  <2>2. CASE q # p BY <2>2 DEF Replaces, Shaped
  <2> QED BY <2>1, <2>2
<1>2. DOMAIN procs' = Procs BY DEF Replaces
<1> QED BY <1>1, <1>2 DEF Shaped, IsProc

\* The reconciler's reading survives whatever it does not replace.
LEMMA ReadStays ==
  ASSUME Shaped, ReadHolds, Settled, UNCHANGED age, NEW p \in Procs, NEW r, Replaces(p, r),
         r.pc # "reconcile"
  PROVE ReadHolds'
<1>1. PayLoop \in Procs BY DEF Procs
<1>2. SUFFICES ASSUME procs'[PayLoop].pc = "reconcile"
      PROVE /\ procs'[PayLoop].seen \in {"Success", "Failed", "Closed"} =>
                 trade' = procs'[PayLoop].seen
            /\ procs'[PayLoop].seen = "Pending" /\ age' = "stale" => Unpayable'
  BY DEF ReadHolds, At
<1>3. procs'[PayLoop] = procs[PayLoop] BY <1>1, <1>2 DEF Replaces
<1> QED BY <1>2, <1>3 DEF ReadHolds, At, Settled

LEMMA RecordableStays ==
  ASSUME NEW seen, Settled, Recordable(seen, trade, Unpayable)
  PROVE Recordable(seen, trade', Unpayable')
BY DEF Settled, Recordable

LEMMA RecordsStay ==
  ASSUME RecordsHold, Settled, NEW p \in Procs, NEW r, Replaces(p, r),
         r.pc = "apply" => Recordable(r.seen, trade', Unpayable')
  PROVE RecordsHold'
<1>1. ASSUME NEW q \in Procs, procs'[q].pc = "apply"
      PROVE Recordable(procs'[q].seen, trade', Unpayable')
  <2>1. CASE q = p BY <1>1, <2>1 DEF Replaces
  <2>2. CASE q # p
    <3>1. procs'[q] = procs[q] BY <2>2 DEF Replaces
    <3>2. Recordable(procs[q].seen, trade, Unpayable) BY <1>1, <3>1 DEF RecordsHold, At
    <3> QED BY <3>1, <3>2, RecordableStays
  <2> QED BY <2>1, <2>2
<1> QED BY <1>1 DEF RecordsHold, At

LEMMA PaidStays ==
  ASSUME PaidIsTaken, Settled, NEW p \in Procs, NEW r, Replaces(p, r),
         trade' = "Success" \/ (/\ order' \notin {"PAID", "REFUNDING"} \cup RefundedStatus
                                /\ refunds' = <<>> /\ r.pc \notin AfterPayment)
  PROVE PaidIsTaken'
<1>1. CASE trade' = "Success" BY <1>1 DEF PaidIsTaken
<1>2. CASE trade' # "Success"
  <2>1. trade # "Success" BY <1>2 DEF Settled
  <2>2. ASSUME NEW q \in Procs PROVE procs'[q].pc \notin AfterPayment
    <3>1. CASE q = p BY <3>1, <1>2 DEF Replaces
    <3>2. CASE q # p BY <3>2, <2>1 DEF Replaces, PaidIsTaken
    <3> QED BY <3>1, <3>2
  <2> QED BY <1>2, <2>2 DEF PaidIsTaken, RefundedStatus, AfterPayment
<1> QED BY <1>1, <1>2

\* A step that moves one process and nothing the others have read.
LEMMA CalmStep ==
  ASSUME IInv, NEW p \in Procs, NEW r, Replaces(p, r), IsProc(r),
         r.pc # "reconcile",
         r.pc = "apply" => Recordable(r.seen, trade, Unpayable),
         r.pc \in AfterPayment => trade = "Success",
         UNCHANGED <<topup, bound, credits, order, refunds, tradeNo, trade, age, creator>>
  PROVE IInv'
<1>1. Settled BY DEF Settled, Unpayable
<1>2. Unpayable' = Unpayable BY DEF Unpayable
<1>3. Shaped' BY ShapeStays DEF IInv, Shaped
<1>4. Created' BY DEF IInv, Created
<1>5. ReadHolds' BY <1>1, ReadStays DEF IInv
<1>6. RecordsHold' BY <1>1, <1>2, RecordsStay DEF IInv
<1>7. WrittenOff' BY <1>2 DEF IInv, WrittenOff
<1>8. PaidIsTaken'
  <2>1. PaidIsTaken BY DEF IInv
  <2> QED BY <1>1, <2>1, PaidStays DEF PaidIsTaken
<1>9. RowTellsCredit' BY DEF IInv, RowTellsCredit
<1> QED BY <1>3, <1>4, <1>5, <1>6, <1>7, <1>8, <1>9 DEF IInv

-----------------------------------------------------------------------------
(* The steps that create the top-up                                         *)

\* Creation and time move no process.
LEMMA QuietProcs ==
  ASSUME IInv, Settled, UNCHANGED procs,
         UNCHANGED age \/ At(PayLoop, "idle")
  PROVE ReadHolds' /\ RecordsHold'
<1>1. ReadHolds' BY DEF IInv, ReadHolds, Settled, At
<1>2. ASSUME NEW q \in Procs, procs[q].pc = "apply"
      PROVE Recordable(procs[q].seen, trade', Unpayable')
  <2>1. Recordable(procs[q].seen, trade, Unpayable) BY <1>2 DEF IInv, RecordsHold, At
  <2> QED BY <2>1, RecordableStays
<1>3. RecordsHold' BY <1>2 DEF RecordsHold, At
<1> QED BY <1>1, <1>3

LEMMA CreationTypes ==
  ASSUME IInv, Create \/ CreatorDies
  PROVE Shaped' /\ UNCHANGED <<procs, age, refunds>>
BY DEF IInv, Shaped, Create, CreatorDies, InsertTopup, InsertOrder, CreatePay, FailOrder,
       BindChannelTradeNo, BindPayOrder, FailTopup, Fault, OrderStatus, TradeState, CreatorPC,
       payVars, gatewayVars, IsProc

LEMMA CreationSettles ==
  ASSUME IInv, Create \/ CreatorDies
  PROVE /\ Settled /\ trade \in {"none", "Pending"} /\ trade' \in {"none", "Pending"}
        /\ creator \notin {"done", "ended"}
<1>1. creator \notin {"done", "ended"}
  BY DEF Create, CreatorDies, InsertTopup, InsertOrder, CreatePay, FailOrder,
         BindChannelTradeNo, BindPayOrder, FailTopup
<1>2. trade \in {"none", "Pending"} BY <1>1 DEF IInv, Created
<1>3. trade' \in {"none", "Pending"}
  BY <1>2 DEF Create, CreatorDies, InsertTopup, InsertOrder, CreatePay, FailOrder,
              BindChannelTradeNo, BindPayOrder, FailTopup
<1>4. creator = "failTopup" => creator' = "ended"
  BY DEF Create, CreatorDies, InsertTopup, InsertOrder, CreatePay, FailOrder,
         BindChannelTradeNo, BindPayOrder, FailTopup
<1>5. Settled BY <1>1, <1>2, <1>3, <1>4 DEF Settled, Unpayable
<1> QED BY <1>1, <1>2, <1>3, <1>5

LEMMA CreationCreated ==
  ASSUME IInv, Create \/ CreatorDies
  PROVE Created'
<1>1. /\ trade' \in {"none", "Pending"} /\ creator \notin {"done", "ended"}
  BY CreationSettles
<1>2. Created BY DEF IInv
<1>3. age' = "young" BY <1>1, <1>2, CreationTypes DEF Created
<1>4. creator' # "start"
  BY DEF Create, CreatorDies, InsertTopup, InsertOrder, CreatePay, FailOrder,
         BindChannelTradeNo, BindPayOrder, FailTopup
<1>5. creator' \in {"bind", "done"} => tradeNo'
  BY <1>2 DEF Created, Create, CreatorDies, InsertTopup, InsertOrder, CreatePay, FailOrder,
              BindChannelTradeNo, BindPayOrder, FailTopup, payVars
<1> QED BY <1>1, <1>3, <1>4, <1>5 DEF Created

LEMMA CreationRows ==
  ASSUME IInv, Create \/ CreatorDies
  PROVE WrittenOff' /\ PaidIsTaken' /\ RowTellsCredit'
<1>1. /\ trade # "Success" /\ trade' \in {"none", "Pending"} /\ Settled
      /\ trade \in {"none", "Pending"} /\ creator \notin {"done", "ended"}
  BY CreationSettles
<1>2. \/ order' = order
      \/ order' = "CREATED"
      \/ order' = "FAILED" /\ creator' = "failTopup"
  BY DEF Create, CreatorDies, InsertTopup, InsertOrder, CreatePay, FailOrder,
         BindChannelTradeNo, BindPayOrder, FailTopup, payVars
<1>3. WrittenOff' BY <1>1, <1>2 DEF IInv, WrittenOff, Unpayable, Settled
<1>4. PaidIsTaken'
  BY <1>1, <1>2, CreationTypes DEF IInv, PaidIsTaken, RefundedStatus
<1>5. credits = 0 /\ topup # "PAID" /\ topup # "FAILED" /\ (creator = "start" => topup = "none")
  BY <1>1 DEF IInv, RowTellsCredit, Created
<1>6. credits' = 0 /\ topup' # "PAID" /\ (topup' = "FAILED" => creator' = "ended")
  BY <1>5 DEF Create, CreatorDies, InsertTopup, InsertOrder, CreatePay, FailOrder,
              BindChannelTradeNo, BindPayOrder, FailTopup, gatewayVars
<1>7. RowTellsCredit' BY <1>6 DEF RowTellsCredit
<1> QED BY <1>3, <1>4, <1>7

LEMMA CreationStep ==
  ASSUME IInv, Create \/ CreatorDies
  PROVE IInv'
<1>1. ReadHolds' /\ RecordsHold' BY QuietProcs, CreationTypes, CreationSettles
<1> QED BY <1>1, CreationTypes, CreationCreated, CreationRows DEF IInv

-----------------------------------------------------------------------------
(* PayPal, the user, and time                                                *)

LEMMA WorldStep ==
  ASSUME IInv, Approve \/ Decide \/ Void \/ GrowsOld \/ \E i \in DOMAIN refunds : DecideRefund(i)
  PROVE IInv'
<1> USE DEF restVars, payVars, gatewayVars
<1>1. UNCHANGED <<topup, bound, credits, order, tradeNo, creator, procs>>
  BY DEF Approve, Decide, Void, GrowsOld, DecideRefund
<1>2. \/ trade' = trade
      \/ trade = "Pending" /\ trade' = "Authorized" /\ creator = "done" /\ age = "young"
      \/ trade \in {"Settling", "Authorized"} /\ trade' \in {"Success", "Failed", "Closed"}
  BY DEF Approve, Decide, Void, GrowsOld, DecideRefund
<1>3. \/ age' = age
      \/ /\ creator \in {"done", "ended"} /\ At(PayLoop, "idle")
         /\ age \in {"young", "lapsed"} /\ age' \in {"lapsed", "stale"}
  BY DEF Approve, Decide, Void, GrowsOld, DecideRefund
<1>4. refunds' = refunds \/ \E i \in DOMAIN refunds : TRUE
  BY DEF Approve, Decide, Void, GrowsOld, DecideRefund
<1>5. Settled BY <1>1, <1>2, <1>3 DEF Settled, Unpayable
<1>6. Shaped' BY <1>1, <1>2, <1>3 DEF IInv, Shaped, IsProc, TradeState, Age
<1>7. Created' BY <1>1, <1>2, <1>3 DEF IInv, Created
<1>8. ReadHolds' /\ RecordsHold' BY <1>1, <1>3, <1>5, QuietProcs
<1>9. WrittenOff' BY <1>1, <1>5 DEF IInv, WrittenOff, Settled
<1>10. PaidIsTaken'
  <2>1. CASE trade = "Success" BY <1>5, <2>1 DEF Settled, PaidIsTaken
  <2>2. CASE trade # "Success"
    <3>1. refunds = <<>> BY <2>2 DEF IInv, PaidIsTaken
    <3>2. refunds' = refunds BY <1>4, <3>1
    <3> QED BY <1>1, <2>2, <3>2 DEF IInv, PaidIsTaken
  <2> QED BY <2>1, <2>2
<1>11. RowTellsCredit' BY <1>1, <1>5 DEF IInv, RowTellsCredit, Settled
<1> QED BY <1>6, <1>7, <1>8, <1>9, <1>10, <1>11 DEF IInv

-----------------------------------------------------------------------------
(* Redirects, webhooks and the reconciler                                    *)

LEMMA RedirectStep ==
  ASSUME IInv, NEW p \in Procs, CompleteRedirect(p)
  PROVE IInv'
<1> DEFINE r == [Idle EXCEPT !.pc = "capture"]
<1>1. IsProc(r) /\ r.pc = "capture" BY IdleIsCalm, PcSet
<1>2. Replaces(p, r) BY BecomeReplaces DEF IInv, CompleteRedirect
<1> HIDE DEF r
<1>3. UNCHANGED <<topup, bound, credits, order, refunds, tradeNo, trade, age, creator>>
  BY DEF CompleteRedirect, gatewayVars, payVars, restVars
<1> QED BY <1>1, <1>2, <1>3, CalmStep DEF AfterPayment

\* What the reconciler reads of an order without a trade number is true, too.
LEMMA QueryStep ==
  ASSUME IInv, QueryTrade
  PROVE IInv'
<1> DEFINE seen == IF tradeNo THEN trade ELSE "Pending"
           r == WithSeen(Idle, "reconcile", seen)
<1>1. IsProc(r) /\ r.pc = "reconcile" /\ r.seen = seen
  <2> HIDE DEF seen
  <2> QED BY IdleIsCalm, PcSeenSet
<1>2. PayLoop \in Procs BY DEF Procs
<1>3. Replaces(PayLoop, r)
  <2>1. Become(PayLoop, r) BY DEF QueryTrade, WithSeen
  <2> QED BY <1>2, <2>1, BecomeReplaces DEF IInv
<1>4. UNCHANGED <<topup, bound, credits, order, refunds, tradeNo, trade, age, creator>>
  BY DEF QueryTrade, gatewayVars, payVars, restVars
<1> HIDE DEF r
<1>5. Settled /\ Unpayable' = Unpayable BY <1>4 DEF Settled, Unpayable
<1>6. Shaped' BY <1>1, <1>2, <1>3, <1>4, ShapeStays DEF IInv, Shaped
<1>7. Created' BY <1>4 DEF IInv, Created
<1>8. ReadHolds'
  <2>1. seen \in {"Success", "Failed", "Closed"} => trade = seen OBVIOUS
  <2>2. seen = "Pending" /\ age = "stale" => Unpayable
    BY DEF IInv, Created, Unpayable
  <2>3. procs'[PayLoop].seen = seen BY <1>1, <1>3 DEF Replaces
  <2> QED BY <1>4, <1>5, <2>1, <2>2, <2>3 DEF ReadHolds
<1>9. RecordsHold' BY <1>1, <1>2, <1>3, <1>5, RecordsStay DEF IInv
<1>10. WrittenOff' BY <1>4, <1>5 DEF IInv, WrittenOff
<1>11. PaidIsTaken'
  <2>1. PaidIsTaken BY DEF IInv
  <2> QED BY <1>1, <1>2, <1>3, <1>4, <1>5, <2>1, PaidStays DEF PaidIsTaken, AfterPayment
<1>12. RowTellsCredit' BY <1>4 DEF IInv, RowTellsCredit
<1> QED BY <1>6, <1>7, <1>8, <1>9, <1>10, <1>11, <1>12 DEF IInv

\* Whatever the reconciler hands to be recorded is so, or cannot be paid any more.
LEMMA ReconcileStep ==
  ASSUME IInv, ReconcileOne
  PROVE IInv'
<1>1. PayLoop \in Procs BY DEF Procs
<1>2. UNCHANGED <<topup, bound, credits, order, refunds, tradeNo, trade, age, creator>>
  BY DEF ReconcileOne, gatewayVars, payVars, restVars
<1>3. PICK r : Become(PayLoop, r) /\ IsProc(r)
               /\ \/ r.pc = "idle" \/ r.pc = "capture"
                  \/ /\ r.pc = "apply" /\ r.seen = procs[PayLoop].seen
                     /\ r.seen \in {"Success", "Failed", "Closed"}
                  \/ /\ r.pc = "apply" /\ r.seen = "Closed"
                     /\ procs[PayLoop].seen = "Pending" /\ age = "stale"
  <2> DEFINE seen == procs[PayLoop].seen
  <2>1. CASE seen = "Authorized"
    <3> WITNESS [Idle EXCEPT !.pc = "capture"]
    <3> QED BY <2>1, IdleIsCalm, PcSet DEF ReconcileOne
  <2>2. CASE seen \in {"Success", "Failed", "Closed"}
    <3> WITNESS WithSeen(Idle, "apply", seen)
    <3>1. Become(PayLoop, WithSeen(Idle, "apply", seen))
      BY <2>2 DEF ReconcileOne, WithSeen
    <3> QED BY <2>2, <3>1, IdleIsCalm, PcSeenSet
  <2>3. CASE seen = "Pending" /\ age = "stale"
    <3> WITNESS WithSeen(Idle, "apply", "Closed")
    <3>1. Become(PayLoop, WithSeen(Idle, "apply", "Closed"))
      BY <2>3 DEF ReconcileOne, WithSeen
    <3> QED BY <2>3, <3>1, IdleIsCalm, PcSeenSet
  <2>4. CASE ~ (\/ seen = "Authorized" \/ seen \in {"Success", "Failed", "Closed"}
                \/ seen = "Pending" /\ age = "stale")
    <3> WITNESS Idle
    <3> QED BY <2>4, IdleIsCalm DEF ReconcileOne, Ends
  <2> QED BY <2>1, <2>2, <2>3, <2>4
<1>4. Replaces(PayLoop, r) BY <1>1, <1>3, BecomeReplaces DEF IInv
<1>5. r.pc = "apply" => Recordable(r.seen, trade, Unpayable)
  BY <1>3 DEF IInv, ReadHolds, ReconcileOne, Recordable
<1>6. r.pc # "reconcile" /\ r.pc \notin AfterPayment BY <1>3 DEF AfterPayment
<1> QED BY <1>1, <1>2, <1>3, <1>4, <1>5, <1>6, CalmStep

\* A capture hands on what it has just decided.
LEMMA CaptureStep ==
  ASSUME IInv, NEW p \in Procs, Capture(p)
  PROVE IInv'
<1>1. /\ UNCHANGED <<topup, bound, credits, order, refunds, tradeNo, age, creator>>
      /\ \/ trade' = trade
         \/ trade = "Authorized" /\ trade' \in {"Success", "Settling", "Failed"}
  BY DEF Capture, gatewayVars, payVars
<1>2. PICK r : /\ Become(p, r) /\ IsProc(r) /\ r.pc \in {"idle", "apply"}
               /\ r.pc = "apply" => /\ r.seen = trade'
                                    /\ trade' \in {"Success", "Settling", "Failed"}
  <2>1. CASE Ends(p)
    <3> WITNESS Idle
    <3> QED BY <2>1, IdleIsCalm DEF Ends
  <2>2. CASE ~ Ends(p)
    <3> WITNESS WithSeen(Idle, "apply", trade')
    <3>1. Become(p, WithSeen(Idle, "apply", trade')) BY <2>2 DEF Capture, WithSeen
    <3>2. trade' \in {"Success", "Settling", "Failed"} BY <2>2 DEF Capture
    <3> QED BY <3>1, <3>2, IdleIsCalm, PcSeenSet
  <2> QED BY <2>1, <2>2
<1>3. Replaces(p, r) BY <1>2, BecomeReplaces DEF IInv
<1>4. Settled BY <1>1 DEF Settled, Unpayable
<1>5. Shaped' BY <1>1, <1>2, <1>3, ShapeStays DEF IInv, Shaped, TradeState
<1>6. Created' BY <1>1 DEF IInv, Created
<1>7. ReadHolds' BY <1>1, <1>2, <1>3, <1>4, ReadStays DEF IInv
<1>8. RecordsHold'
  <2>1. r.pc = "apply" => Recordable(r.seen, trade', Unpayable') BY <1>2 DEF Recordable
  <2> QED BY <1>3, <1>4, <2>1, RecordsStay DEF IInv
<1>9. WrittenOff' BY <1>1, <1>4 DEF IInv, WrittenOff, Settled
<1>10. PaidIsTaken'
  <2>1. PaidIsTaken BY DEF IInv
  <2>2. trade = "Success" => trade' = "Success" BY <1>4 DEF Settled
  <2> QED BY <1>1, <1>2, <1>3, <1>4, <2>1, <2>2, PaidStays DEF PaidIsTaken, AfterPayment
<1>11. RowTellsCredit' BY <1>1, <1>4 DEF IInv, RowTellsCredit, Settled
<1> QED BY <1>5, <1>6, <1>7, <1>8, <1>9, <1>10, <1>11 DEF IInv

LEMMA RecordStep ==
  ASSUME IInv, NEW p \in Procs, NEW seen, Recordable(seen, trade, Unpayable), Record(p, seen)
  PROVE IInv'
<1>1. UNCHANGED <<topup, bound, credits, refunds, tradeNo, trade, age, creator>>
  BY DEF Record, gatewayVars, restVars
<1>2. PICK r : Become(p, r) /\ IsProc(r) /\ r.pc \in {"idle", "publish"}
  <2>1. CASE Ends(p)
    <3> WITNESS Idle
    <3> QED BY <2>1, IdleIsCalm DEF Ends
  <2>2. CASE ~ Ends(p)
    <3> WITNESS [Idle EXCEPT !.pc = "publish"]
    <3>1. Become(p, [Idle EXCEPT !.pc = "publish"]) BY <2>2 DEF Record
    <3> QED BY <3>1, IdleIsCalm, PcSet
  <2> QED BY <2>1, <2>2
<1>3. Replaces(p, r) BY <1>2, BecomeReplaces DEF IInv
<1>4. Settled /\ Unpayable' = Unpayable BY <1>1 DEF Settled, Unpayable
<1>5. order' = order \/ order' = Outcome(seen) BY DEF Record
<1>6. Outcome(seen) \in {"PAID", "CLOSED", "FAILED", "CREATED"} BY DEF Outcome
<1>7. Shaped' BY <1>1, <1>2, <1>3, <1>5, <1>6, ShapeStays DEF IInv, Shaped, OrderStatus
<1>8. Created' BY <1>1 DEF IInv, Created
<1>9. ReadHolds' BY <1>1, <1>2, <1>3, <1>4, ReadStays DEF IInv
<1>10. RecordsHold' BY <1>2, <1>3, <1>4, RecordsStay DEF IInv
<1>11. WrittenOff' BY <1>1, <1>4, <1>5 DEF IInv, WrittenOff, Outcome, Recordable
<1>12. PaidIsTaken'
  <2>1. PaidIsTaken BY DEF IInv
  <2>2. Outcome(seen) = "PAID" => trade = "Success" BY DEF Outcome, Recordable
  <2>3. trade # "Success" => /\ order' \notin {"PAID", "REFUNDING"} \cup RefundedStatus
                             /\ refunds' = <<>>
    BY <1>1, <1>5, <1>6, <2>1, <2>2 DEF PaidIsTaken, RefundedStatus
  <2> QED BY <1>1, <1>2, <1>3, <1>4, <2>1, <2>3, PaidStays DEF AfterPayment
<1>13. RowTellsCredit' BY <1>1 DEF IInv, RowTellsCredit
<1> QED BY <1>7, <1>8, <1>9, <1>10, <1>11, <1>12, <1>13 DEF IInv

LEMMA ApplyStep ==
  ASSUME IInv, NEW p \in Procs, ApplyNotifyResult(p)
  PROVE IInv'
BY RecordStep DEF ApplyNotifyResult, IInv, RecordsHold

LEMMA NotifyStep ==
  ASSUME IInv, NEW p \in Procs, HandleNotify(p)
  PROVE IInv'
<1> DEFINE seen == IF trade = "Success" THEN "Success" ELSE "Failed"
<1>1. Recordable(seen, trade, Unpayable) BY DEF HandleNotify, Recordable
<1>2. Record(p, seen) BY DEF HandleNotify
<1> QED BY <1>1, <1>2, RecordStep

LEMMA EndsStep ==
  ASSUME IInv, NEW p \in Procs, Publish(p) \/ Crash(p)
  PROVE IInv'
<1>1. Replaces(p, Idle) BY BecomeReplaces DEF IInv, Publish, Crash, Ends
<1>2. UNCHANGED <<topup, bound, credits, order, refunds, tradeNo, trade, age, creator>>
  BY DEF Publish, Crash, gatewayVars, payVars
<1> QED BY <1>1, <1>2, IdleIsCalm, CalmStep DEF AfterPayment

-----------------------------------------------------------------------------
(* The credit                                                               *)

LEMMA PaidStepsToSettle ==
  ASSUME IInv, NEW p \in Procs, HandleTopupPaidMsg(p) \/ (p = WalletLoop /\ ReconcileTopupsOnce)
  PROVE IInv'
<1>1. UNCHANGED <<topup, bound, credits, order, refunds, tradeNo, trade, age, creator>>
  BY DEF HandleTopupPaidMsg, ReconcileTopupsOnce, gatewayVars, payVars, restVars
<1>2. CASE procs' = procs
  <2>1. Settled /\ Unpayable' = Unpayable BY <1>1 DEF Settled, Unpayable
  <2>2. ReadHolds' /\ RecordsHold' BY <1>1, <1>2, <2>1, QuietProcs
  <2> QED BY <1>1, <1>2, <2>1, <2>2
       DEF IInv, Shaped, IsProc, Created, WrittenOff, PaidIsTaken, RowTellsCredit
<1>3. CASE procs' # procs
  <2>1. order = "PAID" /\ trade = "Success"
    BY <1>3 DEF HandleTopupPaidMsg, ReconcileTopupsOnce, IInv, PaidIsTaken
  <2>2. PICK r : Become(p, r) /\ IsProc(r) /\ r.pc = "settle"
    <3>1. CASE HandleTopupPaidMsg(p)
      <4> WITNESS WithAcks(Idle, "settle", TRUE)
      <4>1. Become(p, WithAcks(Idle, "settle", TRUE))
        BY <1>3, <3>1 DEF HandleTopupPaidMsg, WithAcks
      <4> QED BY <4>1, IdleIsCalm, PcAcksSet
    <3>2. CASE p = WalletLoop /\ ReconcileTopupsOnce
      <4> WITNESS [Idle EXCEPT !.pc = "settle"]
      <4>1. Become(p, [Idle EXCEPT !.pc = "settle"]) BY <3>2 DEF ReconcileTopupsOnce
      <4> QED BY <4>1, IdleIsCalm, PcSet
    <3> QED BY <3>1, <3>2
  <2>3. Replaces(p, r) BY <2>2, BecomeReplaces DEF IInv
  <2> QED BY <1>1, <2>1, <2>2, <2>3, CalmStep
<1> QED BY <1>2, <1>3

\* The row is read under its lock: the credit is given once.
LEMMA SettleStep ==
  ASSUME IInv, NEW p \in Procs, SettleTopup(p)
  PROVE IInv'
<1>1. UNCHANGED <<order, refunds, tradeNo, trade, age, creator>>
  BY DEF SettleTopup, payVars
<1>2. Replaces(p, Idle) BY BecomeReplaces DEF IInv, SettleTopup, Ends
<1>3. Settled /\ Unpayable' = Unpayable BY <1>1 DEF Settled, Unpayable
<1>4. trade = "Success" BY DEF IInv, PaidIsTaken, AfterPayment, SettleTopup, At
<1>5. Shaped' BY <1>1, <1>2, IdleIsCalm, ShapeStays DEF IInv, Shaped
<1>6. Created'
  <2>1. trade' \notin {"none", "Pending"} /\ creator = "done"
    BY <1>1, <1>4 DEF IInv, Created
  <2> QED BY <1>1, <2>1 DEF IInv, Created
<1>7. ReadHolds' BY <1>1, <1>2, <1>3, IdleIsCalm, ReadStays DEF IInv
<1>8. RecordsHold' BY <1>2, <1>3, IdleIsCalm, RecordsStay DEF IInv
<1>9. WrittenOff' BY <1>1, <1>3 DEF IInv, WrittenOff
<1>10. PaidIsTaken' BY <1>1, <1>4 DEF PaidIsTaken
<1>11. RowTellsCredit'
  <2>1. RowTellsCredit BY DEF IInv
  <2>2. CASE topup = "PENDING" BY <1>1, <1>4, <2>1, <2>2 DEF RowTellsCredit, SettleTopup
  <2>3. CASE topup # "PENDING"
    BY <1>1, <2>1, <2>3 DEF RowTellsCredit, SettleTopup, gatewayVars
  <2> QED BY <2>2, <2>3
<1> QED BY <1>5, <1>6, <1>7, <1>8, <1>9, <1>10, <1>11 DEF IInv

-----------------------------------------------------------------------------
(* Refunds: all of them are of money PayPal has taken                         *)

LEMMA RefundStep ==
  ASSUME IInv, NEW p \in Procs, NEW r, Become(p, r), IsProc(r),
         trade = "Success", r.pc \notin {"reconcile", "apply"},
         UNCHANGED <<topup, bound, credits, tradeNo, trade, age, creator>>,
         order' = order \/ order' \in {"PAID", "REFUNDING"} \cup RefundedStatus
  PROVE IInv'
<1>1. Replaces(p, r) BY BecomeReplaces DEF IInv
<1>2. Settled /\ Unpayable' = Unpayable BY DEF Settled, Unpayable
<1>3. Shaped' BY <1>1, ShapeStays DEF IInv, Shaped, OrderStatus
<1>4. Created' BY DEF IInv, Created
<1>5. ReadHolds' BY <1>1, <1>2, ReadStays DEF IInv
<1>6. RecordsHold' BY <1>1, <1>2, RecordsStay DEF IInv
<1>7. WrittenOff' BY <1>2 DEF IInv, WrittenOff, RefundedStatus
<1>8. PaidIsTaken' BY DEF PaidIsTaken
<1>9. RowTellsCredit' BY DEF IInv, RowTellsCredit
<1> QED BY <1>3, <1>4, <1>5, <1>6, <1>7, <1>8, <1>9 DEF IInv

LEMMA PrepareStep ==
  ASSUME IInv, NEW p \in Procs, NEW n \in 1..Amount, PrepareRefund(p, n)
  PROVE IInv'
<1> DEFINE r == WithRefund(Idle, "askRefund", Len(refunds'), SumRefunded)
<1>1. Become(p, r) BY DEF PrepareRefund, WithRefund
<1>2. IsProc(r) /\ r.pc = "askRefund" BY IdleIsCalm, PcRefundSet
<1>3. trade = "Success"
  BY DEF PrepareRefund, IInv, PaidIsTaken, RefundedStatus
<1>4. /\ UNCHANGED <<topup, bound, credits, tradeNo, trade, age, creator>>
      /\ order' = "REFUNDING"
  BY DEF PrepareRefund, gatewayVars, restVars
<1> HIDE DEF r
<1> QED BY <1>1, <1>2, <1>3, <1>4, RefundStep

LEMMA RefundNotifyStep ==
  ASSUME IInv, NEW p \in Procs, NEW i \in DOMAIN refunds, HandleRefundNotify(p, i)
  PROVE IInv'
<1> DEFINE r == WithAll(Idle, "applyRefund", "Success", i, SumRefunded - refunds[i].amount)
<1>1. Become(p, r) BY DEF HandleRefundNotify, WithAll
<1>2. IsProc(r) /\ r.pc = "applyRefund" BY IdleIsCalm, PcAllSet
<1>3. trade = "Success" BY DEF IInv, PaidIsTaken
<1>4. UNCHANGED <<topup, bound, credits, order, tradeNo, trade, age, creator>>
  BY DEF HandleRefundNotify, gatewayVars, payVars, restVars
<1> HIDE DEF r
<1> QED BY <1>1, <1>2, <1>3, <1>4, RefundStep

LEMMA AskStep ==
  ASSUME IInv, NEW p \in Procs, AskRefund(p)
  PROVE IInv'
<1>1. trade = "Success" BY DEF IInv, PaidIsTaken, AfterPayment, AskRefund, At
<1>2. UNCHANGED <<topup, bound, credits, order, tradeNo, trade, age, creator>>
  BY DEF AskRefund, gatewayVars
<1>3. IsProc(procs[p]) BY DEF IInv, Shaped
<1>4. CASE Ends(p) BY <1>1, <1>2, <1>4, IdleIsCalm, RefundStep DEF Ends
<1>5. CASE ~ Ends(p)
  <2>1. PICK answer : procs' = [procs EXCEPT ![p].pc = "applyRefund", ![p].seen = answer]
    BY <1>5 DEF AskRefund
  <2>2. Become(p, WithSeen(procs[p], "applyRefund", answer))
    <3>1. procs' = [procs EXCEPT ![p] = WithSeen(procs[p], "applyRefund", answer)]
      BY <2>1 DEF WithSeen
    <3> QED BY <3>1 DEF Become
  <2>3. /\ IsProc(WithSeen(procs[p], "applyRefund", answer))
        /\ WithSeen(procs[p], "applyRefund", answer).pc = "applyRefund"
    BY <1>3, PcSeenSet
  <2> QED BY <1>1, <1>2, <2>2, <2>3, RefundStep
<1> QED BY <1>4, <1>5

LEMMA UpdateRefundStep ==
  ASSUME IInv, NEW p \in Procs, UpdateRefundStatus(p)
  PROVE IInv'
<1>1. trade = "Success" BY DEF IInv, PaidIsTaken, AfterPayment, UpdateRefundStatus, At
<1>2. UNCHANGED <<topup, bound, credits, order, tradeNo, trade, age, creator>>
  BY DEF UpdateRefundStatus, gatewayVars, restVars
<1>3. IsProc(procs[p]) BY DEF IInv, Shaped
<1>4. CASE Ends(p) BY <1>1, <1>2, <1>4, IdleIsCalm, RefundStep DEF Ends
<1>5. CASE ~ Ends(p)
  <2>1. procs' = [procs EXCEPT ![p].pc = "orderRefund"] BY <1>5 DEF UpdateRefundStatus
  <2>2. Become(p, [procs[p] EXCEPT !.pc = "orderRefund"]) BY <2>1 DEF Become
  <2>3. /\ IsProc([procs[p] EXCEPT !.pc = "orderRefund"])
        /\ [procs[p] EXCEPT !.pc = "orderRefund"].pc = "orderRefund"
    BY <1>3, PcSet
  <2> QED BY <1>1, <1>2, <2>2, <2>3, RefundStep
<1> QED BY <1>4, <1>5

LEMMA OrderRefundStep ==
  ASSUME IInv, NEW p \in Procs, UpdateOrderRefundStatus(p)
  PROVE IInv'
<1>1. trade = "Success" BY DEF IInv, PaidIsTaken, AfterPayment, UpdateOrderRefundStatus, At
<1>2. UNCHANGED <<topup, bound, credits, tradeNo, trade, age, creator>>
  BY DEF UpdateOrderRefundStatus, gatewayVars, restVars
<1>3. order' \in {"PAID"} \cup RefundedStatus
  BY DEF UpdateOrderRefundStatus, RefundedStatus
<1>4. Become(p, Idle) BY DEF UpdateOrderRefundStatus, Ends
<1> QED BY <1>1, <1>2, <1>3, <1>4, IdleIsCalm, RefundStep

-----------------------------------------------------------------------------
(* The theorems                                                             *)

LEMMA InitHolds == Init => IInv
<1> SUFFICES ASSUME Init PROVE IInv OBVIOUS
<1>1. \A p \in Procs : procs[p] = Idle BY DEF Init
<1>2. Shaped
  <2>1. \A p \in Procs : IsProc(procs[p]) BY <1>1, IdleIsCalm
  <2> QED BY <2>1 DEF Init, Shaped, OrderStatus, TradeState, Age, CreatorPC
<1>3. \A p \in Procs : procs[p].pc = "idle" BY <1>1, IdleIsCalm
<1>4. PayLoop \in Procs BY DEF Procs
<1>5. Created /\ WrittenOff /\ RowTellsCredit
  BY DEF Init, Created, WrittenOff, RowTellsCredit
<1>6. ReadHolds /\ RecordsHold BY <1>3, <1>4 DEF ReadHolds, RecordsHold, At
<1>7. PaidIsTaken BY <1>3 DEF Init, PaidIsTaken, AfterPayment, RefundedStatus
<1> QED BY <1>2, <1>5, <1>6, <1>7 DEF IInv

LEMMA StutterHolds == IInv /\ UNCHANGED vars => IInv'
<1> SUFFICES ASSUME IInv, UNCHANGED vars PROVE IInv' OBVIOUS
<1>1. UNCHANGED <<topup, bound, credits, order, tradeNo, refunds, trade, age, creator, procs>>
  BY DEF vars
<1>2. Settled /\ Unpayable' = Unpayable BY <1>1 DEF Settled, Unpayable
<1>3. ReadHolds' /\ RecordsHold' BY <1>1, <1>2, QuietProcs
<1> QED BY <1>1, <1>2, <1>3
     DEF IInv, Shaped, IsProc, Created, WrittenOff, PaidIsTaken, RowTellsCredit

LEMMA NextHolds == IInv /\ [Next]_vars => IInv'
<1> SUFFICES ASSUME IInv, [Next]_vars PROVE IInv' OBVIOUS
<1>1. CASE Create \/ CreatorDies BY <1>1, CreationStep
<1>2. CASE Approve \/ Decide \/ Void \/ GrowsOld \/ \E i \in DOMAIN refunds : DecideRefund(i)
  BY <1>2, WorldStep
<1>3. CASE Reconcile BY <1>3, QueryStep, ReconcileStep DEF Reconcile
<1>4. CASE ReconcileTopupsOnce
  <2>1. WalletLoop \in Procs BY DEF Procs
  <2> QED BY <1>4, <2>1, PaidStepsToSettle
<1>5. ASSUME NEW p \in Procs, Proceed(p) PROVE IInv'
  BY <1>5, CaptureStep, ApplyStep, EndsStep, SettleStep, AskStep, UpdateRefundStep,
     OrderRefundStep DEF Proceed
<1>6. ASSUME NEW p \in Procs, Request(p) PROVE IInv'
  BY <1>6, NotifyStep, RedirectStep, PaidStepsToSettle, PrepareStep, RefundNotifyStep
     DEF Request
<1>7. ASSUME NEW p \in Procs, Crash(p) PROVE IInv' BY <1>7, EndsStep
<1>8. CASE UNCHANGED vars BY <1>8, StutterHolds
<1> QED BY <1>1, <1>2, <1>3, <1>4, <1>5, <1>6, <1>7, <1>8 DEF Next

\* The invariant holds in every reachable state: what the handlers remember of PayPal is
\* still so when they write it down.
THEOREM InvariantHolds == Spec => []IInv
BY InitHolds, NextHolds, PTL DEF Spec

\* An order whose payment PayPal has taken, or still reviews, is never closed or failed, for
\* any number of redirects, webhooks and reconciliations (ReconcileOne, Mark*).
THEOREM TakenStaysOpen == Spec => []TakenNeverWrittenOff
<1>1. IInv => TakenNeverWrittenOff BY DEF IInv, WrittenOff, Unpayable, TakenNeverWrittenOff
<1> QED BY <1>1, InvariantHolds, PTL

\* A top-up is credited at most once, for money PayPal has taken, exactly when its row says
\* so, for any number of deliveries of the event and of reconciliations (SettleTopup).
THEOREM CreditOnceAndBacked == Spec => []CreditIsBacked
<1>1. IInv => CreditIsBacked BY DEF IInv, RowTellsCredit, Created, CreditIsBacked
<1> QED BY <1>1, InvariantHolds, PTL

-----------------------------------------------------------------------------
(* Sums of refunds                                                           *)

\* The sum of the amounts of some rows of any table of refunds.
Worth(table, rows) ==
  Cardinality({u \in rows \X (1..Amount) : u[2] <= table[u[1]].amount})

LEMMA TotalIsWorth == \A rows : Total(rows) = Worth(refunds, rows)
BY DEF Total, Units, Worth

LEMMA WorthType ==
  ASSUME NEW table, NEW rows, IsFiniteSet(rows)
  PROVE /\ IsFiniteSet({u \in rows \X (1..Amount) : u[2] <= table[u[1]].amount})
        /\ Worth(table, rows) \in Nat
<1>1. IsFiniteSet(1..Amount) BY FS_Interval
<1>2. IsFiniteSet(rows \X (1..Amount)) BY <1>1, FS_Product
<1>3. IsFiniteSet({u \in rows \X (1..Amount) : u[2] <= table[u[1]].amount})
  BY <1>2, FS_Subset
<1> QED BY <1>3, FS_CardinalityType DEF Worth

LEMMA WorthOfNone == \A table : Worth(table, {}) = 0
<1> TAKE table
<1>1. {u \in {} \X (1..Amount) : u[2] <= table[u[1]].amount} = {} OBVIOUS
<1> QED BY <1>1, FS_EmptySet DEF Worth

\* Rows that two tables agree about are worth the same in both.
LEMMA WorthSame ==
  ASSUME NEW table, NEW other, NEW rows,
         \A i \in rows : other[i].amount = table[i].amount
  PROVE Worth(other, rows) = Worth(table, rows)
<1>1. {u \in rows \X (1..Amount) : u[2] <= other[u[1]].amount} =
      {u \in rows \X (1..Amount) : u[2] <= table[u[1]].amount}
  OBVIOUS
<1> QED BY <1>1 DEF Worth

LEMMA WorthGrows ==
  ASSUME NEW table, NEW rows, IsFiniteSet(rows), NEW part \in SUBSET rows
  PROVE Worth(table, part) <= Worth(table, rows)
<1> DEFINE U(set) == {u \in set \X (1..Amount) : u[2] <= table[u[1]].amount}
<1>1. U(part) \in SUBSET U(rows) OBVIOUS
<1>2. IsFiniteSet(U(rows)) BY WorthType
<1> HIDE DEF U
<1>3. Cardinality(U(part)) <= Cardinality(U(rows)) BY <1>1, <1>2, FS_Subset
<1> QED BY <1>3 DEF Worth, U

LEMMA WorthOfOne ==
  ASSUME NEW table, NEW i, table[i].amount \in 1..Amount
  PROVE Worth(table, {i}) = table[i].amount
<1> DEFINE U == {u \in {i} \X (1..Amount) : u[2] <= table[u[1]].amount}
           V == 1..table[i].amount
           f == [unit \in V |-> <<i, unit>>]
<1>1. f \in [V -> U] OBVIOUS
<1>2. \A u \in U : \E unit \in V : f[unit] = u OBVIOUS
<1>3. \A a, b \in V : f[a] = f[b] => a = b OBVIOUS
<1>4. f \in Bijection(V, U)
  BY <1>1, <1>2, <1>3 DEF Bijection, Injection, Surjection, IsInjective
<1>5. ExistsBijection(V, U) BY <1>4 DEF ExistsBijection
<1>6. IsFiniteSet(V) /\ Cardinality(V) = table[i].amount
  <2>1. PICK n \in 1..Amount : n = table[i].amount OBVIOUS
  <2>2. n \in Int /\ 1 \in Int /\ ~ (1 > n) /\ n - 1 + 1 = n OBVIOUS
  <2>3. IsFiniteSet(1..n) /\ Cardinality(1..n) = IF 1 > n THEN 0 ELSE n - 1 + 1
    BY <2>2, FS_Interval, Zenon
  <2>4. Cardinality(1..n) = n BY <2>2, <2>3, Zenon
  <2> QED BY <2>1, <2>3, <2>4
<1>7. Cardinality(U) = Cardinality(V) BY <1>5, <1>6, FS_Bijection
<1> QED BY <1>6, <1>7 DEF Worth

LEMMA WorthAdds ==
  ASSUME NEW table, NEW rows, IsFiniteSet(rows), NEW i, i \notin rows,
         table[i].amount \in 1..Amount
  PROVE Worth(table, rows \cup {i}) = Worth(table, rows) + table[i].amount
<1> DEFINE U(set) == {u \in set \X (1..Amount) : u[2] <= table[u[1]].amount}
<1>1. U(rows \cup {i}) = U(rows) \cup U({i}) OBVIOUS
<1>2. U(rows) \cap U({i}) = {} OBVIOUS
<1>3. IsFiniteSet(U(rows)) BY WorthType
<1>4. IsFiniteSet({i}) BY FS_Singleton
<1>5. IsFiniteSet(U({i})) BY <1>4, WorthType
<1>6. Cardinality(U({i})) = table[i].amount BY WorthOfOne DEF Worth
<1>7. Cardinality(U(rows)) \in Nat BY WorthType DEF Worth
<1> HIDE DEF U
<1>8. Cardinality(U(rows \cup {i})) = Cardinality(U(rows)) + Cardinality(U({i}))
                                      - Cardinality({})
  BY <1>1, <1>2, <1>3, <1>5, FS_Union
<1>9. Cardinality(U(rows \cup {i})) = Cardinality(U(rows)) + table[i].amount
  BY <1>6, <1>7, <1>8, FS_EmptySet
<1> QED BY <1>9 DEF Worth, U

(* Types                                                                     *)

LEMMA IdleType == Idle \in Proc
BY DEF Idle, Proc, PC, TradeState

LEMMA WithSeenType ==
  ASSUME NEW f \in Proc, NEW l \in PC, NEW s \in TradeState \cup ReturnState
  PROVE WithSeen(f, l, s) \in Proc
BY DEF WithSeen, Proc

LEMMA WithPcType ==
  ASSUME NEW f \in Proc, NEW l \in PC
  PROVE [f EXCEPT !.pc = l] \in Proc
BY DEF Proc

LEMMA WithAllType ==
  ASSUME NEW f \in Proc, NEW l \in PC, NEW s \in TradeState \cup ReturnState,
         NEW i \in 0..MaxRefunds, NEW b \in Int
  PROVE WithAll(f, l, s, i, b) \in Proc
BY DEF WithAll, Proc

LEMMA WithRefundType ==
  ASSUME NEW f \in Proc, NEW l \in PC, NEW i \in 0..MaxRefunds, NEW b \in Int
  PROVE WithRefund(f, l, i, b) \in Proc
BY DEF WithRefund, Proc

LEMMA WithAcksType ==
  ASSUME NEW f \in Proc, NEW l \in PC, NEW a \in BOOLEAN
  PROVE WithAcks(f, l, a) \in Proc
BY DEF WithAcks, Proc

LEMMA BecomeType ==
  ASSUME procs \in [Procs -> Proc], NEW p \in Procs, NEW r \in Proc, Become(p, r)
  PROVE procs' \in [Procs -> Proc]
BY DEF Become

LEMMA EndsType ==
  ASSUME procs \in [Procs -> Proc], NEW p \in Procs, Ends(p)
  PROVE procs' \in [Procs -> Proc]
BY IdleType, BecomeType DEF Ends

LEMMA FaultType ==
  ASSUME faults \in 0..MaxFaults, Fault \/ UNCHANGED faults
  PROVE faults' \in 0..MaxFaults
BY DEF Fault

\* A table of refunds, one row of it written.
LEMMA RowWritten ==
  ASSUME refunds \in Seq(Refund), NEW i, NEW row, i \in DOMAIN refunds => row \in Refund,
         refunds' = [refunds EXCEPT ![i] = row]
  PROVE /\ refunds' \in Seq(Refund) /\ Len(refunds') = Len(refunds)
        /\ DOMAIN refunds' = DOMAIN refunds
        /\ \A j \in DOMAIN refunds : refunds'[j] = IF j = i THEN row ELSE refunds[j]
<1>1. DOMAIN refunds = 1..Len(refunds) /\ Len(refunds) \in Nat OBVIOUS
<1>2. refunds \in [1..Len(refunds) -> Refund] OBVIOUS
<1>3. refunds' \in [1..Len(refunds) -> Refund] BY <1>1, <1>2
<1> QED BY <1>1, <1>2, <1>3

LEMMA RowsFinite ==
  ASSUME refunds \in Seq(Refund)
  PROVE \A rows \in SUBSET DOMAIN refunds : IsFiniteSet(rows) /\ Total(rows) \in Nat
<1>1. IsFiniteSet(1..Len(refunds)) BY FS_Interval
<1>2. DOMAIN refunds = 1..Len(refunds) OBVIOUS
<1> TAKE rows \in SUBSET DOMAIN refunds
<1>3. IsFiniteSet(rows) BY <1>1, <1>2, FS_Subset
<1> QED BY <1>3, WorthType, TotalIsWorth

\* The rows and PayPal's answers beside the processes and the table of refunds.
PlainTypes ==
  /\ topup \in TopupStatus /\ bound \in BOOLEAN /\ credits \in Nat
  /\ order \in OrderStatus /\ tradeNo \in BOOLEAN
  /\ trade \in TradeState
  /\ age \in Age /\ event \in 0..MaxDeliver
  /\ creator \in CreatorPC /\ faults \in 0..MaxFaults

RefundTypes == refunds \in Seq(Refund) /\ Len(refunds) <= MaxRefunds

LEMMA RowType ==
  ASSUME TypeOK
  PROVE \A i \in DOMAIN refunds :
          refunds[i] \in Refund /\ i \in 1..Len(refunds) /\ i \in 0..MaxRefunds
<1>1. refunds \in Seq(Refund) /\ Len(refunds) <= MaxRefunds BY DEF TypeOK
<1>2. DOMAIN refunds = 1..Len(refunds) /\ Len(refunds) \in Nat BY <1>1
<1> QED BY <1>1, <1>2

LEMMA CreateType ==
  ASSUME TypeOK, Create \/ CreatorDies
  PROVE TypeOK'
<1>1. UNCHANGED <<refunds, procs>>
  BY DEF Create, CreatorDies, InsertTopup, InsertOrder, CreatePay, FailOrder,
         BindChannelTradeNo, BindPayOrder, FailTopup, payVars
<1>2. Fault \/ UNCHANGED faults
  BY DEF Create, CreatorDies, InsertTopup, InsertOrder, CreatePay, FailOrder,
         BindChannelTradeNo, BindPayOrder, FailTopup
<1>3. faults' \in 0..MaxFaults BY <1>2, FaultType DEF TypeOK
<1>4. UNCHANGED <<age, event, credits>>
  BY DEF Create, CreatorDies, InsertTopup, InsertOrder, CreatePay, FailOrder,
         BindChannelTradeNo, BindPayOrder, FailTopup, gatewayVars
<1>5. creator' \in CreatorPC
  BY DEF CreatorPC, Create, CreatorDies, InsertTopup, InsertOrder, CreatePay, FailOrder,
         BindChannelTradeNo, BindPayOrder, FailTopup
<1>6. topup' \in TopupStatus /\ bound' \in BOOLEAN
  BY DEF TypeOK, TopupStatus, Create, CreatorDies, InsertTopup, InsertOrder, CreatePay,
         FailOrder, BindChannelTradeNo, BindPayOrder, FailTopup, gatewayVars
<1>7. order' \in OrderStatus /\ tradeNo' \in BOOLEAN /\ trade' \in TradeState
  BY DEF TypeOK, OrderStatus, TradeState, Create, CreatorDies, InsertTopup, InsertOrder,
         CreatePay, FailOrder, BindChannelTradeNo, BindPayOrder, FailTopup, payVars
<1> QED BY <1>1, <1>3, <1>4, <1>5, <1>6, <1>7 DEF TypeOK

LEMMA WorldType ==
  ASSUME TypeOK, Approve \/ Decide \/ Void \/ GrowsOld
  PROVE TypeOK'
BY DEF TypeOK, Approve, Decide, Void, GrowsOld, gatewayVars, payVars, restVars, TradeState, Age

\* A row of the table keeps its type when PayPal or a handler writes a field of it.
LEMMA RowTypes ==
  ASSUME NEW row \in Refund
  PROVE /\ \A answer \in ReturnState : [row EXCEPT !.paypal = answer] \in Refund
        /\ \A status \in RefundStatus : [row EXCEPT !.status = status] \in Refund
BY DEF Refund

LEMMA DecideRefundType ==
  ASSUME TypeOK, NEW i \in DOMAIN refunds, DecideRefund(i)
  PROVE TypeOK'
<1>1. refunds[i] \in Refund BY DEF TypeOK
<1>2. PICK end \in {"Success", "Failed"} : refunds' = [refunds EXCEPT ![i].paypal = end]
  BY DEF DecideRefund
<1>3. [refunds[i] EXCEPT !.paypal = end] \in Refund BY <1>1, RowTypes DEF ReturnState
<1>4. RefundTypes' BY <1>2, <1>3, RowWritten DEF TypeOK, RefundTypes
<1>5. PlainTypes' /\ UNCHANGED procs
  BY DEF TypeOK, PlainTypes, DecideRefund, gatewayVars, restVars
<1> QED BY <1>4, <1>5 DEF TypeOK, PlainTypes, RefundTypes

\* Steps that leave every row alone.
LEMMA HandType ==
  ASSUME TypeOK, NEW p \in Procs, NEW r \in Proc, Become(p, r), PlainTypes',
         UNCHANGED refunds
  PROVE TypeOK'
BY BecomeType DEF TypeOK, PlainTypes, RefundTypes

LEMMA LoopsType ==
  ASSUME TypeOK, QueryTrade \/ ReconcileOne \/ ReconcileTopupsOnce
  PROVE TypeOK'
<1>1. PlainTypes' /\ UNCHANGED refunds
  BY DEF TypeOK, PlainTypes, QueryTrade, ReconcileOne, ReconcileTopupsOnce, gatewayVars,
         payVars, restVars
<1>2. PayLoop \in Procs /\ WalletLoop \in Procs BY DEF Procs
<1>3. CASE QueryTrade
  <2> DEFINE seen == IF tradeNo THEN trade ELSE "Pending"
  <2>1. seen \in TradeState BY DEF TypeOK, TradeState
  <2> HIDE DEF seen
  <2>2. WithSeen(Idle, "reconcile", seen) \in Proc BY <2>1, IdleType, WithSeenType DEF PC
  <2>3. Become(PayLoop, WithSeen(Idle, "reconcile", seen))
    BY <1>3 DEF QueryTrade, WithSeen, seen
  <2> QED BY <1>1, <1>2, <2>2, <2>3, HandType
<1>4. CASE ReconcileOne
  <2> DEFINE seen == procs[PayLoop].seen
  <2>1. \/ Become(PayLoop, [Idle EXCEPT !.pc = "capture"])
        \/ /\ seen \in {"Success", "Failed", "Closed"}
           /\ Become(PayLoop, WithSeen(Idle, "apply", seen))
        \/ Become(PayLoop, WithSeen(Idle, "apply", "Closed"))
        \/ Become(PayLoop, Idle)
    BY <1>4 DEF ReconcileOne, WithSeen, Ends
  <2>2. [Idle EXCEPT !.pc = "capture"] \in Proc BY IdleType, WithPcType DEF PC
  <2>3. \A s \in {"Success", "Failed", "Closed"} : WithSeen(Idle, "apply", s) \in Proc
    BY IdleType, WithSeenType DEF PC, TradeState
  <2> QED BY <1>1, <1>2, <2>1, <2>2, <2>3, IdleType, HandType
<1>5. CASE ReconcileTopupsOnce
  <2>1. [Idle EXCEPT !.pc = "settle"] \in Proc BY IdleType, WithPcType DEF PC
  <2>2. Become(WalletLoop, [Idle EXCEPT !.pc = "settle"]) BY <1>5 DEF ReconcileTopupsOnce
  <2> QED BY <1>1, <1>2, <2>1, <2>2, HandType
<1> QED BY <1>3, <1>4, <1>5

LEMMA CaptureType ==
  ASSUME TypeOK, NEW p \in Procs, Capture(p)
  PROVE TypeOK'
<1>1. trade' \in TradeState BY DEF TypeOK, Capture, TradeState
<1>2. Fault \/ UNCHANGED faults BY DEF Capture
<1>3. faults' \in 0..MaxFaults BY <1>2, FaultType DEF TypeOK
<1>4. PlainTypes' /\ UNCHANGED refunds
  BY <1>1, <1>3 DEF TypeOK, PlainTypes, Capture, gatewayVars, payVars
<1>5. Become(p, Idle) \/ Become(p, WithSeen(Idle, "apply", trade'))
  BY DEF Capture, Ends, WithSeen
<1>6. WithSeen(Idle, "apply", trade') \in Proc BY <1>1, IdleType, WithSeenType DEF PC
<1> QED BY <1>4, <1>5, <1>6, IdleType, HandType

LEMMA RecordType ==
  ASSUME TypeOK, NEW p \in Procs, NEW seen, Record(p, seen)
  PROVE TypeOK'
<1>1. order' \in OrderStatus BY DEF TypeOK, Record, Outcome, OrderStatus
<1>2. PlainTypes' /\ UNCHANGED refunds
  BY <1>1 DEF TypeOK, PlainTypes, Record, gatewayVars, restVars
<1>3. Become(p, Idle) \/ Become(p, [Idle EXCEPT !.pc = "publish"]) BY DEF Record, Ends
<1>4. [Idle EXCEPT !.pc = "publish"] \in Proc BY IdleType, WithPcType DEF PC
<1> QED BY <1>2, <1>3, <1>4, IdleType, HandType

LEMMA EndingType ==
  ASSUME TypeOK, NEW p \in Procs, Publish(p) \/ Crash(p) \/ SettleTopup(p)
                                  \/ UpdateOrderRefundStatus(p)
  PROVE TypeOK'
<1>1. Fault \/ UNCHANGED faults
  BY DEF Publish, Crash, SettleTopup, UpdateOrderRefundStatus, restVars
<1>2. faults' \in 0..MaxFaults BY <1>1, FaultType DEF TypeOK
<1>3. PlainTypes' /\ UNCHANGED refunds
  <2>1. CASE Publish(p) \/ Crash(p)
    BY <1>2, <2>1 DEF TypeOK, PlainTypes, Publish, Crash, gatewayVars, payVars
  <2>2. CASE SettleTopup(p)
    <3>1. topup' \in TopupStatus /\ bound' \in BOOLEAN /\ credits' \in Nat
      <4>1. CASE topup = "PENDING" BY <2>2, <4>1 DEF TypeOK, SettleTopup, TopupStatus
      <4>2. CASE topup # "PENDING" BY <2>2, <4>2 DEF TypeOK, SettleTopup, gatewayVars
      <4> QED BY <4>1, <4>2
    <3>2. event' \in 0..MaxDeliver BY <2>2 DEF TypeOK, SettleTopup
    <3> QED BY <1>2, <2>2, <3>1, <3>2 DEF TypeOK, PlainTypes, SettleTopup, payVars
  <2>3. CASE UpdateOrderRefundStatus(p)
    <3>1. order' \in OrderStatus
      BY <2>3 DEF UpdateOrderRefundStatus, OrderStatus, RefundedStatus
    <3> QED BY <1>2, <2>3, <3>1
         DEF TypeOK, PlainTypes, UpdateOrderRefundStatus, gatewayVars, restVars
  <2> QED BY <2>1, <2>2, <2>3
<1>4. Become(p, Idle) BY DEF Publish, Crash, SettleTopup, UpdateOrderRefundStatus, Ends
<1> QED BY <1>3, <1>4, IdleType, HandType

LEMMA RequestsType ==
  ASSUME TypeOK, NEW p \in Procs, HandleTopupPaidMsg(p) \/ CompleteRedirect(p)
  PROVE TypeOK'
<1>1. PlainTypes' /\ UNCHANGED refunds
  BY DEF TypeOK, PlainTypes, HandleTopupPaidMsg, CompleteRedirect, gatewayVars, payVars, restVars
<1>2. \/ Become(p, WithAcks(Idle, "settle", TRUE))
      \/ Become(p, [Idle EXCEPT !.pc = "capture"])
      \/ UNCHANGED procs
  BY DEF HandleTopupPaidMsg, CompleteRedirect, WithAcks
<1>3. WithAcks(Idle, "settle", TRUE) \in Proc /\ [Idle EXCEPT !.pc = "capture"] \in Proc
  BY IdleType, WithAcksType, WithPcType DEF PC
<1>4. CASE UNCHANGED procs BY <1>1, <1>4 DEF TypeOK, PlainTypes, RefundTypes
<1> QED BY <1>1, <1>2, <1>3, <1>4, HandType

LEMMA AppendType ==
  ASSUME refunds \in Seq(Refund), NEW row \in Refund
  PROVE /\ Append(refunds, row) \in Seq(Refund)
        /\ Len(Append(refunds, row)) = Len(refunds) + 1
        /\ DOMAIN Append(refunds, row) = DOMAIN refunds \cup {Len(refunds) + 1}
        /\ \A i \in DOMAIN refunds : Append(refunds, row)[i] = refunds[i]
        /\ Append(refunds, row)[Len(refunds) + 1] = row
OBVIOUS

LEMMA PrepareType ==
  ASSUME TypeOK, NEW p \in Procs, NEW n \in 1..Amount, PrepareRefund(p, n)
  PROVE TypeOK'
<1> DEFINE row == [amount |-> n, status |-> "REFUNDING", paypal |-> "none"]
<1>1. row \in Refund BY DEF Refund, RefundStatus, ReturnState
<1>2. refunds' = Append(refunds, row) BY DEF PrepareRefund
<1> HIDE DEF row
<1>3. refunds' \in Seq(Refund) /\ Len(refunds') = Len(refunds) + 1
  BY <1>1, <1>2, AppendType DEF TypeOK
<1>4. Len(refunds') \in 0..MaxRefunds BY <1>3 DEF PrepareRefund, TypeOK
<1>5. RefundTypes' BY <1>3, <1>4 DEF RefundTypes
<1>6. PlainTypes'
  BY DEF TypeOK, PlainTypes, PrepareRefund, gatewayVars, restVars, OrderStatus
<1>7. SumRefunded \in Int
  BY RowsFinite DEF TypeOK, SumRefunded, RowsIn
<1>8. WithRefund(Idle, "askRefund", Len(refunds'), SumRefunded) \in Proc
  BY <1>4, <1>7, IdleType, WithRefundType DEF PC
<1>9. Become(p, WithRefund(Idle, "askRefund", Len(refunds'), SumRefunded))
  BY DEF PrepareRefund, WithRefund
<1> QED BY <1>5, <1>6, <1>8, <1>9, BecomeType DEF TypeOK, PlainTypes, RefundTypes

LEMMA RefundNotifyType ==
  ASSUME TypeOK, NEW p \in Procs, NEW i \in DOMAIN refunds, HandleRefundNotify(p, i)
  PROVE TypeOK'
<1>1. PlainTypes' /\ UNCHANGED refunds
  BY DEF TypeOK, PlainTypes, HandleRefundNotify, gatewayVars, payVars, restVars
<1>2. SumRefunded \in Int
  BY RowsFinite DEF TypeOK, SumRefunded, RowsIn
<1>3. refunds[i].amount \in Int /\ i \in 0..MaxRefunds BY RowType DEF Refund
<1>4. WithAll(Idle, "applyRefund", "Success", i, SumRefunded - refunds[i].amount) \in Proc
  <2>1. SumRefunded - refunds[i].amount \in Int BY <1>2, <1>3
  <2>2. "applyRefund" \in PC /\ "Success" \in TradeState BY DEF PC, TradeState
  <2> QED BY <1>3, <2>1, <2>2, IdleType, WithAllType
<1>5. Become(p, WithAll(Idle, "applyRefund", "Success", i, SumRefunded - refunds[i].amount))
  BY DEF HandleRefundNotify, WithAll
<1> QED BY <1>1, <1>4, <1>5, HandType

LEMMA AskType ==
  ASSUME TypeOK, NEW p \in Procs, AskRefund(p)
  PROVE TypeOK'
<1> DEFINE i == procs[p].refund
<1>1. PICK answer \in {"Processing", "Success", "Failed"} :
        /\ refunds' = [refunds EXCEPT ![i].paypal = answer]
        /\ \/ procs' = [procs EXCEPT ![p].pc = "applyRefund", ![p].seen = answer]
           \/ Ends(p)
  BY DEF AskRefund
<1>2. RefundTypes'
  <2>1. i \in DOMAIN refunds => [refunds[i] EXCEPT !.paypal = answer] \in Refund
    BY RowType, RowTypes DEF ReturnState
  <2> QED BY <1>1, <2>1, RowWritten DEF TypeOK, RefundTypes
<1>3. Fault \/ UNCHANGED faults BY DEF AskRefund
<1>4. faults' \in 0..MaxFaults BY <1>3, FaultType DEF TypeOK
<1>5. PlainTypes' BY <1>4 DEF TypeOK, PlainTypes, AskRefund, gatewayVars
<1>6. procs' \in [Procs -> Proc]
  <2>1. WithSeen(procs[p], "applyRefund", answer) \in Proc
    BY WithSeenType DEF TypeOK, PC, ReturnState
  <2>2. CASE Ends(p) BY <2>2, EndsType DEF TypeOK
  <2>3. CASE procs' = [procs EXCEPT ![p].pc = "applyRefund", ![p].seen = answer]
    <3>1. procs' = [procs EXCEPT ![p] = WithSeen(procs[p], "applyRefund", answer)]
      BY <2>3 DEF WithSeen
    <3> QED BY <2>1, <3>1 DEF TypeOK
  <2> QED BY <1>1, <2>2, <2>3
<1> QED BY <1>2, <1>5, <1>6 DEF TypeOK, PlainTypes, RefundTypes

LEMMA UpdateRefundType ==
  ASSUME TypeOK, NEW p \in Procs, UpdateRefundStatus(p)
  PROVE TypeOK'
<1> DEFINE i == procs[p].refund
<1>1. PlainTypes' BY DEF TypeOK, PlainTypes, UpdateRefundStatus, gatewayVars, restVars
<1>2. CASE UNCHANGED refunds /\ Ends(p) BY <1>1, <1>2, IdleType, HandType DEF Ends
<1>3. CASE ~ (UNCHANGED refunds /\ Ends(p))
  <2>1. /\ refunds' = [refunds EXCEPT ![i].status =
                          IF procs[p].seen = "Success" THEN "REFUNDED" ELSE "FAILED"]
        /\ procs' = [procs EXCEPT ![p].pc = "orderRefund"]
    BY <1>3 DEF UpdateRefundStatus
  <2>2. RefundTypes'
    <3>1. i \in DOMAIN refunds =>
            [refunds[i] EXCEPT !.status =
               IF procs[p].seen = "Success" THEN "REFUNDED" ELSE "FAILED"] \in Refund
      BY RowType, RowTypes DEF RefundStatus
    <3> QED BY <2>1, <3>1, RowWritten DEF TypeOK, RefundTypes
  <2>3. procs' \in [Procs -> Proc]
    <3>1. [procs[p] EXCEPT !.pc = "orderRefund"] \in Proc BY WithPcType DEF TypeOK, PC
    <3> QED BY <2>1, <3>1 DEF TypeOK
  <2> QED BY <1>1, <2>2, <2>3 DEF TypeOK, PlainTypes, RefundTypes
<1> QED BY <1>2, <1>3

LEMMA TypeInit == Init => TypeOK
<1> SUFFICES ASSUME Init PROVE TypeOK OBVIOUS
<1>1. procs \in [Procs -> Proc] BY IdleType DEF Init
<1>2. refunds \in Seq(Refund) /\ Len(refunds) <= MaxRefunds BY DEF Init
<1>3. event = 0 /\ 0 \in 0..MaxDeliver /\ faults = 0 /\ 0 \in 0..MaxFaults /\ credits \in Nat
  BY DEF Init
<1>4. topup \in TopupStatus /\ bound \in BOOLEAN /\ order \in OrderStatus
  BY DEF Init, TopupStatus, OrderStatus
<1>5. tradeNo \in BOOLEAN /\ trade \in TradeState /\ age \in Age /\ creator \in CreatorPC
  BY DEF Init, TradeState, Age, CreatorPC
<1> QED BY <1>1, <1>2, <1>3, <1>4, <1>5 DEF TypeOK

LEMMA TypeStep == TypeOK /\ [Next]_vars => TypeOK'
<1> SUFFICES ASSUME TypeOK, [Next]_vars PROVE TypeOK' OBVIOUS
<1>1. CASE Create \/ CreatorDies BY <1>1, CreateType
<1>2. CASE Approve \/ Decide \/ Void \/ GrowsOld BY <1>2, WorldType
<1>3. CASE \E i \in DOMAIN refunds : DecideRefund(i) BY <1>3, DecideRefundType
<1>4. CASE Reconcile \/ ReconcileTopupsOnce BY <1>4, LoopsType DEF Reconcile
<1>5. ASSUME NEW p \in Procs, Proceed(p) PROVE TypeOK'
  BY <1>5, CaptureType, RecordType, EndingType, AskType, UpdateRefundType
     DEF Proceed, ApplyNotifyResult
<1>6. ASSUME NEW p \in Procs, Request(p) PROVE TypeOK'
  <2>1. CASE HandleNotify(p) BY <2>1, RecordType DEF HandleNotify
  <2> QED BY <1>6, <2>1, RequestsType, PrepareType, RefundNotifyType DEF Request
<1>7. ASSUME NEW p \in Procs, Crash(p) PROVE TypeOK' BY <1>7, EndingType
<1>8. CASE UNCHANGED vars BY <1>8 DEF vars, TypeOK
<1> QED BY <1>1, <1>2, <1>3, <1>4, <1>5, <1>6, <1>7, <1>8 DEF Next

\* The variables keep their types: above all no handler holds a row that is not there.
THEOREM TypeCorrect == Spec => []TypeOK
BY TypeInit, TypeStep, PTL DEF Spec

(* The invariant of refunds                                                  *)

OpenIn(table) == {i \in DOMAIN table : table[i].status = "REFUNDING"}
DoneIn(table) == {i \in DOMAIN table : table[i].status = "REFUNDED"}
Refunded(table) == Worth(table, DoneIn(table))
Reserved(table) == Worth(table, OpenIn(table) \cup DoneIn(table))

Fits(table, state) == state.before + table[state.refund].amount <= Amount

\* A handler that is about to ask PayPal holds the open row, which nobody has asked for.
Asks(table, state) ==
  /\ state.refund \in OpenIn(table) /\ table[state.refund].paypal = "none"
  /\ state.before = Refunded(table) /\ Fits(table, state)

\* One that is about to write a result has PayPal's last word, and counts right if it comes first.
Applies(table, state) ==
  /\ state.refund \in DOMAIN table /\ state.seen \in {"Success", "Failed"}
  /\ table[state.refund].paypal = state.seen
  /\ state.refund \in OpenIn(table) => state.before = Refunded(table) /\ Fits(table, state)

\* One that came first: all rows are decided, and the order waits for it.
Concludes(table, state) ==
  /\ OpenIn(table) = {}
  /\ state.refund \in DOMAIN table /\ state.seen \in {"Success", "Failed"}
  /\ Fits(table, state) /\ state.before \in Nat
  /\ Refunded(table) = IF state.seen = "Success"
                         THEN state.before + table[state.refund].amount ELSE state.before

Early ==
  /\ creator \in {"start", "order"} => order = "none"
  /\ order \in {"none", "CREATED", "CLOSED", "FAILED"} => refunds = <<>>

RowsAgree ==
  \A i \in DOMAIN refunds :
    /\ refunds[i].status = "FAILED" => refunds[i].paypal = "Failed"
    /\ refunds[i].status = "REFUNDED" => refunds[i].paypal = "Success"

LastIsOpen == \A i \in OpenIn(refunds) : order = "REFUNDING" /\ i = Len(refunds)

HandsAgree ==
  \A p \in Procs :
    /\ procs[p].pc = "askRefund" => Asks(refunds, procs[p])
    /\ procs[p].pc = "applyRefund" => Applies(refunds, procs[p])
    /\ procs[p].pc = "orderRefund" => order = "REFUNDING" /\ Concludes(refunds, procs[p])

Alone ==
  \A p, q \in Procs :
    /\ procs[p].pc = "askRefund" /\ procs[q].pc = "askRefund" => p = q
    /\ procs[p].pc = "orderRefund" /\ procs[q].pc = "orderRefund" => p = q

Tells ==
  /\ Reserved(refunds) <= Amount
  /\ order = "PAID" => Refunded(refunds) = 0
  /\ order = "PARTIAL_REFUNDED" => Refunded(refunds) \in 1..(Amount - 1)
  /\ order = "REFUNDED" => Refunded(refunds) = Amount

\* All of it: every handler knows what the open refund may still come to, and the order waits
\* for the one that closed it.
RefundInv == Early /\ RowsAgree /\ LastIsOpen /\ HandsAgree /\ Alone /\ Tells

-----------------------------------------------------------------------------

SameMoney(table, other) ==
  /\ DOMAIN other = DOMAIN table
  /\ \A i \in DOMAIN table : /\ other[i].status = table[i].status
                             /\ other[i].amount = table[i].amount

LEMMA MoneyStays ==
  ASSUME NEW table, NEW other, SameMoney(table, other)
  PROVE /\ OpenIn(other) = OpenIn(table) /\ DoneIn(other) = DoneIn(table)
        /\ Refunded(other) = Refunded(table) /\ Reserved(other) = Reserved(table)
        /\ \A state : state.refund \in DOMAIN table => (Fits(other, state) <=> Fits(table, state))
<1>1. OpenIn(other) = OpenIn(table) BY DEF OpenIn, SameMoney
<1>2. DoneIn(other) = DoneIn(table) BY DEF DoneIn, SameMoney
<1>3. Refunded(other) = Refunded(table)
  <2>1. \A i \in DoneIn(table) : other[i].amount = table[i].amount BY DEF DoneIn, SameMoney
  <2>2. Worth(other, DoneIn(table)) = Worth(table, DoneIn(table)) BY <2>1, WorthSame
  <2> QED BY <1>2, <2>2 DEF Refunded
<1>4. Reserved(other) = Reserved(table)
  <2> DEFINE rows == OpenIn(table) \cup DoneIn(table)
  <2>1. \A i \in rows : other[i].amount = table[i].amount BY DEF OpenIn, DoneIn, SameMoney
  <2> HIDE DEF rows
  <2>2. Worth(other, rows) = Worth(table, rows) BY <2>1, WorthSame
  <2> QED BY <1>1, <1>2, <2>2 DEF Reserved, rows
<1>5. \A state : state.refund \in DOMAIN table => (Fits(other, state) <=> Fits(table, state))
  BY DEF Fits, SameMoney
<1> QED BY <1>1, <1>2, <1>3, <1>4, <1>5

\* What PayPal has decided, and what nobody has asked it, the others find as they left it.
LEMMA HandsStay ==
  ASSUME NEW table, NEW other, SameMoney(table, other), NEW state,
         \A i \in DOMAIN table : table[i].paypal \in {"Success", "Failed"} =>
                                   other[i].paypal = table[i].paypal
  PROVE /\ Asks(table, state) /\ other[state.refund].paypal = "none" => Asks(other, state)
        /\ Applies(table, state) => Applies(other, state)
        /\ Concludes(table, state) => Concludes(other, state)
<1>1. /\ OpenIn(other) = OpenIn(table) /\ DoneIn(other) = DoneIn(table)
      /\ Refunded(other) = Refunded(table)
      /\ state.refund \in DOMAIN table => (Fits(other, state) <=> Fits(table, state))
  BY MoneyStays
<1>2. DOMAIN other = DOMAIN table BY DEF SameMoney
<1>3. state.refund \in OpenIn(table) => state.refund \in DOMAIN table BY DEF OpenIn
<1>4. Asks(table, state) /\ other[state.refund].paypal = "none" => Asks(other, state)
  BY <1>1, <1>3 DEF Asks
<1>5. Applies(table, state) => Applies(other, state)
  BY <1>1, <1>2 DEF Applies
<1>6. Concludes(table, state) => Concludes(other, state)
  <2>1. state.refund \in DOMAIN table => other[state.refund].amount = table[state.refund].amount
    BY DEF SameMoney
  <2> QED BY <1>1, <1>2, <2>1 DEF Concludes
<1> QED BY <1>4, <1>5, <1>6

\* Steps that move no money: of the processes, one at most takes a result in hand.
LEMMA QuietRefunds ==
  ASSUME RefundInv, SameMoney(refunds, refunds'), Len(refunds') = Len(refunds),
         refunds = <<>> => refunds' = <<>>,
         \A i \in DOMAIN refunds : refunds[i].paypal \in {"Success", "Failed"} =>
                                     refunds'[i].paypal = refunds[i].paypal,
         UNCHANGED <<order, creator>>,
         \A q \in Procs :
           \/ /\ procs'[q] = procs[q]
              /\ procs[q].pc = "askRefund" => refunds'[procs[q].refund].paypal = "none"
           \/ /\ procs'[q].pc \notin {"askRefund", "orderRefund"}
              /\ procs'[q].pc = "applyRefund" => Applies(refunds', procs'[q])
  PROVE RefundInv'
<1>1. Early' BY DEF RefundInv, Early
<1>2. RowsAgree'
  <2> SUFFICES ASSUME NEW i \in DOMAIN refunds'
               PROVE /\ refunds'[i].status = "FAILED" => refunds'[i].paypal = "Failed"
                     /\ refunds'[i].status = "REFUNDED" => refunds'[i].paypal = "Success"
    BY DEF RowsAgree
  <2>1. i \in DOMAIN refunds /\ refunds'[i].status = refunds[i].status BY DEF SameMoney
  <2> QED BY <2>1 DEF RefundInv, RowsAgree
<1>3. LastIsOpen' BY MoneyStays DEF RefundInv, LastIsOpen
<1>4. HandsAgree'
  <2> SUFFICES ASSUME NEW q \in Procs
               PROVE /\ procs'[q].pc = "askRefund" => Asks(refunds', procs'[q])
                     /\ procs'[q].pc = "applyRefund" => Applies(refunds', procs'[q])
                     /\ procs'[q].pc = "orderRefund" =>
                          order' = "REFUNDING" /\ Concludes(refunds', procs'[q])
    BY DEF HandsAgree
  <2>1. CASE procs'[q] = procs[q]
             /\ (procs[q].pc = "askRefund" => refunds'[procs[q].refund].paypal = "none")
    BY <2>1, HandsStay DEF RefundInv, HandsAgree
  <2>2. CASE /\ procs'[q].pc \notin {"askRefund", "orderRefund"}
             /\ procs'[q].pc = "applyRefund" => Applies(refunds', procs'[q])
    BY <2>2
  <2> QED BY <2>1, <2>2
<1>5. Alone' BY DEF RefundInv, Alone
<1>6. Tells' BY MoneyStays DEF RefundInv, Tells
<1> QED BY <1>1, <1>2, <1>3, <1>4, <1>5, <1>6 DEF RefundInv

\* Steps that have nothing to do with refunds.
LEMMA StillRefunds ==
  ASSUME RefundInv, UNCHANGED <<order, creator, refunds>>, NEW p \in Procs, NEW r, Replaces(p, r),
         r.pc \notin {"askRefund", "applyRefund", "orderRefund"}
  PROVE RefundInv'
<1>1. SameMoney(refunds, refunds') BY DEF SameMoney
<1>2. ASSUME NEW q \in Procs
      PROVE \/ /\ procs'[q] = procs[q]
               /\ procs[q].pc = "askRefund" => refunds'[procs[q].refund].paypal = "none"
            \/ procs'[q].pc \notin {"askRefund", "applyRefund", "orderRefund"}
  BY DEF Replaces, RefundInv, HandsAgree, Asks
<1> QED BY <1>1, <1>2, QuietRefunds

\* While there is no refund, the order may move to any status that tells so.
LEMMA BeforeRefunds ==
  ASSUME RefundInv, refunds = <<>>, refunds' = <<>>, order # "REFUNDING",
         order' \in {"CREATED", "CLOSED", "FAILED", "PAID"},
         creator' \notin {"start", "order"},
         \A q \in Procs : \/ procs'[q] = procs[q]
                          \/ procs'[q].pc \notin {"askRefund", "applyRefund", "orderRefund"}
  PROVE RefundInv'
<1>1. OpenIn(<<>>) = {} /\ DoneIn(<<>>) = {} BY DEF OpenIn, DoneIn
<1>2. Refunded(<<>>) = 0 /\ Reserved(<<>>) = 0
  BY <1>1, WorthOfNone DEF Refunded, Reserved
<1>3. \A q \in Procs : procs'[q].pc \notin {"askRefund", "applyRefund", "orderRefund"}
  BY <1>1 DEF RefundInv, HandsAgree, Asks, Applies
<1>4. Early' BY DEF Early
<1>5. RowsAgree' BY DEF RowsAgree
<1>6. LastIsOpen' BY <1>1 DEF LastIsOpen
<1>7. HandsAgree' BY <1>3 DEF HandsAgree
<1>8. Alone' BY <1>3 DEF Alone
<1>9. Tells' BY <1>2 DEF Tells
<1> QED BY <1>4, <1>5, <1>6, <1>7, <1>8, <1>9 DEF RefundInv

(* The steps of the order and of the world                                   *)

LEMMA CreationRefunds ==
  ASSUME TypeOK, RefundInv, Create \/ CreatorDies
  PROVE RefundInv'
<1>1. UNCHANGED <<refunds, procs>>
  BY DEF Create, CreatorDies, InsertTopup, InsertOrder, CreatePay, FailOrder,
         BindChannelTradeNo, BindPayOrder, FailTopup, payVars
<1>2. \/ UNCHANGED order /\ (creator' \in {"start", "order"} => creator = "start")
      \/ /\ order \in {"none", "CREATED"} /\ order' \in {"CREATED", "FAILED"}
         /\ creator' \notin {"start", "order"}
  BY DEF Create, CreatorDies, InsertTopup, InsertOrder, CreatePay, FailOrder,
         BindChannelTradeNo, BindPayOrder, FailTopup, payVars, RefundInv, Early
<1>3. CASE UNCHANGED order /\ (creator' \in {"start", "order"} => creator = "start")
  <2>1. Early' BY <1>1, <1>3 DEF RefundInv, Early
  <2> QED BY <1>1, <1>3, <2>1
       DEF RefundInv, RowsAgree, LastIsOpen, HandsAgree, Alone, Tells
<1>4. CASE /\ order \in {"none", "CREATED"} /\ order' \in {"CREATED", "FAILED"}
           /\ creator' \notin {"start", "order"}
  <2>1. refunds = <<>> BY <1>4 DEF RefundInv, Early
  <2> QED BY <1>1, <1>4, <2>1, BeforeRefunds
<1> QED BY <1>2, <1>3, <1>4

LEMMA WorldRefunds ==
  ASSUME RefundInv, Approve \/ Decide \/ Void \/ GrowsOld
  PROVE RefundInv'
<1>1. UNCHANGED <<refunds, procs, order, creator>>
  BY DEF Approve, Decide, Void, GrowsOld, payVars, restVars
<1> QED BY <1>1 DEF RefundInv, Early, RowsAgree, LastIsOpen, HandsAgree, Alone, Tells

\* PayPal decides a refund it has been asked for: the row is open still.
LEMMA DecideRefunds ==
  ASSUME TypeOK, RefundInv, NEW i \in DOMAIN refunds, DecideRefund(i)
  PROVE RefundInv'
<1>1. PICK end \in {"Success", "Failed"} : refunds' = [refunds EXCEPT ![i].paypal = end]
  BY DEF DecideRefund
<1>2. refunds[i].paypal = "Processing" /\ UNCHANGED <<order, creator, procs>>
  BY DEF DecideRefund, restVars
<1>3. \A j \in DOMAIN refunds : refunds[j] \in Refund BY RowType
<1>4. [refunds[i] EXCEPT !.paypal = end] \in Refund BY <1>3, RowTypes DEF ReturnState
<1>5. /\ Len(refunds') = Len(refunds) /\ DOMAIN refunds' = DOMAIN refunds
      /\ \A j \in DOMAIN refunds :
           refunds'[j] = IF j = i THEN [refunds[i] EXCEPT !.paypal = end] ELSE refunds[j]
  BY <1>1, <1>4, RowWritten DEF TypeOK
<1>6. [refunds[i] EXCEPT !.paypal = end].status = refunds[i].status
      /\ [refunds[i] EXCEPT !.paypal = end].amount = refunds[i].amount
  BY <1>3 DEF Refund
<1>7. SameMoney(refunds, refunds') BY <1>5, <1>6 DEF SameMoney
<1>8. \A j \in DOMAIN refunds : refunds[j].paypal # "Processing" =>
                                  refunds'[j].paypal = refunds[j].paypal
  BY <1>2, <1>5
<1>9. ASSUME NEW q \in Procs, procs[q].pc = "askRefund"
      PROVE refunds'[procs[q].refund].paypal = "none"
  <2>1. procs[q].refund \in DOMAIN refunds /\ refunds[procs[q].refund].paypal = "none"
    BY <1>9 DEF RefundInv, HandsAgree, Asks, OpenIn
  <2> QED BY <1>8, <2>1
<1>10. refunds # <<>> OBVIOUS
<1> QED BY <1>2, <1>5, <1>7, <1>8, <1>9, <1>10, QuietRefunds

LEMMA HandBecomes ==
  ASSUME TypeOK, RefundInv, UNCHANGED <<order, creator, refunds>>, NEW p \in Procs, NEW r,
         Become(p, r), r.pc \notin {"askRefund", "applyRefund", "orderRefund"}
  PROVE RefundInv'
<1>1. Replaces(p, r) BY DEF Replaces, TypeOK, Become
<1> QED BY <1>1, StillRefunds

LEMMA PcOf ==
  /\ Idle.pc = "idle"
  /\ \A l : [Idle EXCEPT !.pc = l].pc = l
  /\ \A l, s : WithSeen(Idle, l, s).pc = l
  /\ \A l, a : WithAcks(Idle, l, a).pc = l
<1>1. IsProc(Idle) /\ Idle.pc = "idle" BY IdleIsCalm
<1>2. \A l : [Idle EXCEPT !.pc = l].pc = l BY <1>1, PcSet
<1>3. \A l, s : WithSeen(Idle, l, s).pc = l BY <1>1, PcSeenSet
<1>4. \A l, a : WithAcks(Idle, l, a).pc = l BY <1>1, PcAcksSet
<1> QED BY <1>1, <1>2, <1>3, <1>4

LEMMA LoopsRefunds ==
  ASSUME TypeOK, RefundInv, QueryTrade \/ ReconcileOne \/ ReconcileTopupsOnce
  PROVE RefundInv'
<1>1. UNCHANGED <<order, creator, refunds>>
  BY DEF QueryTrade, ReconcileOne, ReconcileTopupsOnce, payVars, restVars
<1>2. PayLoop \in Procs /\ WalletLoop \in Procs BY DEF Procs
<1>3. \/ \E s : Become(PayLoop, WithSeen(Idle, "reconcile", s))
      \/ \E s : Become(PayLoop, WithSeen(Idle, "apply", s))
      \/ Become(PayLoop, [Idle EXCEPT !.pc = "capture"]) \/ Become(PayLoop, Idle)
      \/ Become(WalletLoop, [Idle EXCEPT !.pc = "settle"])
  BY DEF QueryTrade, ReconcileOne, ReconcileTopupsOnce, WithSeen, Ends
<1>4. ASSUME NEW s, Become(PayLoop, WithSeen(Idle, "reconcile", s)) PROVE RefundInv'
  <2>1. WithSeen(Idle, "reconcile", s).pc = "reconcile" BY PcOf
  <2> QED BY <1>1, <1>2, <1>4, <2>1, HandBecomes
<1>5. ASSUME NEW s, Become(PayLoop, WithSeen(Idle, "apply", s)) PROVE RefundInv'
  <2>1. WithSeen(Idle, "apply", s).pc = "apply" BY PcOf
  <2> QED BY <1>1, <1>2, <1>5, <2>1, HandBecomes
<1>6. CASE Become(PayLoop, [Idle EXCEPT !.pc = "capture"])
  <2>1. [Idle EXCEPT !.pc = "capture"].pc = "capture" BY PcOf
  <2> QED BY <1>1, <1>2, <1>6, <2>1, HandBecomes
<1>7. CASE Become(PayLoop, Idle) BY <1>1, <1>2, <1>7, PcOf, HandBecomes
<1>8. CASE Become(WalletLoop, [Idle EXCEPT !.pc = "settle"])
  <2>1. [Idle EXCEPT !.pc = "settle"].pc = "settle" BY PcOf
  <2> QED BY <1>1, <1>2, <1>8, <2>1, HandBecomes
<1> QED BY <1>3, <1>4, <1>5, <1>6, <1>7, <1>8

LEMMA OtherHandsRefunds ==
  ASSUME TypeOK, RefundInv, NEW p \in Procs,
         \/ Capture(p) \/ Publish(p) \/ SettleTopup(p) \/ Crash(p)
         \/ HandleTopupPaidMsg(p) \/ CompleteRedirect(p)
  PROVE RefundInv'
<1>1. UNCHANGED <<order, creator, refunds>>
  BY DEF Capture, Publish, SettleTopup, Crash, HandleTopupPaidMsg, CompleteRedirect,
         payVars, restVars
<1>2. \/ UNCHANGED procs \/ Become(p, Idle)
      \/ \E s : Become(p, WithSeen(Idle, "apply", s))
      \/ Become(p, WithAcks(Idle, "settle", TRUE))
      \/ Become(p, [Idle EXCEPT !.pc = "capture"])
  BY DEF Capture, Publish, SettleTopup, Crash, HandleTopupPaidMsg, CompleteRedirect,
         WithSeen, WithAcks, Ends
<1>3. CASE UNCHANGED procs
  BY <1>1, <1>3 DEF RefundInv, Early, RowsAgree, LastIsOpen, HandsAgree, Alone, Tells
<1>4. CASE Become(p, Idle) BY <1>1, <1>4, PcOf, HandBecomes
<1>5. ASSUME NEW s, Become(p, WithSeen(Idle, "apply", s)) PROVE RefundInv'
  <2>1. WithSeen(Idle, "apply", s).pc = "apply" BY PcOf
  <2> QED BY <1>1, <1>5, <2>1, HandBecomes
<1>6. CASE Become(p, WithAcks(Idle, "settle", TRUE))
  <2>1. WithAcks(Idle, "settle", TRUE).pc = "settle" BY PcOf
  <2> QED BY <1>1, <1>6, <2>1, HandBecomes
<1>7. CASE Become(p, [Idle EXCEPT !.pc = "capture"])
  <2>1. [Idle EXCEPT !.pc = "capture"].pc = "capture" BY PcOf
  <2> QED BY <1>1, <1>7, <2>1, HandBecomes
<1> QED BY <1>2, <1>3, <1>4, <1>5, <1>6, <1>7

\* An order that is recorded as paid has no refunds yet.
LEMMA RecordRefunds ==
  ASSUME TypeOK, RefundInv, NEW p \in Procs, NEW seen, Record(p, seen)
  PROVE RefundInv'
<1>1. /\ UNCHANGED <<creator, refunds>>
      /\ \/ UNCHANGED order
         \/ order = "CREATED" /\ order' \in {"CREATED", "CLOSED", "FAILED", "PAID"}
  BY DEF Record, Outcome, restVars
<1>2. PICK r : /\ procs' = [procs EXCEPT ![p] = r]
               /\ r.pc \notin {"askRefund", "applyRefund", "orderRefund"}
  BY DEF Record, Become, Ends, Idle
<1>3. Replaces(p, r) BY <1>2 DEF Replaces, TypeOK
<1>4. CASE UNCHANGED order BY <1>1, <1>2, <1>3, <1>4, StillRefunds
<1>5. CASE order = "CREATED" /\ order' \in {"CREATED", "CLOSED", "FAILED", "PAID"}
  <2>1. refunds = <<>> /\ creator \notin {"start", "order"} BY <1>5 DEF RefundInv, Early
  <2>2. \A q \in Procs : \/ procs'[q] = procs[q]
                         \/ procs'[q].pc \notin {"askRefund", "applyRefund", "orderRefund"}
    BY <1>2, <1>3 DEF Replaces
  <2> QED BY <1>1, <1>5, <2>1, <2>2, BeforeRefunds
<1> QED BY <1>1, <1>4, <1>5
-----------------------------------------------------------------------------
(* The steps of a refund                                                     *)

LEMMA StatesFinite ==
  ASSUME TypeOK
  PROVE /\ IsFiniteSet(OpenIn(refunds)) /\ IsFiniteSet(DoneIn(refunds))
        /\ IsFiniteSet(OpenIn(refunds) \cup DoneIn(refunds))
        /\ Refunded(refunds) \in Nat /\ Reserved(refunds) \in Nat
        /\ SumRefunded = Reserved(refunds)
        /\ Total(RowsIn({"REFUNDED"})) = Refunded(refunds)
<1>1. /\ OpenIn(refunds) \in SUBSET DOMAIN refunds /\ DoneIn(refunds) \in SUBSET DOMAIN refunds
      /\ OpenIn(refunds) \cup DoneIn(refunds) \in SUBSET DOMAIN refunds
  BY DEF OpenIn, DoneIn
<1>2. /\ IsFiniteSet(OpenIn(refunds)) /\ IsFiniteSet(DoneIn(refunds))
      /\ IsFiniteSet(OpenIn(refunds) \cup DoneIn(refunds))
  BY <1>1, RowsFinite DEF TypeOK
<1>3. Refunded(refunds) \in Nat /\ Reserved(refunds) \in Nat
  BY <1>2, WorthType DEF Refunded, Reserved
<1>4. RowsIn({"REFUNDING", "REFUNDED"}) = OpenIn(refunds) \cup DoneIn(refunds)
  BY DEF RowsIn, OpenIn, DoneIn
<1>5. RowsIn({"REFUNDED"}) = DoneIn(refunds) BY DEF RowsIn, DoneIn
<1> QED BY <1>2, <1>3, <1>4, <1>5, TotalIsWorth DEF SumRefunded, Refunded, Reserved

\* One open row more, in an order whose rows are all decided.
LEMMA PrepareRefunds ==
  ASSUME TypeOK, RefundInv, NEW p \in Procs, NEW n \in 1..Amount, PrepareRefund(p, n)
  PROVE RefundInv'
<1> DEFINE row == [amount |-> n, status |-> "REFUNDING", paypal |-> "none"]
           last == Len(refunds) + 1
           r == WithRefund(Idle, "askRefund", Len(refunds'), SumRefunded)
<1>1. /\ order \in {"PAID", "PARTIAL_REFUNDED"} /\ order' = "REFUNDING"
      /\ UNCHANGED creator /\ SumRefunded + n <= Amount
      /\ refunds' = Append(refunds, row)
      /\ procs' = [procs EXCEPT ![p] = r]
  BY DEF PrepareRefund, restVars, Become, WithRefund
<1>2. row \in Refund BY DEF Refund, RefundStatus, ReturnState
<1>3. /\ Len(refunds') = last /\ DOMAIN refunds' = DOMAIN refunds \cup {last}
      /\ \A i \in DOMAIN refunds : refunds'[i] = refunds[i]
      /\ refunds'[last] = row /\ last \notin DOMAIN refunds
  <2> HIDE DEF row
  <2>1. refunds \in Seq(Refund) BY DEF TypeOK
  <2>2. last \notin DOMAIN refunds BY <2>1
  <2> QED BY <1>1, <1>2, <2>1, <2>2, AppendType
<1>4. /\ r.pc = "askRefund" /\ r.refund = last /\ r.before = SumRefunded
  BY <1>3 DEF WithRefund, Idle
<1>5. OpenIn(refunds) = {} BY <1>1 DEF RefundInv, LastIsOpen
<1>6. OpenIn(refunds') = {last} /\ DoneIn(refunds') = DoneIn(refunds)
      /\ last \notin DoneIn(refunds)
  BY <1>3, <1>5 DEF OpenIn, DoneIn
<1>7. Refunded(refunds') = Refunded(refunds)
  <2>1. \A i \in DoneIn(refunds) : refunds'[i].amount = refunds[i].amount
    BY <1>3 DEF DoneIn
  <2> QED BY <1>6, <2>1, WorthSame DEF Refunded
<1>8. SumRefunded = Refunded(refunds) /\ SumRefunded \in Nat
  BY <1>5, StatesFinite DEF Reserved, Refunded
<1>9. Reserved(refunds') = SumRefunded + n
  <2>1. OpenIn(refunds') \cup DoneIn(refunds') = DoneIn(refunds) \cup {last} BY <1>6
  <2>2. refunds'[last].amount \in 1..Amount /\ refunds'[last].amount = n BY <1>3
  <2>3. Worth(refunds', DoneIn(refunds) \cup {last}) =
          Worth(refunds', DoneIn(refunds)) + refunds'[last].amount
    BY <1>6, <2>2, StatesFinite, WorthAdds
  <2>4. Worth(refunds', DoneIn(refunds)) = Refunded(refunds') BY <1>6 DEF Refunded
  <2> QED BY <1>7, <1>8, <2>1, <2>2, <2>3, <2>4 DEF Reserved
<1>10. Asks(refunds', r)
  <2>1. refunds'[last].amount = n /\ refunds'[last].paypal = "none" BY <1>3
  <2> HIDE DEF r
  <2> QED BY <1>1, <1>4, <1>6, <1>7, <1>8, <2>1 DEF Asks, Fits
<1> HIDE DEF row, r
<1>11. ASSUME NEW q \in Procs PROVE procs'[q] = IF q = p THEN r ELSE procs[q]
  BY <1>1 DEF TypeOK
<1>12. \A q \in Procs : procs[q].pc \notin {"askRefund", "orderRefund"}
  BY <1>1, <1>5 DEF RefundInv, HandsAgree, Asks
<1>13. ASSUME NEW q \in Procs, q # p, procs[q].pc = "applyRefund"
       PROVE Applies(refunds', procs[q])
  <2>1. Applies(refunds, procs[q]) BY <1>13 DEF RefundInv, HandsAgree
  <2>2. procs[q].refund \in DOMAIN refunds /\ procs[q].refund # last
    BY <1>3, <2>1 DEF Applies
  <2> QED BY <1>3, <1>6, <2>1, <2>2 DEF Applies
<1>14. Early' BY <1>1 DEF RefundInv, Early
<1>15. RowsAgree'
  <2> SUFFICES ASSUME NEW i \in DOMAIN refunds'
               PROVE /\ refunds'[i].status = "FAILED" => refunds'[i].paypal = "Failed"
                     /\ refunds'[i].status = "REFUNDED" => refunds'[i].paypal = "Success"
    BY DEF RowsAgree
  <2>1. CASE i = last BY <1>3, <2>1 DEF row
  <2>2. CASE i # last BY <1>3, <2>2 DEF RefundInv, RowsAgree
  <2> QED BY <2>1, <2>2
<1>16. LastIsOpen' BY <1>1, <1>3, <1>6 DEF LastIsOpen
<1>17. HandsAgree' BY <1>4, <1>10, <1>11, <1>12, <1>13 DEF HandsAgree
<1>18. Alone' BY <1>4, <1>11, <1>12 DEF Alone
<1>19. Tells' BY <1>1, <1>9 DEF Tells
<1> QED BY <1>14, <1>15, <1>16, <1>17, <1>18, <1>19 DEF RefundInv

LEMMA AskRefunds ==
  ASSUME TypeOK, RefundInv, NEW p \in Procs, AskRefund(p)
  PROVE RefundInv'
<1> DEFINE i == procs[p].refund
<1>1. PICK answer \in {"Processing", "Success", "Failed"} :
        /\ refunds' = [refunds EXCEPT ![i].paypal = answer]
        /\ \/ /\ answer # "Processing"
              /\ procs' = [procs EXCEPT ![p].pc = "applyRefund", ![p].seen = answer]
           \/ procs' = [procs EXCEPT ![p] = Idle]
  BY DEF AskRefund, Ends, Become
<1>2. /\ UNCHANGED <<order, creator>> /\ procs[p].pc = "askRefund"
  BY DEF AskRefund, At
<1>3. Asks(refunds, procs[p]) BY <1>2 DEF RefundInv, HandsAgree
<1>4. i \in DOMAIN refunds /\ i \in OpenIn(refunds) /\ refunds[i].paypal = "none"
  BY <1>3 DEF Asks, OpenIn
<1> HIDE DEF i
<1>5. \A j \in DOMAIN refunds : refunds[j] \in Refund BY RowType
<1>6. [refunds[i] EXCEPT !.paypal = answer] \in Refund
  BY <1>4, <1>5, RowTypes DEF ReturnState
<1>7. /\ Len(refunds') = Len(refunds) /\ DOMAIN refunds' = DOMAIN refunds
      /\ \A j \in DOMAIN refunds :
           refunds'[j] = IF j = i THEN [refunds[i] EXCEPT !.paypal = answer] ELSE refunds[j]
  BY <1>1, <1>6, RowWritten DEF TypeOK
<1>8. /\ [refunds[i] EXCEPT !.paypal = answer].status = refunds[i].status
      /\ [refunds[i] EXCEPT !.paypal = answer].amount = refunds[i].amount
      /\ [refunds[i] EXCEPT !.paypal = answer].paypal = answer
  BY <1>4, <1>5 DEF Refund
<1>9. SameMoney(refunds, refunds') BY <1>7, <1>8 DEF SameMoney
<1>10. \A j \in DOMAIN refunds : refunds[j].paypal # "none" =>
                                   refunds'[j].paypal = refunds[j].paypal
  BY <1>4, <1>7
<1>11. refunds # <<>> BY <1>4
<1>12. ASSUME NEW q \in Procs
       PROVE \/ /\ procs'[q] = procs[q]
                /\ procs[q].pc = "askRefund" => refunds'[procs[q].refund].paypal = "none"
             \/ /\ procs'[q].pc \notin {"askRefund", "orderRefund"}
                /\ procs'[q].pc = "applyRefund" => Applies(refunds', procs'[q])
  <2>1. CASE q # p
    <3>1. procs'[q] = procs[q] BY <1>1, <2>1 DEF TypeOK
    <3>2. procs[q].pc # "askRefund" BY <1>2, <2>1 DEF RefundInv, Alone
    <3> QED BY <3>1, <3>2
  <2>2. CASE q = p /\ procs' = [procs EXCEPT ![p] = Idle]
    BY <2>2, IdleIsCalm DEF TypeOK
  <2>3. CASE /\ q = p /\ answer # "Processing"
             /\ procs' = [procs EXCEPT ![p].pc = "applyRefund", ![p].seen = answer]
    <3>1. procs[p] \in Proc BY DEF TypeOK
    <3>2. /\ procs'[p].pc = "applyRefund" /\ procs'[p].seen = answer /\ procs'[p].refund = i
          /\ procs'[p].before = procs[p].before
      BY <2>3, <3>1 DEF TypeOK, Proc, i
    <3>3. Fits(refunds', procs'[p])
      <4>1. Fits(refunds, procs[p]) BY <1>3 DEF Asks
      <4>2. refunds'[i].amount = refunds[i].amount BY <1>4, <1>9 DEF SameMoney
      <4> QED BY <3>2, <4>1, <4>2 DEF Fits, i
    <3>4. procs'[p].before = Refunded(refunds')
      BY <1>3, <1>9, <3>2, MoneyStays DEF Asks
    <3>5. refunds'[i].paypal = answer /\ i \in DOMAIN refunds' BY <1>4, <1>7, <1>8
    <3>6. Applies(refunds', procs'[p]) BY <2>3, <3>2, <3>3, <3>4, <3>5 DEF Applies
    <3> QED BY <2>3, <3>2, <3>6
  <2> QED BY <1>1, <2>1, <2>2, <2>3
<1> QED BY <1>2, <1>7, <1>9, <1>10, <1>11, <1>12, QuietRefunds

\* The webhook of a refund counts the others: it is the last row, or it comes too late.
LEMMA RefundNotifyRefunds ==
  ASSUME TypeOK, RefundInv, NEW p \in Procs, NEW i \in DOMAIN refunds, HandleRefundNotify(p, i)
  PROVE RefundInv'
<1> DEFINE r == WithAll(Idle, "applyRefund", "Success", i, SumRefunded - refunds[i].amount)
<1>1. /\ procs' = [procs EXCEPT ![p] = r]
      /\ refunds[i].paypal = "Success" /\ UNCHANGED <<order, creator, refunds>>
  BY DEF HandleRefundNotify, Become, WithAll, payVars, restVars
<1>2. /\ r.pc = "applyRefund" /\ r.seen = "Success" /\ r.refund = i
      /\ r.before = SumRefunded - refunds[i].amount
  BY DEF WithAll, Idle
<1> HIDE DEF r
<1>3. refunds[i].amount \in 1..Amount BY RowType DEF Refund
<1>4. ASSUME i \in OpenIn(refunds) PROVE r.before = Refunded(refunds) /\ Fits(refunds, r)
  <2>1. OpenIn(refunds) \cup DoneIn(refunds) = DoneIn(refunds) \cup {i} /\ i \notin DoneIn(refunds)
    BY <1>4 DEF RefundInv, LastIsOpen, OpenIn, DoneIn
  <2>2. Reserved(refunds) = Refunded(refunds) + refunds[i].amount
    BY <1>3, <2>1, StatesFinite, WorthAdds DEF Reserved, Refunded
  <2>3. Reserved(refunds) <= Amount BY DEF RefundInv, Tells
  <2> QED BY <1>2, <1>3, <2>2, <2>3, StatesFinite DEF Fits
<1>5. Applies(refunds, r) BY <1>1, <1>2, <1>4 DEF Applies
<1>6. SameMoney(refunds, refunds') BY <1>1 DEF SameMoney
<1>7. ASSUME NEW q \in Procs
      PROVE \/ /\ procs'[q] = procs[q]
               /\ procs[q].pc = "askRefund" => refunds'[procs[q].refund].paypal = "none"
            \/ /\ procs'[q].pc \notin {"askRefund", "orderRefund"}
               /\ procs'[q].pc = "applyRefund" => Applies(refunds', procs'[q])
  <2>1. CASE q = p BY <1>1, <1>2, <1>5, <2>1 DEF TypeOK
  <2>2. CASE q # p BY <1>1, <2>2 DEF TypeOK, RefundInv, HandsAgree, Asks
  <2> QED BY <2>1, <2>2
<1> QED BY <1>1, <1>6, <1>7, QuietRefunds

\* The first to write a result ends the last row; the order is then written by it alone.
LEMMA UpdateRefunds ==
  ASSUME TypeOK, RefundInv, NEW p \in Procs, UpdateRefundStatus(p)
  PROVE RefundInv'
<1> DEFINE i == procs[p].refund
           status == IF procs[p].seen = "Success" THEN "REFUNDED" ELSE "FAILED"
<1>1. UNCHANGED <<order, creator>> /\ procs[p].pc = "applyRefund"
  BY DEF UpdateRefundStatus, restVars, At
<1>2. Applies(refunds, procs[p]) BY <1>1 DEF RefundInv, HandsAgree
<1>3. i \in DOMAIN refunds BY <1>2 DEF Applies
<1>4. CASE refunds[i].status # "REFUNDING"
  <2>1. UNCHANGED refunds /\ procs' = [procs EXCEPT ![p] = Idle]
    BY <1>4 DEF UpdateRefundStatus, Ends, Become
  <2>2. Replaces(p, Idle) BY <2>1 DEF Replaces, TypeOK
  <2> QED BY <1>1, <2>1, <2>2, IdleIsCalm, StillRefunds
<1>5. CASE refunds[i].status = "REFUNDING"
  <2>1. /\ refunds' = [refunds EXCEPT ![i].status = status]
        /\ procs' = [procs EXCEPT ![p].pc = "orderRefund"]
    BY <1>5 DEF UpdateRefundStatus
  <2>2. i \in OpenIn(refunds) BY <1>3, <1>5 DEF OpenIn
  <2>3. /\ procs[p].before = Refunded(refunds) /\ Fits(refunds, procs[p])
        /\ procs[p].seen \in {"Success", "Failed"} /\ refunds[i].paypal = procs[p].seen
    BY <1>2, <2>2 DEF Applies
  <2>4. order = "REFUNDING" /\ OpenIn(refunds) = {i} BY <2>2 DEF RefundInv, LastIsOpen
  <2>5. \A j \in DOMAIN refunds : refunds[j] \in Refund BY RowType
  <2>6. refunds[i].amount \in 1..Amount BY <1>3, <2>5 DEF Refund
  <2>7. procs[p] \in Proc BY DEF TypeOK
  <2>8. /\ procs'[p].pc = "orderRefund" /\ procs'[p].seen = procs[p].seen
        /\ procs'[p].refund = i /\ procs'[p].before = procs[p].before
    BY <2>1, <2>7 DEF TypeOK, Proc
  <2>9. \A q \in Procs : q # p => procs'[q] = procs[q] BY <2>1 DEF TypeOK
  <2>10. status \in RefundStatus /\ status # "REFUNDING" BY DEF RefundStatus
  <2>11. [refunds[i] EXCEPT !.status = status] \in Refund BY <1>3, <2>5, <2>10, RowTypes
  <2>12. status = IF procs[p].seen = "Success" THEN "REFUNDED" ELSE "FAILED" OBVIOUS
  <2> HIDE DEF i, status
  <2>13. /\ Len(refunds') = Len(refunds) /\ DOMAIN refunds' = DOMAIN refunds
         /\ \A j \in DOMAIN refunds :
              refunds'[j] = IF j = i THEN [refunds[i] EXCEPT !.status = status] ELSE refunds[j]
    BY <2>1, <2>11, RowWritten DEF TypeOK
  <2>14. /\ [refunds[i] EXCEPT !.status = status].status = status
         /\ [refunds[i] EXCEPT !.status = status].amount = refunds[i].amount
         /\ [refunds[i] EXCEPT !.status = status].paypal = refunds[i].paypal
    BY <1>3, <2>5 DEF Refund
  <2>15. \A j \in DOMAIN refunds : /\ refunds'[j].amount = refunds[j].amount
                                   /\ refunds'[j].paypal = refunds[j].paypal
    BY <2>13, <2>14
  <2>16. OpenIn(refunds') = {}
    <3> SUFFICES ASSUME NEW j \in DOMAIN refunds, refunds'[j].status = "REFUNDING" PROVE FALSE
      BY <2>13 DEF OpenIn
    <3>1. CASE j = i
      <4>1. refunds'[i].status = status BY <1>3, <2>13, <2>14
      <4> QED BY <2>10, <3>1, <4>1
    <3>2. CASE j # i
      <4>1. refunds[j].status = "REFUNDING" BY <2>13, <3>2
      <4> QED BY <2>4, <3>2, <4>1 DEF OpenIn
    <3> QED BY <3>1, <3>2
  <2>17. DoneIn(refunds') = DoneIn(refunds) \cup (IF procs[p].seen = "Success" THEN {i} ELSE {})
         /\ i \notin DoneIn(refunds)
    <3>1. i \notin DoneIn(refunds) BY <1>5 DEF DoneIn
    <3>2. DoneIn(refunds') =
            {j \in DOMAIN refunds : IF j = i THEN status = "REFUNDED" ELSE j \in DoneIn(refunds)}
      BY <2>13, <2>14 DEF DoneIn
    <3>3. DoneIn(refunds) \subseteq DOMAIN refunds BY DEF DoneIn
    <3>4. status = "REFUNDED" <=> procs[p].seen = "Success" BY <2>12
    <3> QED BY <1>3, <3>1, <3>2, <3>3, <3>4
  <2>18. Worth(refunds', DoneIn(refunds)) = Refunded(refunds)
    <3>1. \A j \in DoneIn(refunds) : refunds'[j].amount = refunds[j].amount
      BY <2>15 DEF DoneIn
    <3> QED BY <3>1, WorthSame DEF Refunded
  <2>19. Refunded(refunds') = Refunded(refunds)
                              + (IF procs[p].seen = "Success" THEN refunds[i].amount ELSE 0)
    <3>1. CASE procs[p].seen = "Success"
      <4>1. Worth(refunds', DoneIn(refunds) \cup {i}) =
              Worth(refunds', DoneIn(refunds)) + refunds'[i].amount
        BY <1>3, <2>6, <2>15, <2>17, StatesFinite, WorthAdds
      <4> QED BY <1>3, <2>15, <2>17, <2>18, <3>1, <4>1 DEF Refunded
    <3>2. CASE procs[p].seen # "Success"
      <4>1. DoneIn(refunds') = DoneIn(refunds) BY <2>17, <3>2
      <4> QED BY <2>18, <3>2, <4>1, StatesFinite DEF Refunded
    <3> QED BY <3>1, <3>2
  <2>20. procs[p].before \in Nat BY <2>3, StatesFinite
  <2>21. Fits(refunds', procs'[p]) BY <1>3, <2>3, <2>8, <2>15 DEF Fits, i
  <2>22. Concludes(refunds', procs'[p])
    BY <1>3, <2>3, <2>6, <2>8, <2>13, <2>15, <2>16, <2>19, <2>20, <2>21 DEF Concludes
  <2>23. Reserved(refunds') <= Amount
    <3>1. OpenIn(refunds') \cup DoneIn(refunds') = DoneIn(refunds') BY <2>16
    <3>2. Reserved(refunds') = Refunded(refunds') BY <3>1 DEF Reserved, Refunded
    <3> QED BY <2>3, <2>6, <2>19, <2>20, <3>2 DEF Fits, i
  <2>24. \A q \in Procs : q # p => procs[q].pc \notin {"askRefund", "orderRefund"}
    <3> SUFFICES ASSUME NEW q \in Procs, q # p
                 PROVE procs[q].pc \notin {"askRefund", "orderRefund"}
      OBVIOUS
    <3>1. procs[q].pc # "orderRefund" BY <2>2 DEF RefundInv, HandsAgree, Concludes
    <3>2. procs[q].pc # "askRefund"
      <4>1. ASSUME procs[q].pc = "askRefund" PROVE FALSE
        <5>1. procs[q].refund = i /\ refunds[i].paypal = "none"
          BY <2>4, <4>1 DEF RefundInv, HandsAgree, Asks
        <5> QED BY <2>3, <5>1
      <4> QED BY <4>1
    <3> QED BY <3>1, <3>2
  <2>25. ASSUME NEW q \in Procs, q # p, procs[q].pc = "applyRefund"
         PROVE Applies(refunds', procs[q])
    <3>1. Applies(refunds, procs[q]) BY <2>25 DEF RefundInv, HandsAgree
    <3> QED BY <2>13, <2>15, <2>16, <3>1 DEF Applies
  <2>26. Early' BY <1>1, <2>4 DEF RefundInv, Early
  <2>27. RowsAgree'
    <3> SUFFICES ASSUME NEW j \in DOMAIN refunds'
                 PROVE /\ refunds'[j].status = "FAILED" => refunds'[j].paypal = "Failed"
                       /\ refunds'[j].status = "REFUNDED" => refunds'[j].paypal = "Success"
      BY DEF RowsAgree
    <3>1. CASE j = i
      <4>1. refunds'[i].status = status /\ refunds'[i].paypal = procs[p].seen
        BY <1>3, <2>3, <2>13, <2>14
      <4> QED BY <2>3, <2>12, <3>1, <4>1
    <3>2. CASE j # i BY <2>13, <3>2 DEF RefundInv, RowsAgree
    <3> QED BY <3>1, <3>2
  <2>28. LastIsOpen' BY <2>16 DEF LastIsOpen
  <2>29. HandsAgree' BY <1>1, <2>4, <2>8, <2>9, <2>22, <2>24, <2>25 DEF HandsAgree
  <2>30. Alone' BY <2>8, <2>9, <2>24 DEF Alone
  <2>31. Tells' BY <1>1, <2>4, <2>23 DEF Tells
  <2> QED BY <2>26, <2>27, <2>28, <2>29, <2>30, <2>31 DEF RefundInv
<1> QED BY <1>4, <1>5

\* The order is written with all rows decided, and what it was told of them is so.
LEMMA OrderRefunds ==
  ASSUME TypeOK, RefundInv, NEW p \in Procs, UpdateOrderRefundStatus(p)
  PROVE RefundInv'
<1>1. /\ UNCHANGED <<creator, refunds>> /\ procs[p].pc = "orderRefund"
      /\ procs' = [procs EXCEPT ![p] = Idle]
  BY DEF UpdateOrderRefundStatus, restVars, At, Ends, Become
<1>2. order = "REFUNDING" /\ Concludes(refunds, procs[p]) BY <1>1 DEF RefundInv, HandsAgree
<1>3. \A q \in Procs : q # p => procs'[q] = procs[q] BY <1>1 DEF TypeOK
<1>4. procs'[p].pc = "idle" BY <1>1, IdleIsCalm DEF TypeOK
<1>5. \A q \in Procs : q # p => procs[q].pc \notin {"askRefund", "orderRefund"}
  BY <1>1, <1>2 DEF RefundInv, Alone, HandsAgree, Asks, Concludes
<1>6. refunds[procs[p].refund].amount \in 1..Amount /\ procs[p].before \in Int
  BY <1>2, RowType DEF Concludes, Refund, TypeOK, Proc
<1>7. Refunded(refunds) \in Nat BY StatesFinite
<1>8. order' \in {"PAID", "PARTIAL_REFUNDED", "REFUNDED"}
  BY DEF UpdateOrderRefundStatus
<1>9. /\ order' = "PAID" => Refunded(refunds) = 0
      /\ order' = "PARTIAL_REFUNDED" => Refunded(refunds) \in 1..(Amount - 1)
      /\ order' = "REFUNDED" => Refunded(refunds) = Amount
  <2>1. CASE procs[p].seen = "Success"
    <3> DEFINE after == procs[p].before + refunds[procs[p].refund].amount
    <3>1. order' = IF after >= Amount THEN "REFUNDED" ELSE "PARTIAL_REFUNDED"
      BY <2>1 DEF UpdateOrderRefundStatus
    <3>2. Refunded(refunds) = after /\ after <= Amount BY <1>2, <2>1 DEF Concludes, Fits
    <3>3. procs[p].before \in Nat BY <1>2, <1>6 DEF Concludes
    <3>4. after \in 1..Amount BY <1>6, <3>2, <3>3
    <3> HIDE DEF after
    <3>5. CASE after >= Amount
      <4>1. after = Amount BY <3>4, <3>5
      <4> QED BY <3>1, <3>2, <3>5, <4>1
    <3>6. CASE ~ (after >= Amount)
      <4>1. after \in 1..(Amount - 1) BY <3>4, <3>6
      <4> QED BY <3>1, <3>2, <3>6, <4>1
    <3> QED BY <3>5, <3>6
  <2>2. CASE procs[p].seen # "Success"
    BY <1>2, <1>6, <1>7, <2>2 DEF UpdateOrderRefundStatus, Concludes, Fits
  <2> QED BY <2>1, <2>2
<1>10. Early' BY <1>1, <1>2, <1>8 DEF RefundInv, Early
<1>11. RowsAgree' BY <1>1 DEF RefundInv, RowsAgree
<1>12. LastIsOpen' BY <1>1, <1>2 DEF LastIsOpen, Concludes
<1>13. HandsAgree' BY <1>1, <1>3, <1>4, <1>5 DEF RefundInv, HandsAgree
<1>14. Alone' BY <1>3, <1>4, <1>5 DEF Alone
<1>15. Tells' BY <1>1, <1>9 DEF RefundInv, Tells
<1> QED BY <1>10, <1>11, <1>12, <1>13, <1>14, <1>15 DEF RefundInv

LEMMA RefundsInit == Init => RefundInv
<1> SUFFICES ASSUME Init PROVE RefundInv OBVIOUS
<1>1. refunds = <<>> /\ order = "none" /\ \A p \in Procs : procs[p].pc = "idle"
  BY IdleIsCalm DEF Init
<1>2. OpenIn(<<>>) = {} /\ DoneIn(<<>>) = {} BY DEF OpenIn, DoneIn
<1>3. Reserved(<<>>) = 0 BY <1>2, WorthOfNone DEF Reserved
<1> QED BY <1>1, <1>2, <1>3
     DEF RefundInv, Early, RowsAgree, LastIsOpen, HandsAgree, Alone, Tells

LEMMA RefundsStep == TypeOK /\ RefundInv /\ [Next]_vars => RefundInv'
<1> SUFFICES ASSUME TypeOK, RefundInv, [Next]_vars PROVE RefundInv' OBVIOUS
<1>1. CASE Create \/ CreatorDies BY <1>1, CreationRefunds
<1>2. CASE Approve \/ Decide \/ Void \/ GrowsOld BY <1>2, WorldRefunds
<1>3. CASE \E i \in DOMAIN refunds : DecideRefund(i) BY <1>3, DecideRefunds
<1>4. CASE Reconcile \/ ReconcileTopupsOnce BY <1>4, LoopsRefunds DEF Reconcile
<1>5. ASSUME NEW p \in Procs, Proceed(p) PROVE RefundInv'
  BY <1>5, OtherHandsRefunds, RecordRefunds, AskRefunds, UpdateRefunds, OrderRefunds
     DEF Proceed, ApplyNotifyResult
<1>6. ASSUME NEW p \in Procs, Request(p) PROVE RefundInv'
  <2>1. CASE HandleNotify(p) BY <2>1, RecordRefunds DEF HandleNotify
  <2> QED BY <1>6, <2>1, OtherHandsRefunds, PrepareRefunds, RefundNotifyRefunds DEF Request
<1>7. ASSUME NEW p \in Procs, Crash(p) PROVE RefundInv' BY <1>7, OtherHandsRefunds
<1>8. CASE UNCHANGED vars
  BY <1>8 DEF vars, RefundInv, Early, RowsAgree, LastIsOpen, HandsAgree, Alone, Tells
<1> QED BY <1>1, <1>2, <1>3, <1>4, <1>5, <1>6, <1>7, <1>8 DEF Next

\* In every reachable state the rows of the refunds, PayPal's answers, the order and what the
\* handlers remember of them fit together, whatever crashes or comes out of order.
THEOREM RefundInvariantHolds == Spec => [](TypeOK /\ RefundInv)
<1>1. Init => TypeOK /\ RefundInv BY TypeInit, RefundsInit
<1>2. TypeOK /\ RefundInv /\ [Next]_vars => (TypeOK /\ RefundInv)' BY TypeStep, RefundsStep
<1> QED BY <1>1, <1>2, PTL DEF Spec

\* PayPal is never asked to send back more than was paid, for any number of concurrent and
\* repeated refunds of any amounts (PrepareRefund).
THEOREM NeverRefundsTooMuch == Spec => []RefundsWithinPayment
<1>1. TypeOK /\ RefundInv => RefundsWithinPayment
  <2> SUFFICES ASSUME TypeOK, RefundInv PROVE RefundsWithinPayment OBVIOUS
  <2> DEFINE moving == {i \in DOMAIN refunds : refunds[i].paypal \in {"Processing", "Success"}}
             rows == OpenIn(refunds) \cup DoneIn(refunds)
  <2>1. moving \in SUBSET rows
    <3> SUFFICES ASSUME NEW i \in moving PROVE i \in rows OBVIOUS
    <3>1. refunds[i].status \in RefundStatus BY RowType DEF Refund
    <3> QED BY <3>1 DEF RefundInv, RowsAgree, RefundStatus, OpenIn, DoneIn
  <2>2. moving \in SUBSET DOMAIN refunds OBVIOUS
  <2>3. Total(moving) \in Nat /\ Total(moving) = Worth(refunds, moving)
    BY <2>2, RowsFinite, TotalIsWorth DEF TypeOK
  <2>4. Worth(refunds, moving) <= Worth(refunds, rows)
    <3> HIDE DEF moving
    <3> QED BY <2>1, StatesFinite, WorthGrows
  <2>5. Reserved(refunds) <= Amount /\ Reserved(refunds) \in Nat
    BY StatesFinite DEF RefundInv, Tells
  <2> QED BY <2>3, <2>4, <2>5 DEF RefundsWithinPayment, Reserved
<1> QED BY <1>1, RefundInvariantHolds, PTL

\* Outside REFUNDING the status of the order says what its refunds came to, for any number of
\* refunds and in whatever order their results arrive (UpdateOrderRefundStatus).
THEOREM OrderTellsItsRefunds == Spec => []OrderTellsRefunds
<1>1. TypeOK /\ RefundInv => OrderTellsRefunds
  <2> SUFFICES ASSUME TypeOK, RefundInv PROVE OrderTellsRefunds OBVIOUS
  <2>1. Total(RowsIn({"REFUNDED"})) = Refunded(refunds) /\ SumRefunded = Reserved(refunds)
    BY StatesFinite
  <2>2. order # "REFUNDING" => SumRefunded = Refunded(refunds)
    <3>1. order # "REFUNDING" => OpenIn(refunds) \cup DoneIn(refunds) = DoneIn(refunds)
      BY DEF RefundInv, LastIsOpen
    <3> QED BY <2>1, <3>1 DEF Reserved, Refunded
  <2> QED BY <2>1, <2>2 DEF RefundInv, Tells, OrderTellsRefunds
<1> QED BY <1>1, RefundInvariantHolds, PTL
================================================================================
