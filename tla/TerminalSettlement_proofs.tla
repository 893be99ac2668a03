----------------------- MODULE TerminalSettlement_proofs -----------------------
(***************************************************************************)
(* Proofs about TerminalSettlement, for any number of handlers, verdicts,   *)
(* effects and dispatch generations: its invariants, then that it implements *)
(* TerminalVerdict.                                                        *)
(***************************************************************************)
EXTENDS MCTerminalSettlement, TLAPS

\* From the commit on, a handler only goes on while the ledger carries the verdict
\* it has in hand.
Decided == {"settle", "repair", "mark", "finish", "effectClaim", "effectRun",
            "effectComplete", "finalize", "ack"}

\* Every packet in progress carries a verdict, and past the commit it is that of
\* the ledger.
HandlersAgree ==
  \A h \in Handlers :
    /\ handlers[h].pc # "idle" => handlers[h].verdict \in Verdicts
    /\ handlers[h].pc \in Decided => ledger.status = handlers[h].verdict

\* A record that an intent has claimed carries a verdict.
RecordHasVerdict == redis.stage \in {"intent", "settled"} => redis.verdict \in Verdicts

\* What makes the acknowledged verdict the frozen one: the inductive invariant.
IInv ==
  /\ TypeOK
  /\ HandlersAgree
  /\ RecordHasVerdict
  /\ AckMatchesVerdict

USE ConstantsAssumption, TagsAssumption

\* The initial states satisfy the invariant: nothing is in progress.
LEMMA InitInv == Init => IInv
  <1> SUFFICES ASSUME Init PROVE IInv OBVIOUS
  <1>1. TypeOK
    <2>1. InitialGen \in Gens /\ 0 \in Gens
      BY DEF InitialGen, Gens
    <2>2. ledger \in LedgerRow
      BY <2>1 DEF Init, LedgerRow
    <2>3. /\ redis \in Record
          /\ chat \in ChatRow
          /\ world \in World
      <3>1. CASE InitDispatched
        <4>1. PICK s \in {"ack", "result"} :
                redis = [NoRecord EXCEPT !.stage = s, !.gen = InitialGen]
          BY <3>1 DEF InitDispatched
        <4>2. redis \in Record
          BY <2>1, <4>1 DEF NoRecord, Record, Stages
        <4>3. chat \in ChatRow /\ world \in World
          BY <2>1, <3>1 DEF InitDispatched, ChatRow, World
        <4> QED BY <4>2, <4>3
      <3>2. CASE InitTombstone
        <4>1. PICK v \in Verdicts :
                /\ redis = [NoRecord EXCEPT !.stage = "settled", !.verdict = v]
                /\ chat = [state |-> v, gen |-> 0]
          BY <3>2 DEF InitTombstone
        <4>2. redis \in Record
          BY <2>1, <4>1 DEF NoRecord, Record, Stages
        <4>3. chat \in ChatRow /\ world \in World
          BY <2>1, <3>2, <4>1 DEF InitTombstone, ChatRow, World
        <4> QED BY <4>2, <4>3
      <3> QED BY <3>1, <3>2 DEF Init
    <2>4. effects \in [Effects -> EffectRow]
      BY DEF Init, EffectRow, NoRow
    <2>5. handlers \in [Handlers -> Handler]
      BY <2>1 DEF Init, Handler, Idle, PCs
    <2>6. ran \subseteq Effects /\ published \subseteq Notifiers /\ acked \subseteq Verdicts
      BY DEF Init, InitDispatched, InitTombstone, Notifiers
    <2> QED BY <2>2, <2>3, <2>4, <2>5, <2>6 DEF TypeOK
  <1>2. HandlersAgree
    BY DEF Init, HandlersAgree, Decided, Idle
  <1>3. RecordHasVerdict
    BY DEF Init, InitDispatched, InitTombstone, RecordHasVerdict, NoRecord
  <1>4. AckMatchesVerdict
    BY DEF Init, AckMatchesVerdict
  <1> QED BY <1>1, <1>2, <1>3, <1>4 DEF IInv

-----------------------------------------------------------------------------
(* One lemma per concern. First: the ledger never gives up a verdict.        *)

\* The commit of a verdict finds a frozen row as it is: it only confirms or conflicts.
LEMMA CommitKeepsFrozen ==
  ASSUME TypeOK, NEW h \in Handlers, NEW label, NEW imported, CommitThen(h, label, imported)
  PROVE  Frozen => ledger'.status = ledger.status
  BY DEF CommitThen, CanFreeze, Frozen

\* No step of a handler, of another run or of time replaces a frozen verdict.
LEMMA FrozenStays ==
  ASSUME TypeOK, [Next]_vars
  PROVE  Frozen => ledger'.status = ledger.status
  <1>1. ASSUME NEW h \in Handlers, HandlerStep(h)
        PROVE  Frozen => ledger'.status = ledger.status
    <2>1. CASE Commit(h) \/ Recommit(h) \/ StopCommit(h) \/ Import(h)
      BY <2>1, CommitKeepsFrozen DEF Commit, Recommit, StopCommit, Import
    <2>2. CASE Mark(h) \/ Finalize(h)
      BY <2>2 DEF Mark, Finalize, TypeOK, LedgerRow
    <2>3. CASE \/ Resolve(h) \/ Claim(h) \/ Reclaim(h) \/ Settle(h) \/ StopResolve(h)
               \/ Repair(h) \/ Finish(h) \/ EffectClaim(h) \/ EffectRun(h)
               \/ EffectComplete(h) \/ Ack(h)
      BY <2>3 DEF Resolve, Claim, Reclaim, Settle, StopResolve, Repair, Finish,
         EffectClaim, EffectRun, EffectComplete, Ack
    <2> QED BY <1>1, <2>1, <2>2, <2>3 DEF HandlerStep
  <1>2. CASE SeedDeleted \/ Redispatch
    BY <1>2 DEF SeedDeleted, Redispatch, Frozen
  <1>3. CASE RedispatchRecord
    BY <1>3 DEF RedispatchRecord, CanFreeze, Frozen
  <1>4. ASSUME NEW h \in Handlers, NEW v \in Verdicts, ReceiveResult(h, v) \/ ReceiveStop(h, v)
        PROVE  Frozen => ledger'.status = ledger.status
    BY <1>4 DEF ReceiveResult, ReceiveStop, Receive
  <1>5. ASSUME NEW h \in Handlers, EffectFail(h) \/ Abort(h)
        PROVE  Frozen => ledger'.status = ledger.status
    BY <1>5 DEF EffectFail, Abort
  <1>6. ASSUME NEW e \in Effects, EffectLeaseExpires(e)
        PROVE  Frozen => ledger'.status = ledger.status
    BY <1>6 DEF EffectLeaseExpires
  <1>7. CASE \/ IntentLeaseExpires \/ RedisRecordExpires \/ TrackerForgotten
             \/ RunningWrite \/ NewerRun \/ UNCHANGED vars
    BY <1>7 DEF IntentLeaseExpires, RedisRecordExpires, TrackerForgotten, RunningWrite,
       NewerRun, vars
  <1> QED BY <1>1, <1>2, <1>3, <1>4, <1>5, <1>6, <1>7 DEF Next

-----------------------------------------------------------------------------
(* Second: types. *)

\* Types of the handlers, by the ways a handler goes on.
LEMMA GotoType ==
  ASSUME TypeOK, NEW h \in Handlers, NEW label \in PCs, Goto(h, label)
  PROVE  handlers' \in [Handlers -> Handler]
  BY DEF TypeOK, Goto, Handler

\* A handler without a packet.
LEMMA IdleType == Idle \in Handler
  BY DEF Idle, Handler, PCs, Gens

\* A handler that ends its packet.
LEMMA HaltType ==
  ASSUME TypeOK, NEW h \in Handlers, Halt(h)
  PROVE  handlers' \in [Handlers -> Handler]
  BY IdleType DEF TypeOK, Halt

\* A handler that goes on to the next effect, or to the finalization.
LEMMA AdvanceType ==
  ASSUME TypeOK, NEW h \in Handlers, handlers[h].effect \in Effects, Advance(h)
  PROVE  handlers' \in [Handlers -> Handler]
  <1>1. handlers[h].effect + 1 \in 1..(NumEffects + 1)
    BY DEF Effects
  <1>2. (IF handlers[h].effect = NumEffects THEN "finalize" ELSE "effectClaim") \in PCs
    BY DEF PCs
  <1>3. [handlers[h] EXCEPT !.effect = handlers[h].effect + 1,
           !.pc = IF handlers[h].effect = NumEffects THEN "finalize" ELSE "effectClaim"]
          \in Handler
    BY <1>1, <1>2 DEF TypeOK, Handler
  <1> QED BY <1>3 DEF TypeOK, Advance

\* The commit makes the missing effect rows and keeps the others.
LEMMA EnsuredType ==
  ASSUME TypeOK
  PROVE  EffectRowsEnsured \in [Effects -> EffectRow]
  BY DEF TypeOK, EffectRowsEnsured, EffectRow

\* The transaction that freezes a verdict writes a row, chat_states and effect rows.
LEMMA FreezeType ==
  ASSUME TypeOK, NEW v \in Verdicts, NEW g \in Gens, NEW imported \in BOOLEAN,
         Freeze(v, g, imported)
  PROVE  ledger' \in LedgerRow /\ chat' \in ChatRow /\ effects' \in [Effects -> EffectRow]
  <1>1. (~imported /\ ChatSettles(g)) \in BOOLEAN
    OBVIOUS
  <1>2. ledger' \in LedgerRow
    BY <1>1 DEF Freeze, TypeOK, LedgerRow
  <1>3. chat' \in ChatRow
    BY DEF Freeze, TypeOK, ChatRow
  <1>4. effects' \in [Effects -> EffectRow]
    BY EnsuredType DEF Freeze
  <1> QED BY <1>2, <1>3, <1>4

\* Whatever a commit finds, all types hold after it.
LEMMA CommitType ==
  ASSUME TypeOK, NEW h \in Handlers, handlers[h].verdict \in Verdicts,
         NEW label \in PCs, NEW imported \in BOOLEAN, CommitThen(h, label, imported)
  PROVE  TypeOK'
  <1>0. 0 \in Gens /\ handlers[h].gen \in Gens /\ handlers[h] \in Handler
    BY DEF TypeOK, Gens, Handler
  <1>1. CASE CanFreeze(handlers[h].gen) /\ Freeze(handlers[h].verdict, handlers[h].gen, imported)
             /\ handlers' = [handlers EXCEPT ![h].pc = label, ![h].gen = 0]
    <2>1. handlers' \in [Handlers -> Handler]
      BY <1>0, <1>1 DEF TypeOK, Handler
    <2> QED BY <1>0, <1>1, <2>1, FreezeType DEF TypeOK, CommitThen
  <1>2. CASE /\ handlers' = [handlers EXCEPT ![h].pc = label, ![h].gen = 0,
                                             ![h].sawDone = ledger.effectsDone]
             /\ UNCHANGED <<ledger, chat, effects>>
    <2>1. handlers' \in [Handlers -> Handler]
      BY <1>0, <1>2 DEF TypeOK, Handler, LedgerRow
    <2> QED BY <1>2, <2>1 DEF TypeOK, CommitThen
  <1>3. CASE Halt(h) /\ UNCHANGED <<ledger, chat, effects>>
    BY <1>3, HaltType DEF TypeOK, CommitThen
  <1> QED BY <1>1, <1>2, <1>3 DEF CommitThen

\* The record a claim finds, or brings along, is well formed.
LEMMA TakeIntentType ==
  ASSUME TypeOK, NEW h \in Handlers, handlers[h].verdict \in Verdicts,
         NEW r \in Record, TakeIntent(h, r)
  PROVE  redis' \in Record /\ handlers' \in [Handlers -> Handler]
  <1> DEFINE v == handlers[h].verdict
  <1>0. handlers[h] \in Handler /\ r.gen \in Gens
    BY DEF TypeOK, Record
  <1>1. CASE /\ redis' = [stage |-> "intent", verdict |-> v, token |-> h, leased |-> TRUE,
                          gen |-> r.gen]
             /\ handlers' = [handlers EXCEPT ![h].pc = "commit", ![h].gen = r.gen]
    BY <1>0, <1>1 DEF TypeOK, Record, Stages, Handler, PCs
  <1>2. CASE /\ handlers' = [handlers EXCEPT
                  ![h].pc = IF handlers[h].sawNoRow THEN "import" ELSE "recommit",
                  ![h].gen = r.gen]
             /\ UNCHANGED redis
    <2>1. (IF handlers[h].sawNoRow THEN "import" ELSE "recommit") \in PCs
      BY DEF PCs
    <2> QED BY <1>0, <1>2, <2>1 DEF TypeOK, Handler
  <1>3. CASE Halt(h) /\ UNCHANGED redis
    BY <1>3, HaltType DEF TypeOK
  <1> QED BY <1>1, <1>2, <1>3 DEF TakeIntent

\* A step of a handler whose packet carries a verdict.
LEMMA HandlerStepType ==
  ASSUME TypeOK, NEW h \in Handlers, HandlerStep(h), handlers[h].verdict \in Verdicts
  PROVE  TypeOK'
  <1>0. handlers[h] \in Handler /\ 0 \in Gens
    BY DEF TypeOK, Gens
  <1>1. CASE Resolve(h)
    <2>1. handlers' \in [Handlers -> Handler]
      BY <1>0, <1>1, HaltType DEF Resolve, TypeOK, Handler, PCs, LedgerRow
    <2> QED BY <1>1, <2>1 DEF Resolve, TypeOK
  <1>2. CASE Claim(h)
    <2>1. redis' \in Record /\ handlers' \in [Handlers -> Handler]
      BY <1>2, TakeIntentType, HaltType, GotoType DEF Claim, TypeOK, PCs
    <2> QED BY <1>2, <2>1 DEF Claim, TypeOK
  <1>3. CASE Reclaim(h)
    <2> DEFINE r == IF redis.stage # "none" THEN redis
                    ELSE [NoRecord EXCEPT !.stage = "result", !.gen = FallbackGen(h)]
    <2>1. FallbackGen(h) \in Gens
      BY <1>0 DEF FallbackGen, TypeOK, World, Handler
    <2>2. r \in Record
      BY <1>0, <2>1 DEF NoRecord, Record, Stages, TypeOK
    <2>3. redis' \in Record /\ handlers' \in [Handlers -> Handler]
      BY <1>3, <2>2, TakeIntentType, HaltType DEF Reclaim, TypeOK
    <2> QED BY <1>3, <2>3 DEF Reclaim, TypeOK
  <1>4. CASE Commit(h) \/ Recommit(h) \/ StopCommit(h) \/ Import(h)
    BY <1>4, CommitType DEF Commit, Recommit, StopCommit, Import, PCs
  <1>5. CASE Settle(h)
    <2>1. redis' \in Record
      BY <1>5 DEF Settle, TypeOK, Record, Stages
    <2>2. handlers' \in [Handlers -> Handler]
      BY <1>5, HaltType, GotoType DEF Settle, PCs
    <2> QED BY <1>5, <2>1, <2>2 DEF Settle, TypeOK
  <1>6. CASE StopResolve(h)
    <2>1. handlers' \in [Handlers -> Handler]
      BY <1>0, <1>6, HaltType
      DEF StopResolve, StopReplays, Frozen, TypeOK, Handler, PCs, LedgerRow, Record, World
    <2> QED BY <1>6, <2>1 DEF StopResolve, TypeOK
  <1>7. CASE Repair(h)
    <2>1. redis' \in Record
      BY <1>7 DEF Repair, TypeOK, Record, Stages, LedgerRow
    <2>2. handlers' \in [Handlers -> Handler]
      BY <1>7, GotoType DEF Repair, PCs
    <2> QED BY <1>7, <2>1, <2>2 DEF Repair, TypeOK
  <1>8. CASE Mark(h)
    <2>1. ledger' \in LedgerRow
      BY <1>8 DEF Mark, TypeOK, LedgerRow
    <2>2. handlers' \in [Handlers -> Handler]
      BY <1>8, HaltType, GotoType DEF Mark, PCs
    <2> QED BY <1>8, <2>1, <2>2 DEF Mark, TypeOK
  <1>9. CASE Finish(h)
    <2>1. world' \in World
      BY <1>9 DEF Finish, TypeOK, World
    <2>2. handlers' \in [Handlers -> Handler] /\ effects' \in [Effects -> EffectRow]
      BY <1>9, GotoType, EnsuredType DEF Finish, PCs, TypeOK
    <2> QED BY <1>9, <2>1, <2>2 DEF Finish, TypeOK
  <1>10. CASE EffectClaim(h)
    <2>0. [state |-> "claimed", token |-> h, leased |-> TRUE] \in EffectRow
      BY DEF EffectRow
    <2>1. effects' \in [Effects -> EffectRow]
      BY <1>10, <2>0 DEF EffectClaim, TypeOK
    <2>2. handlers' \in [Handlers -> Handler]
      BY <1>10, HaltType, GotoType, AdvanceType DEF EffectClaim, PCs
    <2> QED BY <1>10, <2>1, <2>2 DEF EffectClaim, TypeOK
  <1>11. CASE EffectRun(h)
    <2>1. handlers' \in [Handlers -> Handler]
      BY <1>11, GotoType DEF EffectRun, PCs
    <2>2. ran' \subseteq Effects /\ published' \subseteq Notifiers
      BY <1>11 DEF EffectRun, TypeOK, Notifiers
    <2> QED BY <1>11, <2>1, <2>2 DEF EffectRun, TypeOK
  <1>12. CASE EffectComplete(h)
    <2>0. [NoRow EXCEPT !.state = "done"] \in EffectRow
      BY DEF EffectRow, NoRow
    <2>1. effects' \in [Effects -> EffectRow]
      BY <1>12, <2>0 DEF EffectComplete, TypeOK
    <2>2. handlers' \in [Handlers -> Handler]
      BY <1>12, HaltType, AdvanceType DEF EffectComplete
    <2> QED BY <1>12, <2>1, <2>2 DEF EffectComplete, TypeOK
  <1>13. CASE Finalize(h)
    <2>1. ledger' \in LedgerRow
      BY <1>13 DEF Finalize, TypeOK, LedgerRow
    <2>2. handlers' \in [Handlers -> Handler]
      BY <1>13, HaltType, GotoType DEF Finalize, PCs
    <2> QED BY <1>13, <2>1, <2>2 DEF Finalize, TypeOK
  <1>14. CASE Ack(h)
    BY <1>14, HaltType DEF Ack, TypeOK
  <1> QED BY <1>1, <1>2, <1>3, <1>4, <1>5, <1>6, <1>7, <1>8, <1>9, <1>10, <1>11, <1>12,
             <1>13, <1>14 DEF HandlerStep

\* Every step keeps the types.
LEMMA TypeStep ==
  ASSUME IInv, [Next]_vars
  PROVE  TypeOK'
  <1>0. TypeOK /\ RecordHasVerdict /\ 0 \in Gens
    BY DEF IInv, TypeOK, Gens
  <1>1. ASSUME NEW h \in Handlers, HandlerStep(h)
        PROVE  TypeOK'
    <2>1. handlers[h].pc # "idle"
      BY <1>1 DEF HandlerStep, Resolve, Claim, Reclaim, Commit, Recommit, StopCommit, Import,
         Settle, StopResolve, Repair, Mark, Finish, EffectClaim, EffectRun, EffectComplete,
         Finalize, Ack, At
    <2> QED BY <1>0, <1>1, <2>1, HandlerStepType DEF IInv, HandlersAgree
  <1>2. ASSUME NEW h \in Handlers, NEW v \in Verdicts, ReceiveResult(h, v) \/ ReceiveStop(h, v)
        PROVE  TypeOK'
    <2>1. /\ [Idle EXCEPT !.pc = "resolve", !.verdict = v] \in Handler
          /\ [Idle EXCEPT !.pc = "stopResolve", !.verdict = v] \in Handler
      BY IdleType DEF Handler, PCs
    <2>2. handlers' \in [Handlers -> Handler]
      BY <1>0, <1>2, <2>1 DEF ReceiveResult, ReceiveStop, Receive, TypeOK
    <2> QED BY <1>0, <1>2, <2>2 DEF ReceiveResult, ReceiveStop, Receive, TypeOK
  <1>3. ASSUME NEW h \in Handlers, EffectFail(h) \/ Abort(h)
        PROVE  TypeOK'
    <2>1. [NoRow EXCEPT !.state = "pending"] \in EffectRow
      BY DEF EffectRow, NoRow
    <2>2. effects' \in [Effects -> EffectRow]
      BY <1>0, <1>3, <2>1 DEF EffectFail, Abort, TypeOK
    <2> QED BY <1>0, <1>3, <2>2, HaltType DEF EffectFail, Abort, TypeOK
  <1>4. CASE IntentLeaseExpires \/ RedisRecordExpires
    <2>1. redis' \in Record
      <3>1. NoRecord \in Record
        BY <1>0 DEF NoRecord, Record, Stages
      <3>2. [redis EXCEPT !.leased = FALSE] \in Record
        BY <1>0 DEF TypeOK, Record
      <3> QED BY <1>4, <3>1, <3>2 DEF IntentLeaseExpires, RedisRecordExpires
    <2> QED BY <1>0, <1>4, <2>1 DEF IntentLeaseExpires, RedisRecordExpires, TypeOK
  <1>5. ASSUME NEW e \in Effects, EffectLeaseExpires(e)
        PROVE  TypeOK'
    <2>1. [effects[e] EXCEPT !.leased = FALSE] \in EffectRow
      BY <1>0 DEF TypeOK, EffectRow
    <2>2. effects' \in [Effects -> EffectRow]
      BY <1>0, <1>5, <2>1 DEF EffectLeaseExpires, TypeOK
    <2> QED BY <1>0, <1>5, <2>2 DEF EffectLeaseExpires, TypeOK
  <1>6. CASE TrackerForgotten \/ RunningWrite \/ NewerRun
    <2>1. world' \in World
      BY <1>0, <1>6 DEF TrackerForgotten, RunningWrite, NewerRun, TypeOK, World
    <2>2. chat' \in ChatRow
      BY <1>0, <1>6 DEF TrackerForgotten, RunningWrite, NewerRun, TypeOK, World, ChatRow
    <2> QED BY <1>0, <1>6, <2>1, <2>2 DEF TrackerForgotten, RunningWrite, NewerRun, TypeOK
  <1>7. CASE SeedDeleted
    <2>1. ledger' \in LedgerRow
      BY <1>0, <1>7 DEF SeedDeleted, TypeOK, LedgerRow
    <2> QED BY <1>0, <1>7, <2>1 DEF SeedDeleted, TypeOK
  <1>8. CASE Redispatch
    <2>1. world.lastGen < MaxGen => world.lastGen + 1 \in Gens
      BY <1>0 DEF TypeOK, World, Gens
    <2>2. ledger' \in LedgerRow
      BY <1>0, <1>8, <2>1 DEF Redispatch, TypeOK, LedgerRow
    <2>3. world' \in World
      BY <1>0, <1>8, <2>1 DEF Redispatch, TypeOK, World
    <2> QED BY <1>0, <1>8, <2>2, <2>3 DEF Redispatch, TypeOK
  <1>9. CASE RedispatchRecord
    <2>1. redis' \in Record
      BY <1>0, <1>9 DEF RedispatchRecord, TypeOK, Record, NoRecord, Stages, World
    <2>2. world' \in World
      <3>1. world \in World /\ redis.gen \in Gens
        BY <1>0 DEF TypeOK, Record
      <3>2. /\ [world EXCEPT !.dispatch = "idle"] \in World
            /\ [world EXCEPT !.dispatch = "idle", !.tracked = TRUE,
                             !.runGen = redis.gen] \in World
            /\ [world EXCEPT !.dispatch = "idle", !.tracked = TRUE,
                             !.runWrite = TRUE, !.runGen = world.lastGen] \in World
        BY <3>1 DEF World
      <3> QED BY <1>9, <3>2 DEF RedispatchRecord
    <2>3. /\ ledger' \in LedgerRow
          /\ chat' \in ChatRow
          /\ effects' \in [Effects -> EffectRow]
      <3>1. redis.gen \in Gens /\ (redis.stage = "settled" => redis.verdict \in Verdicts)
        BY <1>0 DEF TypeOK, Record, RecordHasVerdict
      <3> QED BY <1>0, <1>9, <3>1, FreezeType DEF RedispatchRecord, TypeOK
    <2> QED BY <1>0, <1>9, <2>1, <2>2, <2>3 DEF RedispatchRecord, TypeOK
  <1>10. CASE UNCHANGED vars
    BY <1>0, <1>10 DEF vars, TypeOK
  <1> QED BY <1>1, <1>2, <1>3, <1>4, <1>5, <1>6, <1>7, <1>8, <1>9, <1>10 DEF Next

-----------------------------------------------------------------------------
(* Third: handlers, record and acknowledgements follow the ledger. *)

Agrees(h) ==
  /\ handlers[h].pc # "idle" => handlers[h].verdict \in Verdicts
  /\ handlers[h].pc \in Decided => ledger.status = handlers[h].verdict

\* A handler that does not move still agrees with the ledger.
LEMMA BystanderAgrees ==
  ASSUME IInv, [Next]_vars, NEW h \in Handlers, handlers'[h] = handlers[h]
  PROVE  Agrees(h)'
  BY FrozenStays DEF IInv, HandlersAgree, Agrees, Frozen, Decided

\* A handler's step moves no other handler.
LEMMA OthersUntouched ==
  ASSUME TypeOK, NEW h \in Handlers, HandlerStep(h), NEW g \in Handlers \ {h}
  PROVE  handlers'[g] = handlers[g]
  BY DEF HandlerStep, Resolve, Claim, Reclaim, TakeIntent, Commit, Recommit, StopCommit, Import,
     CommitThen, Settle, StopResolve, Repair, Mark, Finish, EffectClaim, EffectRun,
     EffectComplete, Finalize, Ack, Halt, Goto, Advance, TypeOK

\* A handler that comes out of the commit has the verdict of the ledger in hand.
LEMMA CommitAgrees ==
  ASSUME IInv, NEW h \in Handlers, handlers[h].verdict \in Verdicts, NEW label,
         NEW imported \in BOOLEAN, CommitThen(h, label, imported)
  PROVE  Agrees(h)'
  <1>0. handlers \in [Handlers -> Handler] /\ handlers[h] \in Handler
    BY DEF IInv, TypeOK
  <1>1. CASE /\ Freeze(handlers[h].verdict, handlers[h].gen, imported)
             /\ handlers' = [handlers EXCEPT ![h].pc = label, ![h].gen = 0]
    BY <1>0, <1>1 DEF Freeze, Agrees, Handler
  <1>2. CASE /\ ledger.status = handlers[h].verdict
             /\ handlers' = [handlers EXCEPT ![h].pc = label, ![h].gen = 0,
                                             ![h].sawDone = ledger.effectsDone]
             /\ UNCHANGED ledger
    BY <1>0, <1>2 DEF Agrees, Handler
  <1>3. CASE Halt(h)
    BY <1>0, <1>3 DEF Halt, Idle, Agrees, Decided
  <1> QED BY <1>1, <1>2, <1>3 DEF CommitThen

\* So does one that takes any other step of its packet.
LEMMA ActorAgrees ==
  ASSUME IInv, NEW h \in Handlers, HandlerStep(h), handlers[h].verdict \in Verdicts
  PROVE  Agrees(h)'
  <1>0. handlers \in [Handlers -> Handler] /\ handlers[h] \in Handler
        /\ (handlers[h].pc \in Decided => ledger.status = handlers[h].verdict)
    BY DEF IInv, TypeOK, HandlersAgree
  <1> USE <1>0 DEF Agrees, Decided, Handler, At, Goto, Halt, Idle
  <1>1. CASE Resolve(h) \/ StopResolve(h)
    BY <1>1 DEF Resolve, StopResolve, StopReplays, Frozen
  <1>2. CASE Claim(h) \/ Reclaim(h)
    BY <1>2 DEF Claim, Reclaim, TakeIntent
  <1>3. CASE Commit(h) \/ Recommit(h) \/ StopCommit(h) \/ Import(h)
    BY <1>3, CommitAgrees DEF Commit, Recommit, StopCommit, Import
  <1>4. CASE Settle(h) \/ Repair(h) \/ Finish(h) \/ EffectRun(h) \/ Ack(h)
    BY <1>4 DEF Settle, Repair, Finish, EffectRun, Ack
  <1>5. CASE Mark(h) \/ Finalize(h)
    <2>1. ledger'.status = ledger.status
      BY <1>5 DEF Mark, Finalize, IInv, TypeOK, LedgerRow
    <2> QED BY <1>5, <2>1 DEF Mark, Finalize
  <1>6. CASE EffectClaim(h) \/ EffectComplete(h)
    BY <1>6 DEF EffectClaim, EffectComplete, Advance
  <1> QED BY <1>1, <1>2, <1>3, <1>4, <1>5, <1>6 DEF HandlerStep

\* A handler that takes a step holds a packet.
LEMMA ActorHasVerdict ==
  ASSUME IInv, NEW h \in Handlers, HandlerStep(h)
  PROVE  handlers[h].verdict \in Verdicts
  <1>1. handlers[h].pc # "idle"
    BY DEF HandlerStep, Resolve, Claim, Reclaim, Commit, Recommit, StopCommit, Import,
       Settle, StopResolve, Repair, Mark, Finish, EffectClaim, EffectRun, EffectComplete,
       Finalize, Ack, At
  <1> QED BY <1>1 DEF IInv, HandlersAgree

\* Every step keeps every handler in agreement with the ledger.
LEMMA AgreeStep ==
  ASSUME IInv, [Next]_vars
  PROVE  HandlersAgree'
  <1> SUFFICES ASSUME NEW g \in Handlers PROVE Agrees(g)'
    BY DEF HandlersAgree, Agrees
  <1>0. handlers \in [Handlers -> Handler] /\ TypeOK
    BY DEF IInv, TypeOK
  <1>1. CASE handlers'[g] = handlers[g]
    BY <1>1, BystanderAgrees
  <1>2. ASSUME NEW h \in Handlers, HandlerStep(h)
        PROVE  Agrees(g)'
    <2>1. CASE g = h
      BY <1>2, <2>1, ActorHasVerdict, ActorAgrees
    <2>2. CASE g # h
      BY <1>0, <1>1, <1>2, <2>2, OthersUntouched
    <2> QED BY <2>1, <2>2
  <1>3. ASSUME NEW h \in Handlers, NEW v \in Verdicts, ReceiveResult(h, v) \/ ReceiveStop(h, v)
        PROVE  Agrees(g)'
    <2>1. CASE g = h
      <3>1. PICK label \in {"resolve", "stopResolve"} :
              handlers'[h] = [Idle EXCEPT !.pc = label, !.verdict = v]
        BY <1>0, <1>3 DEF ReceiveResult, ReceiveStop, Receive
      <3>2. handlers'[h].pc = label /\ handlers'[h].verdict = v
        BY <3>1 DEF Idle
      <3> QED BY <2>1, <3>2 DEF Agrees, Decided
    <2>2. CASE g # h
      BY <1>0, <1>1, <1>3, <2>2 DEF ReceiveResult, ReceiveStop, Receive
    <2> QED BY <2>1, <2>2
  <1>4. ASSUME NEW h \in Handlers, EffectFail(h) \/ Abort(h)
        PROVE  Agrees(g)'
    <2>1. CASE g = h
      BY <1>0, <1>4, <2>1 DEF EffectFail, Abort, Halt, Idle, Agrees, Decided
    <2>2. CASE g # h
      BY <1>0, <1>1, <1>4, <2>2 DEF EffectFail, Abort, Halt
    <2> QED BY <2>1, <2>2
  <1>5. ASSUME NEW e \in Effects, EffectLeaseExpires(e)
        PROVE  Agrees(g)'
    BY <1>1, <1>5 DEF EffectLeaseExpires
  <1>6. CASE \/ IntentLeaseExpires \/ RedisRecordExpires \/ TrackerForgotten \/ RunningWrite
             \/ NewerRun \/ SeedDeleted \/ Redispatch \/ RedispatchRecord \/ UNCHANGED vars
    BY <1>1, <1>6 DEF IntentLeaseExpires, RedisRecordExpires, TrackerForgotten, RunningWrite,
       NewerRun, SeedDeleted, Redispatch, RedispatchRecord, vars
  <1> QED BY <1>2, <1>3, <1>4, <1>5, <1>6 DEF Next

\* The steps that touch the record.
WritesRecord(h) == Claim(h) \/ Reclaim(h) \/ Settle(h) \/ Repair(h)

\* The steps that leave the Redis record alone.
LEMMA RecordUntouched ==
  ASSUME [Next]_vars, ~(\E h \in Handlers : WritesRecord(h)),
         ~(IntentLeaseExpires \/ RedisRecordExpires \/ RedispatchRecord)
  PROVE  redis' = redis
  <1>1. ASSUME NEW h \in Handlers, HandlerStep(h) PROVE redis' = redis
    <2>1. CASE Resolve(h) \/ StopResolve(h) \/ Mark(h) \/ Finish(h) \/ Finalize(h) \/ Ack(h)
      BY <2>1 DEF Resolve, StopResolve, Mark, Finish, Finalize, Ack
    <2>2. CASE Commit(h) \/ Recommit(h) \/ StopCommit(h) \/ Import(h)
      BY <2>2 DEF Commit, Recommit, StopCommit, Import, CommitThen
    <2>3. CASE EffectClaim(h) \/ EffectRun(h) \/ EffectComplete(h)
      BY <2>3 DEF EffectClaim, EffectRun, EffectComplete
    <2> QED BY <1>1, <2>1, <2>2, <2>3 DEF HandlerStep, WritesRecord
  <1>2. ASSUME NEW h \in Handlers,
               EffectFail(h) \/ Abort(h) \/ \E v \in Verdicts : ReceiveResult(h, v) \/ ReceiveStop(h, v)
        PROVE  redis' = redis
    BY <1>2 DEF EffectFail, Abort, ReceiveResult, ReceiveStop, Receive
  <1>3. CASE \/ TrackerForgotten \/ RunningWrite \/ NewerRun \/ SeedDeleted \/ Redispatch
             \/ (\E e \in Effects : EffectLeaseExpires(e)) \/ UNCHANGED vars
    BY <1>3 DEF TrackerForgotten, RunningWrite, NewerRun, SeedDeleted, Redispatch,
       EffectLeaseExpires, vars
  <1> QED BY <1>1, <1>2, <1>3 DEF Next

\* A claimed or settled Redis record keeps a verdict.
LEMMA RecordStep ==
  ASSUME IInv, [Next]_vars
  PROVE  RecordHasVerdict'
  <1>0. redis \in Record /\ RecordHasVerdict
    BY DEF IInv, TypeOK
  <1>1. ASSUME NEW h \in Handlers, WritesRecord(h)
        PROVE  RecordHasVerdict'
    <2>1. HandlerStep(h)
      BY <1>1 DEF WritesRecord, HandlerStep
    <2>2. handlers[h].verdict \in Verdicts
      BY <2>1, ActorHasVerdict
    <2>3. CASE Claim(h) \/ Reclaim(h)
      BY <1>0, <2>2, <2>3 DEF Claim, Reclaim, TakeIntent, RecordHasVerdict
    <2>4. CASE Settle(h)
      BY <1>0, <2>2, <2>4 DEF Settle, RecordHasVerdict, Record
    <2>5. CASE Repair(h)
      BY <2>2, <2>5 DEF Repair, RecordHasVerdict
    <2> QED BY <1>1, <2>3, <2>4, <2>5 DEF WritesRecord
  <1>2. CASE IntentLeaseExpires
    BY <1>0, <1>2 DEF IntentLeaseExpires, RecordHasVerdict, Record
  <1>3. CASE RedisRecordExpires
    BY <1>3 DEF RedisRecordExpires, NoRecord, RecordHasVerdict
  <1>4. CASE RedispatchRecord
    BY <1>0, <1>4 DEF RedispatchRecord, NoRecord, RecordHasVerdict
  <1>5. CASE redis' = redis
    BY <1>0, <1>5 DEF RecordHasVerdict
  <1> QED BY <1>1, <1>2, <1>3, <1>4, <1>5, RecordUntouched

\* What the connector was told stays what the ledger says.
LEMMA AckStep ==
  ASSUME IInv, [Next]_vars
  PROVE  AckMatchesVerdict'
  <1>0. /\ acked \subseteq Verdicts
        /\ \A v \in acked : ledger'.status = v
    BY FrozenStays DEF IInv, TypeOK, AckMatchesVerdict, Frozen
  <1>1. ASSUME NEW h \in Handlers, Ack(h)
        PROVE  AckMatchesVerdict'
    <2>1. ledger'.status = handlers[h].verdict
      BY <1>1 DEF Ack, At, IInv, HandlersAgree, Decided
    <2> QED BY <1>0, <1>1, <2>1 DEF Ack, AckMatchesVerdict
  <1>2. CASE acked' = acked
    BY <1>0, <1>2 DEF AckMatchesVerdict
  <1>3. acked' = acked \/ \E h \in Handlers : Ack(h)
    <2>1. ASSUME NEW h \in Handlers, HandlerStep(h) PROVE acked' = acked \/ Ack(h)
      <3>1. (\/ Resolve(h) \/ Claim(h) \/ Reclaim(h) \/ Settle(h) \/ StopResolve(h) \/ Repair(h)
             \/ Mark(h) \/ Finish(h)) => acked' = acked
        BY DEF Resolve, Claim, Reclaim, Settle, StopResolve, Repair, Mark, Finish
      <3>2. (\/ Commit(h) \/ Recommit(h) \/ Import(h) \/ StopCommit(h) \/ EffectClaim(h)
             \/ EffectRun(h) \/ EffectComplete(h) \/ Finalize(h)) => acked' = acked
        BY DEF Commit, Recommit, Import, StopCommit, CommitThen, EffectClaim, EffectRun,
           EffectComplete, Finalize
      <3> QED BY <2>1, <3>1, <3>2 DEF HandlerStep
    <2>2. ASSUME NEW h \in Handlers,
                 EffectFail(h) \/ Abort(h) \/ \E v \in Verdicts : ReceiveResult(h, v) \/ ReceiveStop(h, v)
          PROVE  acked' = acked
      BY <2>2 DEF EffectFail, Abort, ReceiveResult, ReceiveStop, Receive
    <2>3. (\/ IntentLeaseExpires \/ RedisRecordExpires \/ TrackerForgotten \/ RunningWrite
           \/ NewerRun \/ SeedDeleted \/ Redispatch \/ RedispatchRecord
           \/ \E e \in Effects : EffectLeaseExpires(e)) => acked' = acked
      BY DEF IntentLeaseExpires, RedisRecordExpires, TrackerForgotten, RunningWrite, NewerRun,
         SeedDeleted, Redispatch, RedispatchRecord, EffectLeaseExpires
    <2> QED BY <2>1, <2>2, <2>3 DEF Next, vars
  <1> QED BY <1>1, <1>2, <1>3

\* The invariant is inductive.
LEMMA StepInv == IInv /\ [Next]_vars => IInv'
  BY TypeStep, AgreeStep, RecordStep, AckStep DEF IInv

-----------------------------------------------------------------------------
(* The theorems. *)

\* Every reachable state is well typed, and satisfies the invariant.
THEOREM InvariantHolds == Spec => []IInv
  <1>1. Init => IInv
    BY InitInv
  <1>2. IInv /\ [Next]_vars => IInv'
    BY StepInv
  <1> QED BY <1>1, <1>2, PTL DEF Spec

\* The ledger, the Redis record, the effects and the handlers keep their types.
THEOREM TypeCorrect == Spec => []TypeOK
  <1>1. IInv => TypeOK
    BY DEF IInv
  <1> QED BY <1>1, InvariantHolds, PTL

\* However many results, stops, imports and dispatches race, the connector is only
\* told of the one verdict that the ledger holds.
THEOREM AcknowledgedIsFrozen == Spec => []AckMatchesVerdict
  <1>1. IInv => AckMatchesVerdict
    BY DEF IInv
  <1> QED BY <1>1, InvariantHolds, PTL

\* A verdict once committed by CommitAgentEventTerminalLedger is never replaced, and
\* no rollback, retirement or sweep removes its row.
THEOREM VerdictNeverChanges == Spec => VerdictImmutable
  <1>1. IInv /\ [Next]_vars => [Frozen => ledger'.status = ledger.status]_vars
    BY FrozenStays DEF IInv
  <1> QED BY <1>1, InvariantHolds, PTL DEF Spec, VerdictImmutable

\* A settled record goes on showing the frozen verdict.
LEMMA SettledRecordStep ==
  ASSUME IInv, SettledRecordAgrees, [Next]_vars
  PROVE  SettledRecordAgrees'
  <1>0. /\ redis \in Record
        /\ redis.stage = "settled" => ledger'.status = redis.verdict
    BY FrozenStays DEF IInv, TypeOK, RecordHasVerdict, SettledRecordAgrees, Frozen
  <1>1. ASSUME NEW h \in Handlers, WritesRecord(h)
        PROVE  SettledRecordAgrees'
    <2>1. /\ handlers[h].pc \in Decided => ledger.status = handlers[h].verdict
          /\ ledger' = ledger
      BY <1>1 DEF IInv, HandlersAgree, WritesRecord, Claim, Reclaim, Settle, Repair
    <2>2. CASE Claim(h) \/ Reclaim(h)
      BY <1>0, <2>1, <2>2 DEF Claim, Reclaim, TakeIntent, SettledRecordAgrees
    <2>3. CASE Settle(h)
      BY <1>0, <2>1, <2>3 DEF Settle, At, Decided, SettledRecordAgrees, Record
    <2>4. CASE Repair(h)
      BY <2>1, <2>4 DEF Repair, At, Decided, SettledRecordAgrees
    <2> QED BY <1>1, <2>2, <2>3, <2>4 DEF WritesRecord
  <1>2. CASE IntentLeaseExpires
    BY <1>0, <1>2 DEF IntentLeaseExpires, SettledRecordAgrees, Record
  <1>3. CASE RedisRecordExpires
    BY <1>3 DEF RedisRecordExpires, NoRecord, SettledRecordAgrees
  <1>4. CASE RedispatchRecord
    <2>1. redis' = redis \/ redis'.stage = "ack"
      BY <1>0, <1>4 DEF RedispatchRecord, NoRecord
    <2> QED BY <1>0, <2>1 DEF SettledRecordAgrees
  <1>5. CASE redis' = redis
    BY <1>0, <1>5 DEF SettledRecordAgrees
  <1> QED BY <1>1, <1>2, <1>3, <1>4, <1>5, RecordUntouched

\* The settled Redis record of an event that was dispatched with a ledger seed always
\* shows the verdict of the ledger. (An event that an older node settled has a
\* tombstone and no row.)
THEOREM SettledRecordShowsVerdict ==
  ASSUME Seeded
  PROVE  Spec => []SettledRecordAgrees
  <1>1. Init => SettledRecordAgrees
    BY DEF Init, InitDispatched, NoRecord, SettledRecordAgrees
  <1>2. IInv /\ SettledRecordAgrees /\ [Next]_vars => SettledRecordAgrees'
    BY SettledRecordStep
  <1> QED BY <1>1, <1>2, InvariantHolds, PTL DEF Spec

-----------------------------------------------------------------------------
(* Connections of another agent or owner.                                    *)

\* Their handlers get no further than the lookups.
Lookups == {"idle", "resolve", "claim", "reclaim", "stopResolve"}
ForeignWaits == \A h \in Foreign : handlers[h].pc \in Lookups

LEMMA ForeignStep ==
  ASSUME IInv, ForeignWaits, NEW h \in Foreign, HandlerStep(h)
  PROVE  /\ handlers'[h].pc \in Lookups
         /\ UNCHANGED <<ledger, effects, redis, chat, ran, acked>>
  <1>0. /\ handlers[h].pc \in Lookups /\ handlers \in [Handlers -> Handler] /\ h \in Handlers
        /\ ledger.status \notin {"absent"} => RowIsForeign(h)
        /\ handlers[h].verdict # "absent" \/ handlers[h].pc = "idle"
    BY ConstantsAssumption DEF ForeignWaits, IInv, TypeOK, RowIsForeign, HandlersAgree
  <1>1. Resolve(h) \/ Claim(h) \/ Reclaim(h) \/ StopResolve(h)
    BY <1>0 DEF HandlerStep, Commit, Recommit, StopCommit, Import, Settle, Repair, Mark, Finish,
       EffectClaim, EffectRun, EffectComplete, Finalize, Ack, At, Lookups
  <1>2. Halt(h) \/ (Resolve(h) /\ Goto(h, "claim")) \/ Goto(h, "reclaim")
          => handlers'[h].pc \in Lookups
    BY <1>0 DEF Halt, Goto, Idle, Lookups, Handler
  <1>3. CASE Resolve(h)
    <2>1. handlers'[h].pc \in Lookups
      <3>1. ~RowIsForeign(h) => ledger.status = "absent" /\ ledger.status # handlers[h].verdict
        BY <1>0, <1>3 DEF Resolve, At
      <3>2. Halt(h) \/ handlers' = [handlers EXCEPT ![h].pc = "claim",
                                                   ![h].sawNoRow = (ledger.status = "absent"),
                                                   ![h].gen = ledger.gen]
        BY <1>3, <3>1 DEF Resolve
      <3>3. CASE Halt(h)
        BY <1>2, <3>3
      <3>4. CASE handlers' = [handlers EXCEPT ![h].pc = "claim",
                                              ![h].sawNoRow = (ledger.status = "absent"),
                                              ![h].gen = ledger.gen]
        BY <1>0, <3>4 DEF Handler, Lookups
      <3> QED BY <3>2, <3>3, <3>4
    <2> QED BY <1>3, <2>1 DEF Resolve
  <1>4. CASE Claim(h)
    BY <1>2, <1>4 DEF Claim
  <1>5. CASE Reclaim(h)
    BY <1>2, <1>5 DEF Reclaim, Recoverable
  <1>6. CASE StopResolve(h)
    BY <1>2, <1>6 DEF StopResolve
  <1> QED BY <1>1, <1>3, <1>4, <1>5, <1>6

\* What a step does to the handler of a foreign connection.
LEMMA ForeignMoves ==
  ASSUME IInv, ForeignWaits, [Next]_vars, NEW h \in Foreign
  PROVE  /\ handlers'[h].pc \in Lookups
         /\ handlers'[h] # handlers[h] => UNCHANGED <<ledger, effects, redis, chat, ran, acked>>
  <1>0. TypeOK /\ handlers[h].pc \in Lookups /\ handlers \in [Handlers -> Handler] /\ h \in Handlers
    BY ConstantsAssumption DEF ForeignWaits, IInv, TypeOK
  <1>1. CASE handlers'[h] = handlers[h]
    BY <1>0, <1>1
  <1>2. CASE handlers'[h] # handlers[h]
    <2>1. ASSUME NEW g \in Handlers, NEW v \in Verdicts, ReceiveResult(g, v) \/ ReceiveStop(g, v)
          PROVE  handlers'[h].pc \in Lookups /\ UNCHANGED <<ledger, effects, redis, chat, ran, acked>>
      <3>1. PICK pc \in {"resolve", "stopResolve"} : Receive(g, pc, v)
        BY <2>1 DEF ReceiveResult, ReceiveStop
      <3>2. [Idle EXCEPT !.pc = pc, !.verdict = v].pc = pc
        BY DEF Idle
      <3>3. handlers'[h] = handlers[h] \/ handlers'[h] = [Idle EXCEPT !.pc = pc, !.verdict = v]
        BY <1>0, <3>1 DEF Receive
      <3>4. handlers'[h].pc \in Lookups
        BY <1>0, <3>2, <3>3 DEF Lookups
      <3> QED BY <3>1, <3>4 DEF Receive
    <2>2. ASSUME NEW g \in Handlers, HandlerStep(g)
          PROVE  handlers'[h].pc \in Lookups /\ UNCHANGED <<ledger, effects, redis, chat, ran, acked>>
      <3>1. g = h
        BY <1>0, <1>2, <2>2, OthersUntouched
      <3> QED BY <2>2, <3>1, ForeignStep
    <2>3. ASSUME NEW g \in Handlers, EffectFail(g)
          PROVE  handlers'[h].pc \in Lookups /\ UNCHANGED <<ledger, effects, redis, chat, ran, acked>>
      <3>1. g # h
        BY <1>0, <2>3 DEF EffectFail, At, Lookups
      <3>2. handlers'[h] = handlers[h]
        BY <1>0, <2>3, <3>1 DEF EffectFail, Halt
      <3> QED BY <1>2, <3>2
    <2>4. ASSUME NEW g \in Handlers, Abort(g)
          PROVE  handlers'[h].pc \in Lookups /\ UNCHANGED <<ledger, effects, redis, chat, ran, acked>>
      BY <1>0, <2>4 DEF Abort, Halt, Idle, Lookups
    <2>5. (\/ IntentLeaseExpires \/ RedisRecordExpires \/ TrackerForgotten \/ RunningWrite
           \/ NewerRun \/ SeedDeleted \/ Redispatch \/ RedispatchRecord
           \/ \E e \in Effects : EffectLeaseExpires(e))
            => handlers' = handlers
      BY DEF IntentLeaseExpires, RedisRecordExpires, TrackerForgotten, RunningWrite, NewerRun,
         SeedDeleted, Redispatch, RedispatchRecord, EffectLeaseExpires
    <2> QED BY <1>2, <2>1, <2>2, <2>3, <2>4, <2>5 DEF Next, vars
  <1> QED BY <1>1, <1>2

\* A result or stop from a connection that does not own the event changes none of the stores,
\* though its ledger row and its record be gone.
THEOREM ForeignIsInert == Spec => ForeignInert
  <1>1. Init => ForeignWaits
    <2> SUFFICES ASSUME Init, NEW h \in Foreign PROVE handlers[h].pc \in Lookups
      BY DEF ForeignWaits
    <2>1. h \in Handlers /\ handlers = [g \in Handlers |-> Idle]
      BY ConstantsAssumption DEF Init
    <2> QED BY <2>1 DEF Idle, Lookups
  <1>2. IInv /\ ForeignWaits /\ [Next]_vars => ForeignWaits'
    BY ForeignMoves DEF ForeignWaits
  <1>3. IInv /\ ForeignWaits /\ [Next]_vars =>
          [\A h \in Foreign : handlers'[h] # handlers[h] =>
             UNCHANGED <<ledger, effects, redis, chat, ran, acked>>]_vars
    BY ForeignMoves
  <1> QED BY <1>1, <1>2, <1>3, InvariantHolds, PTL DEF Spec, ForeignInert

-----------------------------------------------------------------------------
(* The chat_states row.                                                      *)

\* The transaction that freezes the verdict settles the row along with it.
Settling ==
  /\ ~Frozen
  /\ \E v \in Verdicts, g \in Gens :
       ChatSettles(g) /\ chat' = [state |-> v, gen |-> g] /\ ledger'.status = v

\* The row, and with it the permission to notify, is left alone.
ChatStays == chat' = chat /\ (ledger'.notificationAllowed => ledger.notificationAllowed)

\* The transaction does one or the other.
LEMMA FreezeChat ==
  ASSUME TypeOK, ~Frozen, NEW v \in Verdicts, NEW g \in Gens, NEW imported \in BOOLEAN,
         Freeze(v, g, imported)
  PROVE  ChatStays \/ (Settling /\ ~imported)
  <1>1. CASE ~imported /\ ChatSettles(g)
    BY <1>1 DEF Freeze, Settling
  <1>2. CASE imported \/ ~ChatSettles(g)
    BY <1>2 DEF Freeze, ChatStays
  <1> QED BY <1>1, <1>2

LEMMA CommitChat ==
  ASSUME TypeOK, NEW h \in Handlers, handlers[h].verdict \in Verdicts, NEW label,
         NEW imported \in BOOLEAN, CommitThen(h, label, imported)
  PROVE  ChatStays \/ Settling
  <1>1. handlers[h].gen \in Gens
    BY DEF TypeOK, Handler
  <1>2. CASE CanFreeze(handlers[h].gen) /\ Freeze(handlers[h].verdict, handlers[h].gen, imported)
    BY <1>1, <1>2, FreezeChat DEF CanFreeze
  <1>3. CASE UNCHANGED <<ledger, chat>>
    BY <1>3 DEF ChatStays
  <1> QED BY <1>2, <1>3 DEF CommitThen

\* Every writer of the row.
LEMMA ChatWriters ==
  ASSUME IInv, [Next]_vars
  PROVE  ChatStays \/ Settling \/ RunningWrite \/ NewerRun
  <1>0. TypeOK
    BY DEF IInv
  <1>1. ASSUME NEW h \in Handlers, HandlerStep(h) PROVE ChatStays \/ Settling
    <2>0. handlers[h].verdict \in Verdicts
      BY <1>1, ActorHasVerdict
    <2>1. Commit(h) \/ Recommit(h) \/ Import(h) \/ StopCommit(h) => ChatStays \/ Settling
      BY <1>0, <2>0, CommitChat DEF Commit, Recommit, Import, StopCommit
    <2>2. Mark(h) \/ Finalize(h) => ChatStays
      BY <1>0 DEF Mark, Finalize, ChatStays, TypeOK, LedgerRow
    <2>3. (\/ Resolve(h) \/ Claim(h) \/ Reclaim(h) \/ Settle(h) \/ StopResolve(h) \/ Repair(h)
           \/ Finish(h)) => ChatStays
      BY DEF Resolve, Claim, Reclaim, Settle, StopResolve, Repair, Finish, ChatStays
    <2>4. EffectClaim(h) \/ EffectRun(h) \/ EffectComplete(h) \/ Ack(h) => ChatStays
      BY DEF EffectClaim, EffectRun, EffectComplete, Ack, ChatStays
    <2> QED BY <1>1, <2>1, <2>2, <2>3, <2>4 DEF HandlerStep
  <1>2. ASSUME NEW h \in Handlers,
               EffectFail(h) \/ Abort(h) \/ \E v \in Verdicts : ReceiveResult(h, v) \/ ReceiveStop(h, v)
        PROVE  ChatStays
    BY <1>2 DEF EffectFail, Abort, ReceiveResult, ReceiveStop, Receive, ChatStays
  <1>3. SeedDeleted \/ Redispatch => ChatStays
    BY <1>0 DEF SeedDeleted, Redispatch, ChatStays, TypeOK, LedgerRow
  <1>4. ASSUME RedispatchRecord PROVE ChatStays \/ Settling
    <2>1. redis.gen \in Gens /\ (redis.stage = "settled" => redis.verdict \in Verdicts)
      BY DEF IInv, TypeOK, Record, RecordHasVerdict
    <2>2. CASE UNCHANGED <<ledger, chat>>
      BY <2>2 DEF ChatStays
    <2>3. CASE /\ redis.stage = "settled" /\ CanFreeze(redis.gen)
               /\ Freeze(redis.verdict, redis.gen, TRUE)
      BY <1>0, <2>1, <2>3, FreezeChat DEF CanFreeze
    <2> QED BY <1>4, <2>2, <2>3 DEF RedispatchRecord
  <1>5. (\/ IntentLeaseExpires \/ RedisRecordExpires \/ TrackerForgotten
         \/ \E e \in Effects : EffectLeaseExpires(e)) => ChatStays
    BY DEF IntentLeaseExpires, RedisRecordExpires, TrackerForgotten, EffectLeaseExpires, ChatStays
  <1>6. UNCHANGED vars => ChatStays
    BY DEF vars, ChatStays
  <1> QED BY <1>1, <1>2, <1>3, <1>4, <1>5, <1>6 DEF Next

\* A settled row of chat_states shows what the ledger froze, for events dispatched with a
\* ledger seed: no late running write, import or newer run makes it show another verdict.
THEOREM ChatShowsVerdict ==
  ASSUME Seeded
  PROVE  Spec => []ChatVerdictAgrees
  <1>1. Init => ChatVerdictAgrees
    BY DEF Init, InitDispatched, ChatVerdictAgrees
  <1>2. IInv /\ ChatVerdictAgrees /\ [Next]_vars => ChatVerdictAgrees'
    <2> SUFFICES ASSUME IInv, ChatVerdictAgrees, [Next]_vars PROVE ChatVerdictAgrees'
      OBVIOUS
    <2>1. chat.state \in Verdicts => ledger'.status = chat.state
      BY FrozenStays DEF IInv, ChatVerdictAgrees, Frozen
    <2>2. ChatStays \/ Settling => ChatVerdictAgrees'
      BY <2>1 DEF ChatStays, Settling, ChatVerdictAgrees
    <2>3. RunningWrite \/ NewerRun => ChatVerdictAgrees'
      BY <2>1 DEF RunningWrite, NewerRun, ChatVerdictAgrees
    <2> QED BY <2>2, <2>3, ChatWriters
  <1> QED BY <1>1, <1>2, InvariantHolds, PTL DEF Spec

\* A late running write, an import or a settlement never revives a settled run, nor touches
\* a row of a newer run unless the event was dispatched again after it.
THEOREM ChatOnlyMovesForward == Spec => ChatMovesForward
  <1>1. ASSUME IInv, [Next]_vars
        PROVE  /\ chat.state \in Verdicts => chat'.state \in {chat.state, "superseded"}
               /\ chat.state = "superseded" /\ chat' # chat =>
                    chat'.state = "live" /\ chat'.gen > chat.gen
    <2>1. ChatStays => chat' = chat
      BY DEF ChatStays
    <2>2. Settling => chat.state \in {"none", "live"}
      BY DEF Settling, ChatSettles
    <2>3. CASE RunningWrite
      BY <1>1, <2>3 DEF RunningWrite, IInv, TypeOK, ChatRow
    <2>4. CASE NewerRun
      BY <2>4 DEF NewerRun
    <2> QED BY <1>1, <2>1, <2>2, <2>3, <2>4, ChatWriters
  <1>2. IInv /\ [Next]_vars =>
          [/\ chat.state \in Verdicts => chat'.state \in {chat.state, "superseded"}
           /\ chat.state = "superseded" /\ chat' # chat =>
                chat'.state = "live" /\ chat'.gen > chat.gen]_vars
    BY <1>1
  <1> QED BY <1>2, InvariantHolds, PTL DEF Spec, ChatMovesForward

-----------------------------------------------------------------------------
(* Events settled before the ledger existed.                                 *)

\* While no run has been dispatched since, the row is settled or taken over, nothing writes
\* it any more, and no commit may allow the notification; a dispatch has a generation.
TombstoneQuiet ==
  "olderNode" \in published =>
    /\ ledger.status = "pending" \/ world.dispatch # "idle" => world.lastGen > 0
    /\ redis.stage \in {"ack", "result"} => redis.gen > 0
    /\ world.runGen = 0 =>
         /\ ~world.runWrite /\ chat.state \in Verdicts \cup {"superseded"}
         /\ ~ledger.notificationAllowed /\ "outbox" \notin published

\* A step that begins no dispatch, and notifies only with the permission.
Quiet ==
  /\ ledger'.status = "pending" => ledger.status = "pending"
  /\ redis'.stage \in {"ack", "result"} => redis'.stage = redis.stage /\ redis'.gen = redis.gen
  /\ UNCHANGED <<world.runGen, world.lastGen, world.dispatch>>
  /\ world'.runWrite => world.runWrite
  /\ \/ published' = published
     \/ ledger.notificationAllowed /\ published' = published \cup {"outbox"}

LEMMA QuietHandler ==
  ASSUME IInv, NEW h \in Handlers, HandlerStep(h)
  PROVE  Quiet
  <1>0. handlers[h].verdict \in Verdicts /\ handlers[h].gen \in Gens /\ TypeOK
    BY ActorHasVerdict DEF IInv, TypeOK, Handler
  <1>1. CASE Commit(h) \/ Recommit(h) \/ Import(h) \/ StopCommit(h)
    <2>1. ledger' = ledger \/ ledger'.status = handlers[h].verdict
      BY <1>1 DEF Commit, Recommit, Import, StopCommit, CommitThen, Freeze
    <2>2. UNCHANGED <<redis, world, published>>
      BY <1>1 DEF Commit, Recommit, Import, StopCommit, CommitThen
    <2> QED BY <1>0, <2>1, <2>2, TagsAssumption DEF Quiet
  <1>2. CASE Mark(h) \/ Finalize(h)
    BY <1>0, <1>2 DEF Mark, Finalize, Quiet, TypeOK, LedgerRow
  <1>3. CASE Claim(h) \/ Reclaim(h) \/ Settle(h) \/ Repair(h)
    <2>1. redis' = redis \/ redis'.stage \in {"intent", "settled"}
      <3>1. (Claim(h) \/ Reclaim(h)) => redis' = redis \/ redis'.stage = "intent"
        BY DEF Claim, Reclaim, TakeIntent
      <3>2. Settle(h) => redis' = redis \/ redis'.stage = "settled"
        BY <1>0 DEF Settle, TypeOK, Record
      <3>3. Repair(h) => redis'.stage = "settled"
        BY DEF Repair
      <3> QED BY <1>3, <3>1, <3>2, <3>3
    <2>2. UNCHANGED <<ledger, world, published>>
      BY <1>3 DEF Claim, Reclaim, Settle, Repair
    <2> QED BY <2>1, <2>2 DEF Quiet
  <1>4. CASE Finish(h)
    BY <1>0, <1>4 DEF Finish, Quiet, TypeOK, World
  <1>5. CASE EffectRun(h)
    BY <1>5 DEF EffectRun, Quiet
  <1>6. CASE \/ Resolve(h) \/ StopResolve(h) \/ EffectClaim(h) \/ EffectComplete(h) \/ Ack(h)
    BY <1>6 DEF Resolve, StopResolve, EffectClaim, EffectComplete, Ack, Quiet
  <1> QED BY <1>1, <1>2, <1>3, <1>4, <1>5, <1>6 DEF HandlerStep

\* All other steps but those of a dispatch are quiet as well.
LEMMA QuietStep ==
  ASSUME IInv, [Next]_vars, ~Redispatch, ~RedispatchRecord
  PROVE  Quiet
  <1>0. TypeOK
    BY DEF IInv
  <1>1. ASSUME NEW h \in Handlers,
               EffectFail(h) \/ Abort(h) \/ \E v \in Verdicts : ReceiveResult(h, v) \/ ReceiveStop(h, v)
        PROVE  Quiet
    BY <1>1 DEF EffectFail, Abort, ReceiveResult, ReceiveStop, Receive, Quiet
  <1>2. CASE TrackerForgotten \/ RunningWrite
    BY <1>0, <1>2 DEF TrackerForgotten, RunningWrite, Quiet, TypeOK, World
  <1>3. CASE IntentLeaseExpires \/ RedisRecordExpires
    BY <1>0, <1>3 DEF IntentLeaseExpires, RedisRecordExpires, NoRecord, Quiet, TypeOK, Record
  <1>4. CASE SeedDeleted
    BY <1>0, <1>4 DEF SeedDeleted, Quiet, TypeOK, LedgerRow
  <1>5. CASE NewerRun \/ (\E e \in Effects : EffectLeaseExpires(e)) \/ UNCHANGED vars
    BY <1>5 DEF NewerRun, EffectLeaseExpires, vars, Quiet
  <1> QED BY <1>1, <1>2, <1>3, <1>4, <1>5, QuietHandler DEF Next

LEMMA TombstoneStep ==
  ASSUME IInv, TombstoneQuiet, [Next]_vars
  PROVE  TombstoneQuiet'
  <1> SUFFICES ASSUME "olderNode" \in published' PROVE TombstoneQuiet'
    BY DEF TombstoneQuiet
  <1>0. TypeOK /\ world \in World /\ redis \in Record /\ ledger \in LedgerRow
    BY DEF IInv, TypeOK
  <1>1. CASE Quiet
    <2>1. "olderNode" \in published
      BY <1>1 DEF Quiet
    <2>2. /\ ledger'.status = "pending" \/ world'.dispatch # "idle" => world'.lastGen > 0
          /\ redis'.stage \in {"ack", "result"} => redis'.gen > 0
      BY <1>1, <2>1 DEF Quiet, TombstoneQuiet
    <2>3. ASSUME world'.runGen = 0
          PROVE  /\ ~world'.runWrite /\ chat'.state \in Verdicts \cup {"superseded"}
                 /\ ~ledger'.notificationAllowed /\ "outbox" \notin published'
      <3>1. /\ world.runGen = 0 /\ ~world.runWrite /\ chat.state \in Verdicts \cup {"superseded"}
            /\ ~ledger.notificationAllowed /\ "outbox" \notin published
        BY <1>1, <2>1, <2>3 DEF Quiet, TombstoneQuiet
      <3>2. ~world'.runWrite /\ "outbox" \notin published'
        BY <1>1, <3>1 DEF Quiet
      <3>3. ~Settling /\ ~RunningWrite
        BY <3>1, TagsAssumption DEF Settling, ChatSettles, RunningWrite
      <3>4. CASE ChatStays
        BY <3>1, <3>2, <3>4 DEF ChatStays
      <3>5. CASE NewerRun
        BY <3>1, <3>2, <3>5 DEF NewerRun
      <3> QED BY <3>3, <3>4, <3>5, ChatWriters
    <2> QED BY <2>2, <2>3 DEF TombstoneQuiet
  <1>2. CASE Redispatch
    <2>1. UNCHANGED <<redis, chat, published>>
      BY <1>2 DEF Redispatch
    <2>2. /\ world'.lastGen > 0 /\ world'.runGen = world.runGen /\ world'.runWrite = world.runWrite
          /\ ledger'.notificationAllowed = ledger.notificationAllowed
      <3>1. CASE ledger.status = "pending" /\ world' = [world EXCEPT !.dispatch = "adopted"]
                 /\ ledger' = ledger
        BY <1>0, <2>1, <3>1 DEF TombstoneQuiet, World
      <3>2. CASE /\ ledger' = [ledger EXCEPT !.status = "pending", !.gen = world.lastGen + 1]
                 /\ world' = [world EXCEPT !.dispatch = "seeded", !.lastGen = world.lastGen + 1]
        <4>1. world.lastGen \in Nat
          BY <1>0 DEF World, Gens
        <4>2. world'.lastGen = world.lastGen + 1
          BY <1>0, <3>2 DEF World
        <4>3. world'.lastGen > 0
          BY <4>1, <4>2
        <4>4. world'.runGen = world.runGen /\ world'.runWrite = world.runWrite
          BY <1>0, <3>2 DEF World
        <4>5. ledger'.notificationAllowed = ledger.notificationAllowed
          BY <1>0, <3>2 DEF LedgerRow
        <4> QED BY <4>3, <4>4, <4>5
      <3> QED BY <1>2, <3>1, <3>2 DEF Redispatch
    <2> QED BY <2>1, <2>2 DEF TombstoneQuiet
  <1>3. CASE RedispatchRecord
    <2>1. published' = published /\ world.lastGen > 0 /\ world'.lastGen = world.lastGen
          /\ world'.dispatch = "idle"
      BY <1>0, <1>3 DEF RedispatchRecord, TombstoneQuiet, World
    <2>2. redis'.stage \in {"ack", "result"} => redis'.gen > 0
      BY <1>3, <2>1 DEF RedispatchRecord, TombstoneQuiet, NoRecord
    <2>3. world'.runGen = 0 => world.runGen = 0 /\ world'.runWrite = world.runWrite
      <3>1. \/ world'.runGen = world.runGen /\ world'.runWrite = world.runWrite
            \/ world'.runGen = world.lastGen
            \/ redis.stage \in {"ack", "result"} /\ world'.runGen = redis.gen
        BY <1>0, <1>3 DEF RedispatchRecord, World
      <3>2. world.lastGen # 0 /\ (redis.stage \in {"ack", "result"} => redis.gen # 0)
        BY <1>0, <2>1 DEF TombstoneQuiet
      <3> QED BY <3>1, <3>2
    <2>4. ASSUME world'.runGen = 0
          PROVE  ~ledger'.notificationAllowed /\ chat'.state \in Verdicts \cup {"superseded"}
      <3>1. chat.state \in Verdicts \cup {"superseded"} /\ ~ledger.notificationAllowed
        BY <2>1, <2>3, <2>4 DEF TombstoneQuiet
      <3>2. ~Settling /\ ~RunningWrite /\ ~NewerRun
        <4>1. ~Settling
          BY <3>1, TagsAssumption DEF Settling, ChatSettles
        <4>2. world'.dispatch # world.dispatch
          BY <2>1, <1>3 DEF RedispatchRecord
        <4>3. ~NewerRun
          BY <4>2 DEF NewerRun
        <4>4. RunningWrite => world'.dispatch = world.dispatch
          BY <1>0 DEF RunningWrite, World
        <4> QED BY <4>1, <4>2, <4>3, <4>4
      <3>3. ChatStays
        BY <3>2, ChatWriters
      <3> QED BY <3>1, <3>3 DEF ChatStays
    <2> QED BY <2>1, <2>2, <2>3, <2>4 DEF TombstoneQuiet
  <1> QED BY <1>1, <1>2, <1>3, QuietStep

\* The notification of an event that an older node settled is not repeated by an import, a
\* stop or a duplicate dispatch, as long as no new run of the event was started.
THEOREM TombstoneIsQuiet == Spec => []TombstoneNeverNotifies
  <1>1. Init => TombstoneQuiet
    <2> SUFFICES ASSUME Init, "olderNode" \in published PROVE TombstoneQuiet
      BY DEF TombstoneQuiet
    <2>1. InitTombstone /\ ~Seeded /\ ledger.status = "absent" /\ ~ledger.notificationAllowed
      BY DEF Init, InitDispatched
    <2>2. /\ redis.stage = "settled" /\ chat.state \in Verdicts /\ published = {"olderNode"}
          /\ world = [runWrite |-> FALSE, runGen |-> 0, lastGen |-> 0,
                      tracked |-> FALSE, dispatch |-> "idle"]
      BY <2>1 DEF InitTombstone, NoRecord
    <2> QED BY <2>1, <2>2 DEF TombstoneQuiet
  <1>2. IInv /\ TombstoneQuiet /\ [Next]_vars => TombstoneQuiet'
    BY TombstoneStep
  <1>3. TombstoneQuiet => TombstoneNeverNotifies
    BY DEF TombstoneQuiet, TombstoneNeverNotifies, Notifiers
  <1> QED BY <1>1, <1>2, <1>3, InvariantHolds, PTL DEF Spec

-----------------------------------------------------------------------------
(***************************************************************************)
(* TerminalSettlement implements TerminalVerdict: events dispatched with a  *)
(* ledger seed that stays are decided once, their effects happen in order   *)
(* after the decision, and the acknowledgement comes last.                 *)
(***************************************************************************)
(* The invariant: what stands for an effect that ran                         *)

\* A handler that drains has seen every effect before its own done, one that is to
\* acknowledge has seen all of them, and nobody imports.
Drains(h) ==
  /\ ~handlers[h].sawNoRow /\ handlers[h].pc # "import"
  /\ \A e \in Effects : e < handlers[h].effect => e \in ran
  /\ handlers[h].sawDone => ran = Effects
  /\ handlers[h].pc = "effectComplete" => handlers[h].effect \in ran
  /\ handlers[h].pc = "finalize" => handlers[h].effect = NumEffects + 1
  /\ handlers[h].pc = "ack" => ran = Effects

\* The row of the event is never missing, so no dispatch seeds a second one.
RowStays == ledger.status # "absent" /\ world.dispatch # "seeded"

\* An outbox row is done, and the ledger says all are, only after the effects ran.
DoneHasRun ==
  /\ ledger.effectsDone => ran = Effects
  /\ \A e \in Effects : effects[e].state = "done" => e \in ran

DrainInv == RowStays /\ DoneHasRun /\ \A h \in Handlers : Drains(h)

\* A handler at its first effect has none before it.
LEMMA NoneBefore == \A e \in Effects : ~(e < 1)
  BY DEF Effects

\* A seeded event begins with a pending row and nothing done.
LEMMA DrainInit ==
  ASSUME Seeded, Init
  PROVE  DrainInv
  <1>1. ledger.status = "pending" /\ ~ledger.effectsDone /\ world.dispatch = "idle"
    BY DEF Init, InitDispatched
  <1>2. \A e \in Effects : effects[e].state = "none"
    BY DEF Init, NoRow
  <1>3. ASSUME NEW h \in Handlers PROVE Drains(h)
    <2>1. handlers[h] = Idle
      BY DEF Init
    <2> QED BY <2>1, NoneBefore DEF Drains, Idle
  <1> QED BY <1>1, <1>2, <1>3 DEF DrainInv, RowStays, DoneHasRun

-----------------------------------------------------------------------------
(* What every step leaves                                                    *)

\* No effect is ever taken back.
LEMMA RanGrows ==
  ASSUME IInv, [Next]_vars
  PROVE  ran \subseteq ran' /\ ran' \subseteq Effects
  <1>1. ran' \subseteq Effects
    BY TypeStep DEF TypeOK
  <1>2. ran \subseteq ran'
    <2>1. ASSUME NEW h \in Handlers, HandlerStep(h) PROVE ran \subseteq ran'
      <3>1. CASE Resolve(h) \/ Claim(h) \/ Reclaim(h) \/ Settle(h) \/ StopResolve(h) \/ Repair(h)
        BY <3>1 DEF Resolve, Claim, Reclaim, Settle, StopResolve, Repair
      <3>2. CASE Commit(h) \/ Recommit(h) \/ StopCommit(h) \/ Import(h)
        BY <3>2 DEF Commit, Recommit, StopCommit, Import, CommitThen
      <3>3. CASE \/ Mark(h) \/ Finish(h) \/ EffectClaim(h) \/ EffectRun(h) \/ EffectComplete(h)
                 \/ Finalize(h) \/ Ack(h)
        BY <3>3 DEF Mark, Finish, EffectClaim, EffectRun, EffectComplete, Finalize, Ack
      <3> QED BY <2>1, <3>1, <3>2, <3>3 DEF HandlerStep
    <2>2. ASSUME NEW h \in Handlers,
                 EffectFail(h) \/ Abort(h) \/ \E v \in Verdicts : ReceiveResult(h, v) \/ ReceiveStop(h, v)
          PROVE  ran \subseteq ran'
      BY <2>2 DEF EffectFail, Abort, ReceiveResult, ReceiveStop, Receive
    <2>3. CASE \/ IntentLeaseExpires \/ RedisRecordExpires \/ TrackerForgotten \/ RunningWrite
               \/ NewerRun \/ SeedDeleted \/ Redispatch \/ RedispatchRecord
               \/ (\E e \in Effects : EffectLeaseExpires(e)) \/ UNCHANGED vars
      BY <2>3 DEF IntentLeaseExpires, EffectLeaseExpires, RedisRecordExpires, TrackerForgotten,
         RunningWrite, NewerRun, SeedDeleted, Redispatch, RedispatchRecord, vars
    <2> QED BY <2>1, <2>2, <2>3 DEF Next
  <1> QED BY <1>1, <1>2

\* A commit that does not import leaves the row there, and declares no effect done.
LEMMA CommitDrains ==
  ASSUME IInv, DrainInv, NEW h \in Handlers, handlers[h].verdict \in Verdicts, NEW label,
         CommitThen(h, label, FALSE)
  PROVE  /\ RowStays' /\ DoneHasRun'
         /\ label \notin {"import", "effectComplete", "finalize", "ack"} => Drains(h)'
  <1>0. /\ TypeOK /\ RowStays /\ DoneHasRun /\ Drains(h) /\ handlers[h] \in Handler
        /\ ran' = ran /\ world' = world
    BY DEF IInv, TypeOK, DrainInv, CommitThen
  <1>1. CASE /\ CanFreeze(handlers[h].gen)
             /\ Freeze(handlers[h].verdict, handlers[h].gen, FALSE)
             /\ handlers' = [handlers EXCEPT ![h].pc = label, ![h].gen = 0]
    <2>1. ledger'.status = handlers[h].verdict /\ ~ledger'.effectsDone
      BY <1>1 DEF Freeze
    <2>2. \A e \in Effects : effects'[e].state = "done" => effects[e].state = "done"
      BY <1>0, <1>1 DEF Freeze, EffectRowsEnsured, TypeOK, EffectRow
    <2>3. RowStays' /\ DoneHasRun'
      BY <1>0, <2>1, <2>2, TagsAssumption DEF RowStays, DoneHasRun
    <2>4. label \notin {"import", "effectComplete", "finalize", "ack"} => Drains(h)'
      BY <1>0, <1>1 DEF Drains, TypeOK, Handler
    <2> QED BY <2>3, <2>4
  <1>2. CASE /\ handlers' = [handlers EXCEPT ![h].pc = label, ![h].gen = 0,
                                             ![h].sawDone = ledger.effectsDone]
             /\ UNCHANGED <<ledger, chat, effects>>
    BY <1>0, <1>2 DEF Drains, RowStays, DoneHasRun, TypeOK, Handler
  <1>3. CASE Halt(h) /\ UNCHANGED <<ledger, chat, effects>>
    BY <1>0, <1>3, NoneBefore DEF Drains, RowStays, DoneHasRun, TypeOK, Halt, Idle
  <1> QED BY <1>1, <1>2, <1>3 DEF CommitThen

\* A handler that has drained an effect goes on to the next, or to the end.
LEMMA AdvanceDrains ==
  ASSUME TypeOK, NEW h \in Handlers, Drains(h), handlers[h].effect \in Effects,
         handlers[h].effect \in ran, ran' = ran, Advance(h)
  PROVE  Drains(h)'
  <1> DEFINE e == handlers[h].effect
  <1>1. \A i \in Effects : i < e + 1 => i \in ran
    <2>1. \A i \in Effects : i < e + 1 => i < e \/ i = e
      BY DEF Effects
    <2> QED BY <2>1 DEF Drains
  <1>2. handlers'[h] = [handlers[h] EXCEPT !.effect = e + 1,
                          !.pc = IF e = NumEffects THEN "finalize" ELSE "effectClaim"]
    BY DEF TypeOK, Advance
  <1>3. /\ handlers'[h].effect = e + 1
        /\ handlers'[h].pc = IF e = NumEffects THEN "finalize" ELSE "effectClaim"
        /\ handlers'[h].sawNoRow = handlers[h].sawNoRow
        /\ handlers'[h].sawDone = handlers[h].sawDone
    BY <1>2 DEF TypeOK, Handler
  <1>4. \A i \in Effects : i < handlers'[h].effect => i \in ran'
    BY <1>1, <1>3
  <1>5. /\ handlers'[h].pc \in {"finalize", "effectClaim"}
        /\ handlers'[h].pc = "finalize" => handlers'[h].effect = NumEffects + 1
    BY <1>3
  <1> QED BY <1>3, <1>4, <1>5 DEF Drains

-----------------------------------------------------------------------------
(* Every step keeps the invariant                                            *)

\* A handler that acts keeps its own part of the invariant, and that of the rows.
LEMMA ActorDrains ==
  ASSUME IInv, DrainInv, NEW h \in Handlers, HandlerStep(h)
  PROVE  RowStays' /\ DoneHasRun' /\ Drains(h)'
  <1>0. /\ TypeOK /\ RowStays /\ DoneHasRun /\ Drains(h)
        /\ handlers \in [Handlers -> Handler] /\ handlers[h] \in Handler
        /\ handlers[h].verdict \in Verdicts
    BY ActorHasVerdict DEF IInv, TypeOK, DrainInv
  <1>1. CASE Resolve(h) \/ StopResolve(h)
    <2>1. UNCHANGED <<ledger, effects, world, ran>>
      BY <1>1 DEF Resolve, StopResolve
    <2>2. Drains(h)'
      BY <1>0, <1>1, <2>1, NoneBefore
      DEF Resolve, StopResolve, Drains, RowStays, DoneHasRun, Halt, Idle, Handler
    <2> QED BY <1>0, <2>1, <2>2 DEF RowStays, DoneHasRun
  <1>2. CASE Claim(h) \/ Reclaim(h)
    <2>1. UNCHANGED <<ledger, effects, world, ran>>
      BY <1>2 DEF Claim, Reclaim
    <2>2. Drains(h)'
      BY <1>0, <1>2, <2>1, NoneBefore DEF Claim, Reclaim, TakeIntent, Drains, Halt, Goto, Idle, Handler
    <2> QED BY <1>0, <2>1, <2>2 DEF RowStays, DoneHasRun
  <1>3. CASE Commit(h) \/ Recommit(h) \/ StopCommit(h)
    <2>1. PICK label \in {"settle", "mark", "repair"} : CommitThen(h, label, FALSE)
      BY <1>3 DEF Commit, Recommit, StopCommit
    <2> QED BY <1>0, <2>1, CommitDrains
  <1>4. ~Import(h)
    BY <1>0 DEF Import, At, Drains
  <1>5. CASE Settle(h) \/ Repair(h) \/ Mark(h)
    <2>1. UNCHANGED <<effects, world, ran>> /\ ledger'.status = ledger.status
          /\ ledger'.effectsDone = ledger.effectsDone
      BY <1>0, <1>5 DEF Settle, Repair, Mark, TypeOK, LedgerRow
    <2>2. Drains(h)'
      BY <1>0, <1>5, <2>1, NoneBefore DEF Settle, Repair, Mark, Drains, Halt, Goto, Idle, Handler
    <2> QED BY <1>0, <2>1, <2>2 DEF RowStays, DoneHasRun
  <1>6. CASE Finish(h)
    <2>1. UNCHANGED <<ledger, ran>> /\ world'.dispatch = world.dispatch
      BY <1>0, <1>6 DEF Finish, TypeOK, World
    <2>2. \A e \in Effects : effects'[e].state = "done" => effects[e].state = "done"
      BY <1>0, <1>6 DEF Finish, EffectRowsEnsured, TypeOK, EffectRow
    <2>3. Drains(h)'
      BY <1>0, <1>6, <2>1 DEF Finish, Drains, Goto, Handler
    <2> QED BY <1>0, <2>1, <2>2, <2>3 DEF RowStays, DoneHasRun
  <1>7. CASE EffectClaim(h)
    <2>1. UNCHANGED <<ledger, world, ran>> /\ handlers[h].effect \in Effects
      BY <1>7 DEF EffectClaim
    <2>2. \A e \in Effects : effects'[e].state = "done" => effects[e].state = "done"
      BY <1>0, <1>7 DEF EffectClaim, TypeOK
    <2>3. Drains(h)'
      <3>1. CASE effects[handlers[h].effect].state = "done" /\ Advance(h)
        BY <1>0, <2>1, <3>1, AdvanceDrains DEF DoneHasRun
      <3>2. CASE Goto(h, "effectRun") \/ Halt(h)
        BY <1>0, <2>1, <3>2, NoneBefore DEF Drains, Halt, Goto, Idle, Handler
      <3> QED BY <1>7, <3>1, <3>2 DEF EffectClaim
    <2> QED BY <1>0, <2>1, <2>2, <2>3 DEF RowStays, DoneHasRun
  <1>8. CASE EffectRun(h)
    <2>1. /\ UNCHANGED <<ledger, world, effects>> /\ ran' = ran \cup {handlers[h].effect}
          /\ handlers[h].effect \in Effects
      BY <1>8 DEF EffectRun
    <2>2. ran \subseteq Effects
      BY <1>0 DEF TypeOK
    <2>3. Drains(h)'
      BY <1>0, <1>8, <2>1, <2>2 DEF EffectRun, Drains, Goto, Handler
    <2> QED BY <1>0, <2>1, <2>2, <2>3 DEF RowStays, DoneHasRun
  <1>9. CASE EffectComplete(h)
    <2>1. /\ UNCHANGED <<ledger, world, ran>> /\ handlers[h].effect \in Effects
          /\ handlers[h].effect \in ran
      BY <1>0, <1>9 DEF EffectComplete, At, Drains
    <2>2. \A e \in Effects : effects'[e].state = "done" =>
            effects[e].state = "done" \/ e = handlers[h].effect
      BY <1>0, <1>9 DEF EffectComplete, TypeOK
    <2>3. Drains(h)'
      <3>1. CASE Advance(h)
        BY <1>0, <2>1, <3>1, AdvanceDrains
      <3>2. CASE Halt(h)
        BY <1>0, <2>1, <3>2, NoneBefore DEF Drains, Halt, Idle
      <3> QED BY <1>9, <3>1, <3>2 DEF EffectComplete
    <2> QED BY <1>0, <2>1, <2>2, <2>3 DEF RowStays, DoneHasRun
  <1>10. CASE Finalize(h)
    <2>1. ran = Effects
      <3>1. handlers[h].effect = NumEffects + 1
        BY <1>0, <1>10 DEF Finalize, At, Drains
      <3>2. \A e \in Effects : e < NumEffects + 1
        BY ConstantsAssumption DEF Effects
      <3> QED BY <1>0, <3>1, <3>2 DEF Drains, TypeOK
    <2>2. UNCHANGED <<effects, world, ran>> /\ ledger'.status = ledger.status
      <3>1. ledger' = ledger \/ ledger' = [ledger EXCEPT !.effectsDone = TRUE]
        BY <1>10 DEF Finalize
      <3>2. ledger'.status = ledger.status
        BY <1>0, <3>1 DEF TypeOK, LedgerRow
      <3> QED BY <1>10, <3>2 DEF Finalize
    <2>3. Drains(h)'
      BY <1>0, <1>10, <2>1, <2>2, NoneBefore DEF Finalize, Drains, Halt, Goto, Idle, Handler
    <2> QED BY <1>0, <2>1, <2>2, <2>3 DEF RowStays, DoneHasRun
  <1>11. CASE Ack(h)
    BY <1>0, <1>11, NoneBefore DEF Ack, Halt, Idle, Drains, RowStays, DoneHasRun
  <1> QED BY <1>1, <1>2, <1>3, <1>4, <1>5, <1>6, <1>7, <1>8, <1>9, <1>10, <1>11 DEF HandlerStep

\* A handler at rest keeps its part: effects are never taken back.
LEMMA BystanderDrains ==
  ASSUME IInv, DrainInv, [Next]_vars, NEW g \in Handlers, handlers'[g] = handlers[g]
  PROVE  Drains(g)'
  <1>1. Drains(g)
    BY DEF DrainInv
  <1> QED BY <1>1, RanGrows DEF Drains

\* The invariant is inductive while no seed is deleted.
LEMMA DrainStep ==
  ASSUME IInv, DrainInv, ~SeedMayVanish, [Next]_vars
  PROVE  DrainInv'
  <1>0. TypeOK /\ handlers \in [Handlers -> Handler] /\ RowStays /\ DoneHasRun
    BY DEF IInv, TypeOK, DrainInv
  <1>1. ASSUME NEW h \in Handlers, HandlerStep(h)
        PROVE  DrainInv'
    <2>1. RowStays' /\ DoneHasRun' /\ Drains(h)'
      BY <1>1, ActorDrains
    <2>2. ASSUME NEW g \in Handlers \ {h} PROVE Drains(g)'
      BY <1>0, <1>1, <2>2, OthersUntouched, BystanderDrains
    <2> QED BY <2>1, <2>2 DEF DrainInv
  <1>2. ASSUME NEW h \in Handlers,
               EffectFail(h) \/ Abort(h)
                 \/ \E v \in Verdicts : ReceiveResult(h, v) \/ ReceiveStop(h, v)
        PROVE  DrainInv'
    <2>1. UNCHANGED <<ledger, world, ran>>
      BY <1>2 DEF EffectFail, Abort, ReceiveResult, ReceiveStop, Receive
    <2>2. \A e \in Effects : effects'[e].state = "done" => effects[e].state = "done"
      <3>1. CASE effects' = effects
        BY <3>1
      <3>2. ASSUME NEW d \in Effects, effects' = [effects EXCEPT ![d] = [NoRow EXCEPT !.state = "pending"]]
            PROVE  \A e \in Effects : effects'[e].state = "done" => effects[e].state = "done"
        <4>1. [NoRow EXCEPT !.state = "pending"].state = "pending" /\ effects \in [Effects -> EffectRow]
          BY <1>0 DEF NoRow, TypeOK
        <4>2. \A e \in Effects : effects'[e] = effects[e] \/ effects'[e].state = "pending"
          BY <3>2, <4>1
        <4> QED BY <4>2
      <3>3. EffectFail(h) => \/ effects' = effects
                            \/ \E d \in Effects : effects' = [effects EXCEPT ![d] = [NoRow EXCEPT !.state = "pending"]]
        BY DEF EffectFail
      <3>4. ~EffectFail(h) => effects' = effects
        BY <1>2 DEF Abort, ReceiveResult, ReceiveStop, Receive
      <3> QED BY <3>1, <3>2, <3>3, <3>4
    <2>3. Drains(h)'
      <3>1. \/ handlers'[h] = Idle
            \/ \E v \in Verdicts : \/ handlers'[h] = [Idle EXCEPT !.pc = "resolve", !.verdict = v]
                                  \/ handlers'[h] = [Idle EXCEPT !.pc = "stopResolve", !.verdict = v]
        BY <1>0, <1>2 DEF EffectFail, Abort, ReceiveResult, ReceiveStop, Receive, Halt
      <3>2. /\ ~handlers'[h].sawNoRow /\ ~handlers'[h].sawDone /\ handlers'[h].effect = 1
            /\ handlers'[h].pc \in {"idle", "resolve", "stopResolve"}
        <4>1. /\ ~Idle.sawNoRow /\ ~Idle.sawDone /\ Idle.effect = 1 /\ Idle.pc = "idle"
              /\ Idle \in Handler
          BY IdleType DEF Idle
        <4> QED BY <3>1, <4>1 DEF Handler
      <3> QED BY <3>2, NoneBefore DEF Drains
    <2>4. ASSUME NEW g \in Handlers \ {h} PROVE Drains(g)'
      <3>1. handlers'[g] = handlers[g]
        BY <1>0, <1>2 DEF EffectFail, Abort, ReceiveResult, ReceiveStop, Receive, Halt
      <3> QED BY <3>1, BystanderDrains
    <2> QED BY <1>0, <2>1, <2>2, <2>3, <2>4 DEF DrainInv, RowStays, DoneHasRun
  <1>3. ASSUME handlers' = handlers, ledger' = ledger, ran' = ran,
               world'.dispatch # "seeded",
               \A e \in Effects : effects'[e].state = effects[e].state
        PROVE  DrainInv'
    <2>1. ASSUME NEW g \in Handlers PROVE Drains(g)'
      BY <1>3, BystanderDrains
    <2> QED BY <1>0, <1>3, <2>1 DEF DrainInv, RowStays, DoneHasRun
  <1>4. ASSUME NEW e \in Effects, EffectLeaseExpires(e)
        PROVE  DrainInv'
    BY <1>0, <1>3, <1>4 DEF EffectLeaseExpires, RowStays, TypeOK, EffectRow
  <1>5. CASE \/ IntentLeaseExpires \/ RedisRecordExpires \/ TrackerForgotten \/ RunningWrite
             \/ NewerRun \/ UNCHANGED vars
    BY <1>0, <1>3, <1>5 DEF IntentLeaseExpires, RedisRecordExpires, TrackerForgotten,
       RunningWrite, NewerRun, vars, RowStays, TypeOK, World
  <1>6. CASE Redispatch
    BY <1>0, <1>3, <1>6 DEF Redispatch, RowStays, TypeOK, World
  <1>7. CASE RedispatchRecord
    BY <1>0, <1>3, <1>7 DEF RedispatchRecord, RowStays, TypeOK, World
  <1>8. ~SeedDeleted
    BY DEF SeedDeleted
  <1> QED BY <1>1, <1>2, <1>4, <1>5, <1>6, <1>7, <1>8 DEF Next

-----------------------------------------------------------------------------
(* The refinement                                                            *)

\* The decision that the database row stands for.
Decision == IF Frozen THEN ledger.status ELSE NoVerdict

\* A step that the abstraction does not see.
Unseen == Decision' = Decision /\ ran' = ran /\ acked' = acked

\* A handler decides, performs an effect, acknowledges, or is not seen.
LEMMA ActorPromised ==
  ASSUME IInv, DrainInv, NEW h \in Handlers, HandlerStep(h)
  PROVE  Promise!Next \/ Unseen
  <1>0. /\ TypeOK /\ Drains(h) /\ handlers[h] \in Handler /\ handlers[h].verdict \in Verdicts
        /\ handlers[h].pc \in Decided => ledger.status = handlers[h].verdict
    BY ActorHasVerdict DEF IInv, TypeOK, DrainInv, HandlersAgree
  <1>1. CASE Commit(h) \/ Recommit(h) \/ StopCommit(h)
    <2>1. PICK label \in {"settle", "mark", "repair"} : CommitThen(h, label, FALSE)
      BY <1>1 DEF Commit, Recommit, StopCommit
    <2>2. ran' = ran /\ acked' = acked
      BY <2>1 DEF CommitThen
    <2>3. CASE CanFreeze(handlers[h].gen) /\ Freeze(handlers[h].verdict, handlers[h].gen, FALSE)
      <3>1. ~Frozen /\ ledger'.status = handlers[h].verdict
        BY <2>3 DEF CanFreeze, Freeze
      <3>2. Promise!Decide(handlers[h].verdict)
        BY <1>0, <2>2, <3>1 DEF Promise!Decide, Frozen
      <3> QED BY <1>0, <3>2 DEF Promise!Next
    <2>4. CASE UNCHANGED <<ledger, chat, effects>>
      BY <2>2, <2>4 DEF Unseen, Decision, Frozen
    <2> QED BY <2>1, <2>3, <2>4 DEF CommitThen
  <1>2. CASE EffectRun(h)
    <2> DEFINE e == handlers[h].effect
    <2>1. /\ e \in Effects /\ ran' = ran \cup {e} /\ UNCHANGED <<ledger, acked>>
          /\ handlers[h].pc = "effectRun"
      BY <1>2 DEF EffectRun, At
    <2>2. Frozen /\ ledger.status # NoVerdict
      BY <1>0, <2>1, ConstantsAssumption DEF Decided, Frozen
    <2>3. 1..(e - 1) \subseteq ran
      <3>1. \A i \in 1..(e - 1) : i \in Effects /\ i < e
        BY <2>1, ConstantsAssumption DEF Effects
      <3> QED BY <1>0, <3>1 DEF Drains
    <2>4. Promise!Perform(e)
      BY <2>1, <2>2, <2>3 DEF Promise!Perform, Frozen
    <2> QED BY <2>1, <2>4 DEF Promise!Next, Effects
  <1>3. CASE Ack(h)
    <2>1. /\ handlers[h].pc = "ack" /\ acked' = acked \cup {handlers[h].verdict}
          /\ UNCHANGED <<ledger, ran>>
      BY <1>3 DEF Ack, At
    <2>2. ran = Effects /\ ledger.status = handlers[h].verdict
      BY <1>0, <2>1 DEF Drains, Decided
    <2>3. Promise!Acknowledge
      BY <1>0, <2>1, <2>2 DEF Promise!Acknowledge, Frozen, Effects
    <2> QED BY <2>3 DEF Promise!Next
  <1>4. CASE Mark(h) \/ Finalize(h)
    BY <1>0, <1>4 DEF Mark, Finalize, Unseen, Decision, Frozen, TypeOK, LedgerRow
  <1>5. CASE \/ Resolve(h) \/ Claim(h) \/ Reclaim(h) \/ Settle(h) \/ StopResolve(h) \/ Repair(h)
             \/ Finish(h) \/ EffectClaim(h) \/ EffectComplete(h)
    BY <1>5 DEF Resolve, Claim, Reclaim, Settle, StopResolve, Repair, Finish, EffectClaim,
       EffectComplete, Unseen, Decision, Frozen
  <1>6. ~Import(h)
    BY <1>0 DEF Import, At, Drains
  <1> QED BY <1>1, <1>2, <1>3, <1>4, <1>5, <1>6 DEF HandlerStep

\* The rest of the backend is not seen: no dispatch decides, while the row stays.
LEMMA StepPromised ==
  ASSUME IInv, DrainInv, ~SeedMayVanish, [Next]_vars
  PROVE  Promise!Next \/ Unseen
  <1>0. RowStays
    BY DEF DrainInv
  <1>1. ASSUME NEW h \in Handlers,
               EffectFail(h) \/ Abort(h)
                 \/ \E v \in Verdicts : ReceiveResult(h, v) \/ ReceiveStop(h, v)
        PROVE  Unseen
    BY <1>1 DEF EffectFail, Abort, ReceiveResult, ReceiveStop, Receive, Unseen, Decision, Frozen
  <1>2. CASE Redispatch \/ RedispatchRecord \/ SeedDeleted
    BY <1>0, <1>2 DEF Redispatch, RedispatchRecord, SeedDeleted, RowStays, Unseen, Decision, Frozen
  <1>3. CASE \/ IntentLeaseExpires \/ RedisRecordExpires \/ TrackerForgotten \/ RunningWrite
             \/ NewerRun \/ (\E e \in Effects : EffectLeaseExpires(e)) \/ UNCHANGED vars
    BY <1>3 DEF IntentLeaseExpires, RedisRecordExpires, TrackerForgotten, RunningWrite, NewerRun,
       EffectLeaseExpires, vars, Unseen, Decision, Frozen
  <1> QED BY <1>1, <1>2, <1>3, ActorPromised DEF Next

\* An event dispatched with a ledger seed that no sweep deletes is decided once, whatever its
\* handlers, resent packets, crashes and duplicate dispatches; its effects run in order after
\* the decision, and the connector hears it only when all of them ran.
THEOREM SettlesAsPromised ==
  ASSUME Seeded, ~SeedMayVanish
  PROVE  Spec => Promised
  <1>1. Init => IInv /\ DrainInv /\ Promise!Init
    <2>1. Init => DrainInv
      BY DrainInit
    <2>2. Init => Promise!Init
      BY TagsAssumption DEF Init, InitDispatched, Promise!Init, Frozen
    <2> QED BY <2>1, <2>2, InitInv
  <1>2. IInv /\ DrainInv /\ [Next]_vars => DrainInv' /\ [Promise!Next]_(Promise!vars)
    <2>1. Unseen => UNCHANGED Promise!vars
      BY DEF Unseen, Decision, Promise!vars
    <2> QED BY <2>1, DrainStep, StepPromised
  <1> QED BY <1>1, <1>2, InvariantHolds, PTL DEF Spec, Promised, Promise!Spec

-----------------------------------------------------------------------------
(* Runs whose session was taken over                                         *)

\* Generations stop where the only dispatch of the event put them, a row that was taken
\* over says so, and before the verdict there is neither permission nor notification.
GensStop ==
  /\ world.runGen <= world.lastGen
  /\ redis.stage \in {"ack", "result"} => redis.gen <= world.lastGen
  /\ chat.state = "superseded" => chat.gen = world.lastGen
  /\ ~Frozen => ~ledger.notificationAllowed /\ "outbox" \notin published

\* From then on the run cannot notify.
TakenOver ==
  chat.state = "superseded" /\ ~ledger.notificationAllowed /\ "outbox" \notin published

LEMMA GensStopInit ==
  ASSUME Init, Seeded
  PROVE  GensStop
  <1>1. InitDispatched /\ InitialGen = 1
    BY DEF Init, InitialGen
  <1>2. /\ world.runGen = 1 /\ world.lastGen = 1 /\ redis.gen = 1
        /\ chat.state = "none" /\ published = {}
    BY <1>1 DEF InitDispatched, NoRecord
  <1>3. ~ledger.notificationAllowed
    BY DEF Init
  <1> QED BY <1>2, <1>3 DEF GensStop

\* What a step does to generations, and when it notifies.
LEMMA NoNewGen ==
  ASSUME IInv, GensStop, RowStays, [Next]_vars
  PROVE  /\ world'.lastGen = world.lastGen
         /\ world'.runGen <= world'.lastGen
         /\ redis'.stage \in {"ack", "result"} => redis'.gen <= world'.lastGen
         /\ \/ published' = published
            \/ ledger.notificationAllowed /\ published' = published \cup {"outbox"}
  <1>0. /\ world \in World /\ redis \in Record
        /\ world.lastGen \in Nat /\ world.runGen \in Nat
    BY DEF IInv, TypeOK, World, Gens
  <1>1. CASE Quiet
    BY <1>1 DEF Quiet, GensStop
  <1>2. CASE Redispatch
    BY <1>0, <1>2 DEF Redispatch, RowStays, GensStop, World
  <1>3. CASE RedispatchRecord
    <2>1. world'.lastGen = world.lastGen /\ published' = published
      BY <1>0, <1>3 DEF RedispatchRecord, World
    <2>2. \/ world'.runGen = world.runGen
          \/ world'.runGen = world.lastGen
          \/ redis.stage \in {"ack", "result"} /\ world'.runGen = redis.gen
      BY <1>0, <1>3 DEF RedispatchRecord, World
    <2>3. redis' = redis \/ redis'.gen = world.lastGen
      BY <1>3 DEF RedispatchRecord, NoRecord
    <2> QED BY <1>0, <2>1, <2>2, <2>3 DEF GensStop
  <1> QED BY <1>1, <1>2, <1>3, QuietStep

LEMMA GensStopStep ==
  ASSUME IInv, GensStop, RowStays, [Next]_vars
  PROVE  GensStop'
  <1>1. Frozen => Frozen'
    BY FrozenStays DEF IInv, Frozen
  <1>2. ~Frozen' => ~ledger'.notificationAllowed
    <2>1. RunningWrite \/ NewerRun => ledger' = ledger
      BY DEF RunningWrite, NewerRun
    <2>2. Settling => Frozen'
      BY DEF Settling, Frozen
    <2> QED BY <1>1, <2>1, <2>2, ChatWriters DEF GensStop, ChatStays
  <1>3. chat'.state = "superseded" => chat'.gen = world'.lastGen
    <2>1. NewerRun => chat'.gen = world.lastGen
      BY DEF NewerRun
    <2>2. Settling => chat'.state # "superseded"
      BY TagsAssumption DEF Settling
    <2>3. RunningWrite => chat' = chat \/ chat'.state = "live"
      BY DEF RunningWrite
    <2> QED BY <2>1, <2>2, <2>3, NoNewGen, ChatWriters DEF GensStop, ChatStays
  <1> QED BY <1>1, <1>2, <1>3, NoNewGen DEF GensStop

LEMMA TakenOverStep ==
  ASSUME IInv, GensStop, RowStays, TakenOver, [Next]_vars
  PROVE  TakenOver'
  <1>1. ~Settling /\ ~NewerRun
    BY DEF Settling, ChatSettles, NewerRun, TakenOver
  <1>2. RunningWrite => chat' = chat /\ ledger' = ledger
    <2>1. world.runGen \in Nat /\ world.lastGen \in Nat
      BY DEF IInv, TypeOK, World, Gens
    <2>2. ~(world.runGen > chat.gen)
      BY <2>1 DEF GensStop, TakenOver
    <2> QED BY <2>2 DEF RunningWrite, TakenOver
  <1> QED BY <1>1, <1>2, NoNewGen, ChatWriters DEF TakenOver, ChatStays

\* A run whose session went on to a newer one before its verdict froze does not notify
\* when it is settled after all (CommitAgentEventTerminalLedger); it is never dispatched anew, as its seed stays.
THEOREM SupersededIsQuiet ==
  ASSUME Seeded, ~SeedMayVanish
  PROVE  Spec => SupersededNeverNotifies
  <1>1. Init => DrainInv /\ GensStop
    BY DrainInit, GensStopInit
  <1>2. IInv /\ DrainInv /\ GensStop /\ [Next]_vars => DrainInv' /\ GensStop'
    BY DrainStep, GensStopStep DEF DrainInv
  <1>3. GensStop /\ chat.state = "superseded" /\ ~Frozen => TakenOver
    BY DEF GensStop, TakenOver
  <1>4. IInv /\ DrainInv /\ GensStop /\ TakenOver /\ [Next]_vars => TakenOver'
    BY TakenOverStep DEF DrainInv
  <1>5. TakenOver => "outbox" \notin published
    BY DEF TakenOver
  <1> QED BY <1>1, <1>2, <1>3, <1>4, <1>5, InvariantHolds, PTL DEF Spec, SupersededNeverNotifies
=============================================================================
