-------------------------- MODULE TerminalSettlement --------------------------
(***************************************************************************)
(* Settlement of one agent event (ws/agentapi and store).                  *)
(*                                                                         *)
(* A connector reports the terminal verdict of an event with event_result  *)
(* or event_stop_result and keeps resending it until it is acknowledged.   *)
(* Any number of goroutines, on any node, handle those packets at once.    *)
(* They coordinate through three stores: the Redis delegate record (the    *)
(* intent and its lease), the database ledger row (the frozen verdict),    *)
(* and one outbox row per externally visible effect.                       *)
(*                                                                         *)
(* Every step of a handler is one store call, so it may be overtaken by    *)
(* another, or die, between any two of them.                               *)
(***************************************************************************)
EXTENDS Naturals

CONSTANTS
  Handlers,       \* goroutines that handle a terminal packet
  Foreign,        \* those whose connection has another owner, agent or token
  Verdicts,       \* the verdicts (status, code, msg) a packet may carry
  NoVerdict, NoHandler,
  NumEffects,     \* outbox rows, in drain order; the last is the notification
  MaxGen,         \* bound: dispatch generations allocated for the event
  Seeded,         \* the dispatch ledger row exists before the first packet
  SeedMayVanish   \* retirement, rollback or sweep may delete a pending row

Effects == 1..NumEffects
Notification == NumEffects

\* The node that settled the event before the ledger existed, and the outbox.
Notifiers == {"olderNode", "outbox"}

ASSUME ConstantsAssumption ==
  /\ Foreign \subseteq Handlers
  /\ NoVerdict \notin Verdicts
  /\ NoHandler \notin Handlers
  /\ NumEffects \in Nat \ {0}
  /\ MaxGen \in Nat \ {0}
  /\ Seeded \in BOOLEAN
  /\ SeedMayVanish \in BOOLEAN

ASSUME TagsAssumption ==
  Verdicts \cap {"absent", "pending", "none", "live", "superseded"} = {}

VARIABLES
  ledger,    \* agent_event_terminal_ledger row
  effects,   \* agent_event_terminal_effects rows
  redis,     \* Redis delegate record
  chat,      \* chat_states row of the session
  world,     \* what the rest of the backend still holds of the event
  handlers,  \* packet handlers in progress
  ran,       \* effects that ran at least once
  published, \* who handed the task notification to the message stream
  acked      \* verdicts acknowledged to the connector

vars == <<ledger, effects, redis, chat, world, handlers, ran, published, acked>>

Gens == 0..MaxGen
Stages == {"none", "ack", "result", "intent", "settled"}

\* status is "absent" without a row and "pending" while it is ''.
LedgerRow == [status : {"absent", "pending"} \cup Verdicts, gen : Gens,
              redisCommitted : BOOLEAN, effectsDone : BOOLEAN,
              notificationAllowed : BOOLEAN]

\* leased: claim_until is in the future. The claim token is the handler: a
\* token is fresh per claim and a handler holds at most one claim of a row.
EffectRow == [state : {"none", "pending", "claimed", "done"},
              token : Handlers \cup {NoHandler}, leased : BOOLEAN]

\* The delegate record as far as settlement reads it.
Record == [stage : Stages, verdict : Verdicts \cup {NoVerdict},
           token : Handlers \cup {NoHandler}, leased : BOOLEAN, gen : Gens]

\* state is "live" while this run owns the row in a non-terminal state, the
\* verdict this run was settled with, or "superseded": a newer run owns the row,
\* or the stale-run sweep closed it. gen is that of the run that wrote the row; a
\* superseded row carries the last generation this event had by then.
ChatRow == [state : {"none", "live", "superseded"} \cup Verdicts, gen : Gens]

\* runWrite: a background running write is still to come. runGen: generation of
\* the run the nodes track. lastGen: the last one allocated for the event.
\* dispatch: a duplicate dispatch in progress. tracked: a node holds a pending
\* entry or active run.
World == [runWrite : BOOLEAN, runGen : Gens, lastGen : Gens, tracked : BOOLEAN,
          dispatch : {"idle", "seeded", "adopted"}]

PCs == {"idle", "resolve", "claim", "reclaim", "commit", "settle", "recommit",
        "import", "stopResolve", "stopCommit", "repair", "mark", "finish",
        "effectClaim", "effectRun", "effectComplete", "finalize", "ack"}

\* pc: next store call. sawNoRow: the ledger row was absent when first read.
\* gen: generation of the row or record in hand. sawDone: effects_state was done in the
\* row in hand. effect: outbox row being drained.
Handler == [pc : PCs, verdict : Verdicts \cup {NoVerdict}, sawNoRow : BOOLEAN,
            gen : Gens, sawDone : BOOLEAN, effect : 1..(NumEffects + 1)]

NoRecord == [stage |-> "none", verdict |-> NoVerdict, token |-> NoHandler,
             leased |-> FALSE, gen |-> 0]
NoRow    == [state |-> "none", token |-> NoHandler, leased |-> FALSE]
Idle     == [pc |-> "idle", verdict |-> NoVerdict, sawNoRow |-> FALSE, gen |-> 0,
             sawDone |-> FALSE, effect |-> 1]

TypeOK ==
  /\ ledger \in LedgerRow
  /\ effects \in [Effects -> EffectRow]
  /\ redis \in Record
  /\ chat \in ChatRow
  /\ world \in World
  /\ handlers \in [Handlers -> Handler]
  /\ ran \subseteq Effects
  /\ published \subseteq Notifiers
  /\ acked \subseteq Verdicts

Frozen == ledger.status \in Verdicts

-----------------------------------------------------------------------------
(* Seeded: the first dispatch has registered the event with a ledger seed, a *)
(* Redis record in stage ack or result, and a chat_states write on its way.  *)
(* Otherwise the event predates the ledger (rolling upgrade), and an older   *)
(* node may already have run its effects and written the Redis tombstone.    *)
InitialGen == IF Seeded THEN 1 ELSE 0

InitDispatched ==
  /\ redis \in {[NoRecord EXCEPT !.stage = s, !.gen = InitialGen] : s \in {"ack", "result"}}
  /\ chat = [state |-> "none", gen |-> 0]
  /\ world = [runWrite |-> TRUE, runGen |-> InitialGen, lastGen |-> InitialGen,
              tracked |-> TRUE, dispatch |-> "idle"]
  /\ ran = {} /\ published = {}

InitTombstone ==
  \E v \in Verdicts :
    /\ redis = [NoRecord EXCEPT !.stage = "settled", !.verdict = v]
    /\ chat = [state |-> v, gen |-> 0]
    /\ world = [runWrite |-> FALSE, runGen |-> 0, lastGen |-> 0,
                tracked |-> FALSE, dispatch |-> "idle"]
    /\ ran = Effects /\ published = {"olderNode"}

Init ==
  /\ ledger = [status |-> IF Seeded THEN "pending" ELSE "absent", gen |-> InitialGen,
               redisCommitted |-> FALSE, effectsDone |-> FALSE,
               notificationAllowed |-> FALSE]
  /\ InitDispatched \/ (~Seeded /\ InitTombstone)
  /\ effects = [e \in Effects |-> NoRow]
  /\ handlers = [h \in Handlers |-> Idle]
  /\ acked = {}

At(h, label) == handlers[h].pc = label
Goto(h, label) == handlers' = [handlers EXCEPT ![h].pc = label]
Halt(h) == handlers' = [handlers EXCEPT ![h] = Idle]

-----------------------------------------------------------------------------
(* The connector sends, or resends, a terminal packet.                       *)

Receive(h, label, v) ==
  /\ At(h, "idle")
  /\ handlers' = [handlers EXCEPT ![h] = [Idle EXCEPT !.pc = label, !.verdict = v]]
  /\ UNCHANGED <<ledger, effects, redis, chat, world, ran, published, acked>>

ReceiveResult(h, v) == Receive(h, "resolve", v)
ReceiveStop(h, v) == Receive(h, "stopResolve", v)

\* Any store call may fail, and any node may die: the handler stops without
\* acknowledging. What it already wrote stays.
Abort(h) ==
  /\ ~At(h, "idle")
  /\ Halt(h)
  /\ UNCHANGED <<ledger, effects, redis, chat, world, ran, published, acked>>

-----------------------------------------------------------------------------
(* event_result                                                              *)

\* The row names another agent or owner than the connection.
RowIsForeign(h) == h \in Foreign /\ ledger.status # "absent"

\* ResolveAgentEventTerminalLedger and the switch on its disposition: foreign
\* (4003), conflict (4001), same, or a pending or missing row.
Resolve(h) ==
  /\ At(h, "resolve")
  /\ \/ /\ RowIsForeign(h) \/ (Frozen /\ ledger.status # handlers[h].verdict)
        /\ Halt(h)
     \/ /\ ~RowIsForeign(h) /\ ledger.status = handlers[h].verdict
        /\ handlers' = [handlers EXCEPT ![h].pc = "repair",
                                        ![h].sawDone = ledger.effectsDone]
     \/ /\ ~RowIsForeign(h) /\ ledger.status \in {"absent", "pending"}
        /\ handlers' = [handlers EXCEPT ![h].pc = "claim",
                                        ![h].sawNoRow = (ledger.status = "absent"),
                                        ![h].gen = ledger.gen]
  /\ UNCHANGED <<ledger, effects, redis, chat, world, ran, published, acked>>

\* claimTerminalIntentScript on a record r the caller owns.
Claimable(r, v) ==
  \/ r.verdict = NoVerdict
  \/ r.verdict = v /\ r.stage # "settled" /\ ~r.leased

TakeIntent(h, r) ==
  LET v == handlers[h].verdict IN
  \/ /\ Claimable(r, v)
     /\ redis' = [stage |-> "intent", verdict |-> v, token |-> h, leased |-> TRUE,
                  gen |-> r.gen]
     /\ handlers' = [handlers EXCEPT ![h].pc = "commit", ![h].gen = r.gen]
  \/ /\ r.verdict = v /\ r.stage = "settled"
     /\ handlers' = [handlers EXCEPT
                       ![h].pc = IF handlers[h].sawNoRow THEN "import" ELSE "recommit",
                       ![h].gen = r.gen]
     /\ UNCHANGED redis
  \/ /\ r.verdict # NoVerdict
     /\ r.verdict # v \/ (r.stage # "settled" /\ r.leased)
     /\ Halt(h)                    \* 4001 conflict, or another live claim
     /\ UNCHANGED redis

Claim(h) ==
  /\ At(h, "claim")
  /\ \/ redis.stage # "none" /\ h \notin Foreign /\ TakeIntent(h, redis)
     \/ redis.stage # "none" /\ h \in Foreign /\ Halt(h) /\ UNCHANGED redis
     \/ redis.stage = "none" /\ Goto(h, "reclaim") /\ UNCHANGED redis
  /\ UNCHANGED <<ledger, effects, chat, world, ran, published, acked>>

\* resolveEventResultFallback: what a missing Redis record can be rebuilt from
\* when there is no ledger row either. It is the local tracker or run, or a
\* non-terminal chat_states row of this run.
Recoverable(h) == h \notin Foreign /\ (world.tracked \/ chat.state = "live")

FallbackGen(h) == IF handlers[h].sawNoRow THEN world.runGen ELSE handlers[h].gen

\* The second claim carries the fallback record; Redis keeps its own if one has
\* appeared meanwhile.
Reclaim(h) ==
  LET found == IF handlers[h].sawNoRow THEN Recoverable(h) ELSE h \notin Foreign IN
  /\ At(h, "reclaim")
  /\ \/ /\ found
        /\ TakeIntent(h, IF redis.stage # "none" THEN redis
                         ELSE [NoRecord EXCEPT !.stage = "result",
                                               !.gen = FallbackGen(h)])
     \/ ~found /\ Halt(h) /\ UNCHANGED redis       \* 4003
  /\ UNCHANGED <<ledger, effects, chat, world, ran, published, acked>>

-----------------------------------------------------------------------------
(* CommitAgentEventTerminalLedger: one transaction.                          *)

GenerationMismatch(g) ==
  ledger.status = "pending" /\ ledger.gen > 0 /\ g > 0 /\ ledger.gen # g

CanFreezeTwice(g) == ~GenerationMismatch(g)   \* mutant

CanFreeze(g) == ~Frozen /\ ~GenerationMismatch(g)

Conflicts(v, g) == (Frozen /\ ledger.status # v) \/ GenerationMismatch(g)

\* settleSessionAgentStateByRunDB: the verdict lands only while the row is
\* missing, or is a non-terminal row of this run and generation.
ChatSettlesAlways(g) == TRUE   \* mutant

ChatSettles(g) ==
  chat.state = "none" \/ (chat.state = "live" /\ (g = 0 \/ g = chat.gen))

\* Outbox rows are inserted where they do not exist.
EffectRowsEnsured ==
  [e \in Effects |-> IF effects[e].state = "none"
                     THEN [effects[e] EXCEPT !.state = "pending"] ELSE effects[e]]

\* The verdict, the chat-state transition, the notification permission and the
\* outbox rows land together. imported: the legacy import passes no chat state
\* and declares the effects already run.
Freeze(v, g, imported) ==
  LET settles == ~imported /\ ChatSettles(g) IN
  /\ ledger' = [status |-> v, redisCommitted |-> imported, effectsDone |-> imported,
                gen |-> IF ledger.status = "absent" THEN g ELSE ledger.gen,
                notificationAllowed |-> settles]
  /\ chat' = IF settles THEN [state |-> v, gen |-> g] ELSE chat
  /\ effects' = EffectRowsEnsured

\* The commit of handler h, which goes on at label when the row carries its
\* verdict: created now, or found the same.
CommitThen(h, label, imported) ==
  LET v == handlers[h].verdict IN
  /\ \/ /\ CanFreeze(handlers[h].gen)
        /\ Freeze(v, handlers[h].gen, imported)
        /\ handlers' = [handlers EXCEPT ![h].pc = label, ![h].gen = 0]
     \/ /\ ledger.status = v
        /\ handlers' = [handlers EXCEPT ![h].pc = label, ![h].gen = 0,
                                        ![h].sawDone = ledger.effectsDone]
        /\ UNCHANGED <<ledger, chat, effects>>
     \/ /\ Conflicts(v, handlers[h].gen)           \* 5001
        /\ Halt(h)
        /\ UNCHANGED <<ledger, chat, effects>>
  /\ UNCHANGED <<redis, world, ran, published, acked>>

\* After a won claim, after a record that was already settled, and after a
\* stop, prepareTerminalResult commits the verdict.
Commit(h)     == At(h, "commit") /\ CommitThen(h, "settle", FALSE)
Recommit(h)   == At(h, "recommit") /\ CommitThen(h, "mark", FALSE)
StopCommit(h) == At(h, "stopCommit") /\ CommitThen(h, "repair", FALSE)

\* importLegacySettledTerminalResult: a settled Redis tombstone for which the
\* handler saw no ledger row. Its acknowledgement skips finishTerminalEffects.
Import(h) == At(h, "import") /\ CommitThen(h, "ack", TRUE)

\* Mutant: settles whatever record is there.
SettleUnowned(h) ==
  /\ At(h, "settle")
  /\ redis' = [redis EXCEPT !.stage = "settled", !.leased = FALSE, !.token = NoHandler]
  /\ Goto(h, "mark")
  /\ UNCHANGED <<ledger, effects, chat, world, ran, published, acked>>

\* settleTerminalIntentScript: only the current token, or an already settled
\* record of the same verdict, succeeds.
Settle(h) ==
  LET settles == /\ redis.verdict = handlers[h].verdict
                 /\ redis.stage = "settled" \/ redis.token = h
  IN
  /\ At(h, "settle")
  /\ \/ /\ settles
        /\ redis' = [redis EXCEPT !.stage = "settled", !.leased = FALSE,
                                  !.token = NoHandler]
        /\ Goto(h, "mark")
     \/ ~settles /\ Halt(h) /\ UNCHANGED redis
  /\ UNCHANGED <<ledger, effects, chat, world, ran, published, acked>>

-----------------------------------------------------------------------------
(* event_stop_result                                                         *)

\* The row in hand already has a verdict, which the stop then repeats.
StopReplays == Frozen

\* A frozen row replays its own verdict. A pending or missing one is settled
\* with the verdict of the stop, from whatever record is left of the event.
StopResolve(h) ==
  LET evidence == redis.stage # "none" \/ Recoverable(h) IN
  /\ At(h, "stopResolve")
  /\ \/ /\ h \notin Foreign /\ StopReplays
        /\ handlers' = [handlers EXCEPT ![h].pc = "repair",
                                        ![h].verdict = ledger.status,
                                        ![h].sawDone = ledger.effectsDone]
     \/ /\ h \notin Foreign /\ ~StopReplays
        /\ ledger.status = "pending" \/ evidence
        /\ handlers' = [handlers EXCEPT
                          ![h].pc = "stopCommit",
                          ![h].gen = IF ledger.status = "pending" THEN ledger.gen
                                     ELSE IF redis.stage # "none" THEN redis.gen
                                     ELSE world.runGen]
     \/ /\ h \in Foreign \/ (ledger.status = "absent" /\ ~evidence)
        /\ Halt(h)
  /\ UNCHANGED <<ledger, effects, redis, chat, world, ran, published, acked>>

-----------------------------------------------------------------------------
(* Common tail                                                               *)

\* repairSettledTerminalIntentScript overwrites whatever Redis holds with the
\* ledger verdict.
Repair(h) ==
  /\ At(h, "repair")
  /\ redis' = [stage |-> "settled", verdict |-> handlers[h].verdict,
               token |-> NoHandler, leased |-> FALSE, gen |-> ledger.gen]
  /\ Goto(h, "mark")
  /\ UNCHANGED <<ledger, effects, chat, world, ran, published, acked>>

\* MarkAgentEventTerminalRedisCommitted.
Mark(h) ==
  /\ At(h, "mark")
  /\ \/ /\ ledger.status = handlers[h].verdict
        /\ ledger' = [ledger EXCEPT !.redisCommitted = TRUE]
        /\ Goto(h, "finish")
     \/ /\ ledger.status # handlers[h].verdict
        /\ Halt(h)
        /\ UNCHANGED ledger
  /\ UNCHANGED <<effects, redis, chat, world, ran, published, acked>>

\* Mutant: takes the Redis commit of the row for the end of its effects.
FinishOnRedisCommit(h) ==
  /\ At(h, "finish")
  /\ world' = [world EXCEPT !.tracked = FALSE]
  /\ IF handlers[h].sawDone \/ ledger.redisCommitted
     THEN Goto(h, "ack") /\ UNCHANGED effects
     ELSE Goto(h, "effectClaim") /\ effects' = EffectRowsEnsured
  /\ UNCHANGED <<ledger, redis, chat, ran, published, acked>>

\* finishTerminalEffects: drop the local tracker, answer at once when the row
\* in hand says the effects are done, else make sure the outbox rows exist.
Finish(h) ==
  /\ At(h, "finish")
  /\ world' = [world EXCEPT !.tracked = FALSE]
  /\ IF handlers[h].sawDone
     THEN Goto(h, "ack") /\ UNCHANGED effects
     ELSE Goto(h, "effectClaim") /\ effects' = EffectRowsEnsured
  /\ UNCHANGED <<ledger, redis, chat, ran, published, acked>>

\* The drain goes on to the next outbox row, or to the finalization.
Advance(h) ==
  LET e == handlers[h].effect IN
  handlers' = [handlers EXCEPT
                 ![h].effect = e + 1,
                 ![h].pc = IF e = NumEffects THEN "finalize" ELSE "effectClaim"]

\* Mutant: only a pending row can be claimed.
EffectClaimPending(h) ==
  LET e == handlers[h].effect IN
  /\ At(h, "effectClaim") /\ e \in Effects
  /\ \/ /\ effects[e].state = "pending"
        /\ effects' = [effects EXCEPT ![e] = [state |-> "claimed", token |-> h,
                                              leased |-> TRUE]]
        /\ Goto(h, "effectRun")
     \/ effects[e].state = "done" /\ Advance(h) /\ UNCHANGED effects
     \/ effects[e].state = "claimed" /\ Halt(h) /\ UNCHANGED effects
  /\ UNCHANGED <<ledger, redis, chat, world, ran, published, acked>>

\* ClaimAgentEventTerminalEffect: a pending row, or one whose lease ran out.
EffectClaim(h) ==
  LET e == handlers[h].effect
      row == effects[e]
      free == row.state = "pending" \/ (row.state = "claimed" /\ ~row.leased)
  IN
  /\ At(h, "effectClaim") /\ e \in Effects
  /\ \/ /\ free
        /\ effects' = [effects EXCEPT ![e] = [state |-> "claimed", token |-> h,
                                              leased |-> TRUE]]
        /\ Goto(h, "effectRun")
     \/ row.state = "done" /\ Advance(h) /\ UNCHANGED effects
     \/ /\ ~free /\ row.state # "done"             \* another drain holds it
        /\ Halt(h)
        /\ UNCHANGED effects
  /\ UNCHANGED <<ledger, redis, chat, world, ran, published, acked>>

\* The effect itself. The last one publishes the task notification, if the
\* commit allowed it.
EffectRun(h) ==
  LET e == handlers[h].effect IN
  /\ At(h, "effectRun") /\ e \in Effects
  /\ ran' = ran \cup {e}
  /\ published' = IF e = Notification /\ ledger.notificationAllowed
                  THEN published \cup {"outbox"} ELSE published
  /\ Goto(h, "effectComplete")
  /\ UNCHANGED <<ledger, effects, redis, chat, world, acked>>

Holds(h, e) == effects[e].state = "claimed" /\ effects[e].token = h

\* FailAgentEventTerminalEffect: the effect returned an error. The row goes back
\* to pending if the token is still the handler's.
EffectFail(h) ==
  LET e == handlers[h].effect IN
  /\ At(h, "effectRun") /\ e \in Effects
  /\ effects' = IF Holds(h, e)
                THEN [effects EXCEPT ![e] = [NoRow EXCEPT !.state = "pending"]]
                ELSE effects
  /\ Halt(h)
  /\ UNCHANGED <<ledger, redis, chat, world, ran, published, acked>>

\* CompleteAgentEventTerminalEffect: token-guarded.
EffectComplete(h) ==
  LET e == handlers[h].effect IN
  /\ At(h, "effectComplete") /\ e \in Effects
  /\ \/ /\ Holds(h, e)
        /\ effects' = [effects EXCEPT ![e] = [NoRow EXCEPT !.state = "done"]]
        /\ Advance(h)
     \/ ~Holds(h, e) /\ Halt(h) /\ UNCHANGED effects
  /\ UNCHANGED <<ledger, redis, chat, world, ran, published, acked>>

\* FinalizeAgentEventTerminalEffects.
Finalize(h) ==
  LET done == \A e \in Effects : effects[e].state \in {"none", "done"} IN
  /\ At(h, "finalize")
  /\ \/ done /\ ledger' = [ledger EXCEPT !.effectsDone = TRUE] /\ Goto(h, "ack")
     \/ ~done /\ Halt(h) /\ UNCHANGED ledger
  /\ UNCHANGED <<effects, redis, chat, world, ran, published, acked>>

\* sendEventResultAck: the connector may now drop the verdict from its outbox.
Ack(h) ==
  /\ At(h, "ack")
  /\ acked' = acked \cup {handlers[h].verdict}
  /\ Halt(h)
  /\ UNCHANGED <<ledger, effects, redis, chat, world, ran, published>>

-----------------------------------------------------------------------------
(* Time and the rest of the backend                                          *)

IntentLeaseExpires ==
  /\ redis.leased
  /\ redis' = [redis EXCEPT !.leased = FALSE]
  /\ UNCHANGED <<ledger, effects, chat, world, handlers, ran, published, acked>>

EffectLeaseExpires(e) ==
  /\ effects[e].leased
  /\ effects' = [effects EXCEPT ![e].leased = FALSE]
  /\ UNCHANGED <<ledger, redis, chat, world, handlers, ran, published, acked>>

\* The record outlived its TTL or was evicted.
RedisRecordExpires ==
  /\ redis.stage # "none"
  /\ redis' = NoRecord
  /\ UNCHANGED <<ledger, effects, chat, world, handlers, ran, published, acked>>

\* The node that tracked the event restarted, or the tracker was retired.
TrackerForgotten ==
  /\ world.tracked
  /\ world' = [world EXCEPT !.tracked = FALSE]
  /\ UNCHANGED <<ledger, effects, redis, chat, handlers, ran, published, acked>>

\* Mutant: an unconditional upsert of the running row.
RunningWriteBlind ==
  /\ world.runWrite
  /\ world' = [world EXCEPT !.runWrite = FALSE]
  /\ chat' = [state |-> "live", gen |-> world.runGen]
  /\ UNCHANGED <<ledger, effects, redis, handlers, ran, published, acked>>

\* persistActiveRunRunning writes the running row in the background. It loses
\* to a row of this run that is already settled, and to one of a newer run.
RunningWrite ==
  LET lands == \/ chat.state \in {"none", "live"}
               \/ chat.state = "superseded" /\ world.runGen > chat.gen
  IN
  /\ world.runWrite
  /\ world' = [world EXCEPT !.runWrite = FALSE]
  /\ chat' = IF lands
             THEN [state |-> "live", gen |-> world.runGen] ELSE chat
  /\ UNCHANGED <<ledger, effects, redis, handlers, ran, published, acked>>

\* A newer run of the session takes the chat_states row over, or the stale-run
\* sweep settles a live row.
NewerRun ==
  /\ chat.state # "superseded"
  /\ chat' = [state |-> "superseded", gen |-> world.lastGen]
  /\ UNCHANGED <<ledger, effects, redis, world, handlers, ran, published, acked>>

\* DeleteAgentEventDispatchSeedIfPending, from a rollback, a retirement or the
\* expired-seed sweep.
SeedDeleted ==
  /\ SeedMayVanish
  /\ ledger.status = "pending"
  /\ ledger' = [ledger EXCEPT !.status = "absent", !.gen = 0]
  /\ UNCHANGED <<effects, redis, chat, world, handlers, ran, published, acked>>

\* A duplicate upstream dispatch of the event reaches registerPendingEventAck.
\* A frozen row ends it; a pending one of the same commit token is adopted with
\* its generation; a missing one is seeded with a fresh generation.
Redispatch ==
  /\ world.dispatch = "idle"
  /\ \/ /\ ledger.status = "pending"
        /\ world' = [world EXCEPT !.dispatch = "adopted"]
        /\ UNCHANGED ledger
     \/ /\ ledger.status = "absent" /\ world.lastGen < MaxGen
        /\ ledger' = [ledger EXCEPT !.status = "pending", !.gen = world.lastGen + 1]
        /\ world' = [world EXCEPT !.dispatch = "seeded", !.lastGen = @ + 1]
  /\ UNCHANGED <<effects, redis, chat, handlers, ran, published, acked>>

\* createDurablePendingDelegate: an existing record is never replaced. A seed
\* created over a settled tombstone is frozen with the tombstone's verdict.
RedispatchRecord ==
  LET imports == /\ redis.stage = "settled"
                 /\ world.dispatch = "seeded"
                 /\ CanFreeze(redis.gen)
  IN
  /\ world.dispatch # "idle"
  /\ \/ /\ redis.stage = "none"
        /\ redis' = [NoRecord EXCEPT !.stage = "ack", !.gen = world.lastGen]
        /\ world' = [world EXCEPT !.dispatch = "idle", !.tracked = TRUE,
                                  !.runWrite = TRUE, !.runGen = world.lastGen]
        /\ UNCHANGED <<ledger, chat, effects>>
     \/ /\ imports
        /\ Freeze(redis.verdict, redis.gen, TRUE)
        /\ world' = [world EXCEPT !.dispatch = "idle"]
        /\ UNCHANGED redis
     \/ /\ redis.stage # "none" /\ ~imports
        /\ world' = IF redis.stage \in {"ack", "result"} /\ ~world.tracked
                    THEN [world EXCEPT !.dispatch = "idle", !.tracked = TRUE,
                                       !.runGen = redis.gen]
                    ELSE [world EXCEPT !.dispatch = "idle"]
        /\ UNCHANGED <<redis, ledger, chat, effects>>
  /\ UNCHANGED <<handlers, ran, published, acked>>

-----------------------------------------------------------------------------
HandlerStep(h) ==
  \/ Resolve(h) \/ Claim(h) \/ Reclaim(h) \/ Commit(h) \/ Recommit(h)
  \/ Import(h) \/ Settle(h) \/ StopResolve(h) \/ StopCommit(h) \/ Repair(h)
  \/ Mark(h) \/ Finish(h) \/ EffectClaim(h) \/ EffectRun(h) \/ EffectComplete(h)
  \/ Finalize(h) \/ Ack(h)

Next ==
  \/ \E h \in Handlers, v \in Verdicts : ReceiveResult(h, v) \/ ReceiveStop(h, v)
  \/ \E h \in Handlers : HandlerStep(h) \/ EffectFail(h) \/ Abort(h)
  \/ IntentLeaseExpires
  \/ \E e \in Effects : EffectLeaseExpires(e)
  \/ RedisRecordExpires
  \/ TrackerForgotten
  \/ RunningWrite
  \/ NewerRun
  \/ SeedDeleted
  \/ Redispatch
  \/ RedispatchRecord

Spec == Init /\ [][Next]_vars

\* Goroutines run, leases end, and the connector resends its outbox.
Fairness ==
  /\ \A h \in Handlers : WF_vars(HandlerStep(h))
  /\ WF_vars(\E h \in Handlers, v \in Verdicts : ReceiveResult(h, v))
  /\ WF_vars(IntentLeaseExpires)
  /\ \A e \in Effects : WF_vars(EffectLeaseExpires(e))

FairSpec == Spec /\ Fairness

-----------------------------------------------------------------------------
(* Properties                                                                *)

\* Whatever handlers, dispatches and deletions interleave, a verdict once frozen
\* in the ledger is neither replaced nor removed.
VerdictImmutable == [][Frozen => ledger'.status = ledger.status]_vars

\* The connector is never told that a verdict was accepted which is not the one
\* in the ledger: not on a replay, not on an import, not on a stop.
AckMatchesVerdict == \A v \in acked : ledger.status = v

\* The settled Redis record, which other nodes trust without reading the
\* database, carries the verdict of the ledger.
SettledRecordAgrees == redis.stage = "settled" => ledger.status = redis.verdict

\* chat_states follows the verdict: a settled row shows what the ledger froze.
ChatVerdictAgrees == chat.state \in Verdicts => ledger.status = chat.state

\* A late running write, import or settlement neither revives a settled run nor
\* touches a row that a newer run has taken over, unless the event itself was
\* dispatched again after that run.
ChatMovesForward ==
  [][/\ chat.state \in Verdicts => chat'.state \in {chat.state, "superseded"}
     /\ chat.state = "superseded" /\ chat' # chat =>
          chat'.state = "live" /\ chat'.gen > chat.gen]_vars

\* A run whose session was taken over before its verdict froze never notifies.
SupersededNeverNotifies ==
  [](chat.state = "superseded" /\ ~Frozen => []("outbox" \notin published))

\* The notification of an event that an older node settled before the ledger
\* existed is not repeated, whether the tombstone is imported by a resent result
\* or a duplicate dispatch, or settled once more by a stop: only a dispatch that
\* finds the tombstone gone, and starts a new run, may lead to another.
TombstoneNeverNotifies == world.runGen = 0 => published # Notifiers

\* A connection that does not own the event changes none of the stores.
ForeignInert ==
  [][\A h \in Foreign : handlers'[h] # handlers[h] =>
       UNCHANGED <<ledger, effects, redis, chat, ran, acked>>]_vars

\* A handler dies or fails where its own next step would not have stopped it,
\* or loses its effect lease while it still runs.
Disturbance ==
  \/ \E h \in Handlers : (Abort(h) /\ ~HandlerStep(h)) \/ EffectFail(h)
  \/ \E e \in Effects :
       /\ EffectLeaseExpires(e)
       /\ At(effects[e].token, "effectRun") \/ At(effects[e].token, "effectComplete")

\* Once disturbances cease, resending gets the verdict acknowledged.
EventuallyAcked == <>[][~Disturbance]_vars => <>(acked # {})

-----------------------------------------------------------------------------
(* What a comment of the code states and TLC refutes; the README says how. No *)
(* run checks it.                                                             *)

\* "A settled tombstone with no ledger therefore means effects have already
\* happened": once a verdict is acknowledged, and the connector forgets it,
\* every effect has run.
AckedMeansEffectsRan == acked # {} => ran = Effects

=============================================================================
