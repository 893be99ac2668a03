# Verification of the agent gateway of Grix

Grix lets people talk to coding agents. An agent runs next to its *connector*, which keeps
one WebSocket per owner to a backend node. The backend hands it *delegate events* (a
message to work on), hears back an ACK, streamed output and a terminal *result*, and tells
the owner's apps what the agent is doing. Several nodes share Redis and a database, so
every step of that conversation can happen on another node than the step before, twice, or
after a crash. Around it are a wallet that is topped up through PayPal, and the stream of
changes from which every device of a user rebuilds its local database.

This directory holds TLA+ modules translated from that code (`src/backend/internal` and the
parts of the Flutter app it talks to), TLC configurations that check them, and proofs for
TLAPS. `PROJECT.json` maps every definition to the lines it models.

## 1. Inventory

### Modelled

| Component | State | Operations | Where |
|---|---|---|---|
| Terminal settlement | ledger row, effect outbox rows, Redis delegate record (intent, tombstone), `chat_states` row | `event_result`, `event_stop_result`, commit transaction, effect drain, tombstone import, re-dispatch, running write | `packet_handlers.go`, `terminal_result_commit.go`, `durable_pending_delegate.go`, `store/agent_event_terminal_ledger_store.go`, `store/session_agent_state_store.go` |
| Dispatch tracking and retry | ledger seed, versioned Redis record, `m.pending` of each node, index of records per agent | registration, first send, rollback, retry claim / mark / send, forwarded retry, drain, ACK, retirement, seed sweep | `pending_event_tracker.go`, `event_router.go`, `guards.go`, `pending_dispatch_seed_sweeper.go` |
| Offline queue | Redis list per agent, deduplication key per event | enqueue, drain, put back | `delegate_queue.go` |
| Connection authority | epoch counter, authority hash, route and metadata leases, recorded agent state, table of connections per node, what the app shows | reserve, claim, attach, replace, heartbeat, inbound fence, kick, unregister, shutdown | `route_registry.go`, `ws_gateway.go`, `lifecycle.go`, `ws/handler/agent_state_sync.go`, `im_service_agent_state.dart` |
| Task row and stale-run sweep | `chat_states` row of a session, active runs of each node, ledger and Redis record of each run | running / waiting / resumed writes, verdict, sweeper of rows, sweeper of seeds, redelivery | `active_run_tracker.go`, `stale_run_sweeper.go`, `store/session_agent_state_store.go` |
| Payments | top-up order and wallet, pay order and refunds, the trade at PayPal | top-up, capture, redirect, webhooks, two reconcilers, `pay.order.paid`, credit, refund | `pay/service.go`, `pay/channel/paypal`, `api/service/gateway_topup*.go`, `gateway/wallet` |
| Sync stream | `user_sync_events`, `syncV2State` of a connection, generation, cursor and projection of a device | classic and compound writes, resume, drain, fold, ack, poll, batch application | `syncstream/`, `ws/handler/sync_v2.go`, `im_service_sync_v2.dart`, `local_db_sync_repository.dart` |

How they interact. A push (`pushDelegateEvent`) looks for the owner's connection, which the
*connection authority* has let in. If there is one, *dispatch tracking* seeds the ledger,
creates the Redis record, and sends; otherwise, or if that fails, the event goes to the
*offline queue*, which every heartbeat drains back into dispatch. The ACK moves the record
from stage `ack` to `result` and ends the retries. The result or stop turns the record into
an intent and then a tombstone (`settled`), and *terminal settlement* freezes the verdict in
the ledger, runs the effects (the last of them hands the notification on) and acknowledges. A connector keeps
a result in its outbox and sends it again until that acknowledgement. The *task row* is what the
owner sees of all this; when the connector or its node is gone the sweeper of some node ends it.
Messages reach the apps as hints over the WebSocket and for good through the *sync stream*.
*Payments* share nothing with the rest but the database.

### What is hard, and what makes it correct

* **Settlement** must decide *once*. Results, stops and replays race on several nodes; each
  reads a store, decides, writes the next. Correct: one frozen verdict; Redis, `chat_states`
  and every acknowledgement show it; effects run in order and before the acknowledgement; a
  late running write or an older run touches nothing newer; the connector is answered in the
  end.
* **Dispatch** must deliver *at least once but each attempt once*. Timers, drains, forwarded
  retries and duplicate dispatches hold different copies of the record. Correct: an attempt
  is written to the connector once; the record never moves back; a node's tracker is never
  ahead of it; nobody erases a record that is not theirs; an unacknowledged event is retried.
* **Queue**: correct if an accepted event is held somewhere, once.
* **Authority**: two sockets of one connector overlap on two nodes. Correct: the newest
  generation owns route, metadata and displayed state; nothing an old one does late brings
  it back; leases clean up after a crash.
* **Task row**: four kinds of writer without a lock, told apart by the `WHERE` clause of each.
  Correct: generations never fall; an ended row stays ended until a newer run; a verdict ends
  its row; the sweepers end what nobody vouches for and nothing that was just dispatched.
* **Payments**: three parties, each reads the state of another and writes it down later, and any
  answer may be lost. Correct: what PayPal took is never written off and is credited exactly once; refunds
  stay within the payment and the status of the order tells what they came to; no order is
  scanned for ever.
* **Sync**: a drain is four reads of a database that writers change between them; pages are
  folded; wake-ups are lost. Correct: the device has exactly what a replay of every row gives,
  never refuses a batch, and catches up by its heartbeat alone.

`PROJECT.json` lists the hazards that properties cover at their lines; section 4 has those that
TLC refutes or that no property speaks of.

### Not modelled

| Component | Why |
|---|---|
| Graceful drain of a node (`ws/server.go`, `manager.go`) | in the plan; `ConnectionAuthority` has the part that closes connections. Hard: one deadline for first sends that were admitted and connections that close |
| Event queue of agent commands (`event_queue.go`) | in the plan. Hard: a row is read, sent and marked as sent in three calls, so two heartbeats send it twice |
| Notification dispatcher, presence | in the plan: an at-most-once receipt over an at-least-once stream, a merge window for online and offline |
| Calls and voice bridge | in the plan; section 4 lists what a reading found. Hard: timers that fire after an unlock, persistence after an unlock |
| Output stop and its fence | in the plan; section 4. Hard: status messages sent after the unlock |
| Push workers | calls of the push providers; the retry of a task is that of NATS |
| Agent invocations, local actions, MCP sessions, approval cards, app hub | request handlers, a map under one lock, one-key Redis state, fan-out: no protocol of their own |
| Alipay and mock channels, charging of requests, virtual keys | further channels behind the interface whose PayPal side is modelled; single conditional updates |
| HTTP and admin API, adapters of the agent clients, user interface, deployment | CRUD, conversion of formats, packaging |

## 2. Modules

| Module | Role |
|---|---|
| `TerminalVerdict` | abstract promise: decide once, perform in order, acknowledge last |
| `TerminalSettlement`, `MCTerminalSettlement` | the settlement of one event by concurrent handlers; the second has `Promised`, the refinement of `TerminalVerdict` |
| `DispatchTracking`, `MCDispatchTracking` | one event on several nodes until its ACK |
| `OfflineQueue`, `MCOfflineQueue` | the list of a shared agent |
| `ConnectionAuthority`, `MCConnectionAuthority` | the connections of one agent and owner |
| `TaskRow` | the row of one session, its writers and the sweepers |
| `Payments`, `MCPayments` | one top-up from its order to credit and refunds |
| `SyncFold` | rows, pages, folding and the reducer of the app, as operators |
| `SyncStream` | writers, one connection at a time, one device, over `SyncFold` |
| `TerminalSettlement_proofs`, `DispatchTracking_proofs`, `OfflineQueue_proofs`, `ConnectionAuthority_proofs`, `TaskRow_proofs`, `Payments_proofs`, `SyncFold_proofs`, `SyncStream_proofs` | the theorems of section 5, one module per component |

**TerminalSettlement.** One event. `handlers` are the goroutines of packets; `pc` names the
next store call, so every pair of calls of two handlers interleaves. An action is one Lua
script, one transaction, or one database statement. `Abort` is a crash or a failed call at
any of them: what was written stays, the handler is gone. `Resolve`, `Claim`, `Reclaim`,
`Commit`, `Recommit`, `Import`, `Settle` follow `handleDurableEventResult`; `StopResolve`,
`StopCommit` follow `settleEventStopTerminal`; `Repair`, `Mark`, `Finish`, `Effect*`,
`Finalize`, `Ack` are their common tail. Around them the environment expires leases and the
Redis record, forgets the local tracker, starts newer runs, writes the late running state,
deletes the seed and dispatches the event again. `published` records who has handed the notification
on: the ledger's outbox, or an older node before the ledger existed.

**DispatchTracking.** `tasks` are goroutines of nine kinds, again one store call or one critical section of
`acksMu` per step. `then` and `exp` are what Go keeps on the stack: the expectation a
compare-and-delete was built from, the record that was read. A retry token is fresh per claim
and each claim raises `attempt`, so `life` (which record) and `attempt` stand for the token.
`StoreFails` fails the next call of a task; `Crash` loses a node's memory and its tasks;
`Reconnect` moves the connector. `book` has what no code keeps: `owed`, that a caller still has the event to push,
and `erased`, that a drain took a record for missing and deleted it; both only serve the properties, as does
`wire.received`, the first record that was acknowledged.

**OfflineQueue.** A drain pops, checks for a durable record, dispatches or holds, and puts back
one `LPUSH` at a time. A durable record is a member of `recorded`; what becomes of it is
`DispatchTracking`'s. `arrived` is the order of the latest arrivals (`Arrives`), for `OrderKept` alone.

**ConnectionAuthority.** Every connection has the goroutine of its socket (`pc`), possibly a
kick at the same time (`kick`), and `stateMu` (`mu`) between the two. The scripts of
`route_registry.go` are one action each; recording the state and telling the app are two, so
that messages of two nodes arrive in either order. `client` is the app behind its epoch gate.

**TaskRow.** `row` is the `chat_states` row, `runs` what each node keeps in memory. Every
background write is a job, enabled from its launch on and lost with its node; `TakesRow`, `Settled` and
the two card writes are the `WHERE` clauses of the statements. A sweeper reads the row (`ListStale`),
then checks memory, Redis and the ledger in three steps, then settles what it read (`Reap`): all of it
may be overtaken. Time is one action, `Age`: the threshold passes over what nobody touches.

**Payments.** `creator` is `GatewayCreateTopup` with `CreateOrder` inside; `procs` are handlers of
redirects, webhooks, refund requests and events (`Requests`) and the two loops, with what they have
read in `seen`. `trade` is PayPal: approval, review, denial, voiding, as its adapter maps them. A call that
changes PayPal may succeed, fail, or succeed with its answer lost. The sum of refunds is the number of their
units of money (`Units`, `Total`), a cardinality, so that it needs no recursion and can be reasoned about.

**SyncFold, SyncStream.** The log is a sequence of parts whose index is their cursor; `rows` holds the cursors at
which a row of the table ends. A page, folded or not, is the set of cursors whose parts it keeps. `Folded`,
`SessionBeforeUnread` and `Emit` are `fold.Page`; `ApplyPart` is the reducer with its version barrier, and a page
is applied by a recursive function over its cursors.
`node` and `phase` hold, per generation, the state of a connection and where its drain is: head, rows, batch.
Resumes, acknowledgements and batches are queues that a dropped connection empties.

### Simplifications

* *Settlement.* The three reads of a stop are one action (it decides on a snapshot the code
  might see torn). Claiming an effect and rereading its row is one. Turns that do not own a
  `chat_states` row and `ManualUpdateChatState` are left out. Tokens are the handlers: fresh
  per claim, and a handler holds one at a time.
* *Dispatch.* A drain's load and its look into `m.pending` are one action. A push forwarded to
  another node is the same push starting there. Settlement appears as `Close` and `Freeze`.
  Retention runs out (`Expire`) only for an entry that nothing is at work on. Commands are never
  queued or tracked, and are left out, as are records that do not decode.
* *Queue.* The TTLs of list and keys (48 h) are left out.
* *Authority.* One (agent, owner) pair; epoch 0 of legacy connections is left out. The three
  metadata writes are one, the two leases lapse together and not while their connection
  heartbeats; the 48 h TTL of state and epoch, and a resync of the app, are left out.
* *Task row.* One session. Only the nodes in `Sweepers` sweep. `Age` happens while no call is under way:
  the threshold is minutes longer than any. `ManualUpdateChatState`, output stops and the content of the
  activity messages are left out; `failed` is one more ended value.
* *Payments.* One top-up, PayPal only. Ages are hours and no call spans two of them (`GrowsOld`).
  Notifications that only repeat what a row says are left out, as are exchange rates and charging.
  A refund may stay `REFUNDING`: no loop looks at it (section 4).
* *Sync.* One session, one device. Left out: bootstrap, receipts of peers, pin and mute, membership,
  messages the app shows before the server has them, other sessions and the order of head locks, commands
  of other devices, a history reset that changes nothing.

## 3. Runs

| Run | Instance | Checks | Size |
|---|---|---|---|
| `settlement_refinement` | 2 handlers of the owner, 1 foreign, 2 verdicts, 2 effects, seeded | `ChatVerdictAgrees` `AckMatchesVerdict` `SettledRecordAgrees` `Promised` `VerdictImmutable` `ChatMovesForward` | 1.4 M states, 2 min |
| `settlement_legacy` | 2 handlers, 1 verdict, 1 effect, no seed, seeds may be deleted | `TombstoneNeverNotifies` | 2.2 M, 1 min |
| `settlement_liveness` | 2 handlers, 1 verdict, 2 effects, fairness | `EventuallyAcked` `SupersededNeverNotifies` | 0.26 M, 2 min |
| `dispatch_retry` | 2 nodes, 2 tasks, 2 attempts, 2 pushes, 1 fault | `TypeOK` `SentOncePerAttempt` `TrackerNeverAhead` `AcceptedIsTracked` `RecordMovesForward` | 1.5 M, 1.5 min |
| `dispatch_retire` | 2 nodes, 2 tasks, 1 attempt, 2 pushes, retention runs out, fresh tokens | `ErasesOwnRecord` | 1.9 M, 1.5 min |
| `dispatch_liveness` | 2 nodes, 2 tasks, 2 attempts, 1 push, 1 crash or move | `RetriedToTheEnd` | 0.17 M, 1 min |
| `queue_duplicates` | 3 tasks, 2 owners, each event pushed twice, 1 fault | `TypeOK` `QueuedOnce` | 2.1 M, 1.5 min |
| `authority_newest` | 2 connections, 2 nodes that may shut down, 3 faults | `LeasesFollowAuthority` `NewestServed` `NeverResurrected` | 0.48 M, 15 s |
| `authority_liveness` | 2 connections, 2 nodes, 1 fault, messages to the app may be lost, fairness | `StaleCloses` `GoneIsShown` | 0.17 M, 2 min |
| `payments` | 2 requests and both loops, amount 2, 2 refunds, 1 delivery, 1 fault, fairness | `TypeOK` `TakenNeverWrittenOff` `CreditIsBacked` `RefundsWithinPayment` `OrderTellsRefunds` `TakenIsCredited` `OrderLeavesScan` | 0.32 M, 2 min |
| `task_row` | 2 runs and 1 answer, 2 nodes of which 1 sweeps, 2 dispatches, 1 card, 1 fault, fairness | `RowMovesForward` `VerdictEndsRow` `SweepSparesNewRuns` `ZombieLeaves` | 0.28 M, 1 min |
| `sync_stream` | 2 messages, 1 command, pages of 3 rows, 3 writes before the device connects and 2 in all after, 2 generations, 1 database error, fairness | `TypeOK` `BatchesApply` `ReplayExact` `PagesKeepMeaning` `UnreadSettled` `CatchesUp` | 0.91 M, 1.5 min |

The type invariants of settlement, authority and task row, `ForeignInert` and `ReplacesOlder` are
proved (section 5) and in no run.

**What the runs show.** `settlement_refinement`: the ledger row is the decision of `TerminalVerdict`,
`ran` its performed effects; with a seed that may be deleted this fails (section 4, import race), so the
run has seeds that stay. `settlement_legacy`: however an event of an older node is imported, stopped or dispatched
again, it notifies once. `dispatch_retry`: no attempt is sent twice and no accepted event lost with a fault
at any step; a settled record is not followed beyond its commit (`MayFreeze`), which `dispatch_retire` does.
`authority_newest`: with two generations overlapping anywhere, the newer is the one reached and shown.
`payments`: with any webhook, redirect or event lost, the two reconcilers settle the order and credit the wallet.
`task_row`: late writes and stale sweepers change only what is theirs, and a dead run does not show for ever.
`sync_stream`: split or folded, in one generation or two, the device ends with the replay of the rows.

**Bounds, and why they are enough.** Two own handlers exhibit every race between two packets; a third
would wait at the same conditional updates. Two verdicts make a conflict; two effects make an
order and a half-drained outbox. Two nodes with two tasks give each race of "read here, write
there"; two attempts a stale retry, two pushes a record created anew. One fault per run puts a
crash or a failed call at any step. The queue needs three tasks for two drains and a push. Two
connections make an old and a new generation. Two runs of a session make an old and a new one, and the
answer a row that waits. A refund of 1 of 2 and one of the rest make partial and full refunds in both orders; two
requests race with each other and with both loops. Three rows before the first connection fill more than a
page of classic events and give folding something to drop; two generations make a stale batch. That nothing depends on the
number of handlers, connections, tasks, nodes, requests, writes and generations is proved: of every invariant and every
action property that a run checks there is a theorem in section 5.
Symmetry is used for safety only, among handlers of the owner, verdicts, tasks, connections and nodes,
none of which the specifications tell apart; no run with fairness uses it.

**Deadlock.** Settlement and queue runs check for it. The others do not (`CHECK_DEADLOCK FALSE`), because there
the system comes to rest: the connector may be gone for good with the bounds used up, every connection
has ended, an order is settled and its refunds are done, all runs have ended, or the device is at the head
with no writes left.

**Fairness.** *Settlement*: a handler that runs goes on (weak), leases end (weak), and a connector
resends until acknowledged (the code's ACK contract); aborts are free. `EventuallyAcked`
therefore speaks of behaviours in which, from some point on, no handler dies and no lease of a running handler ends.
It is checked with one verdict: with two, a connector that insists on another verdict than
the frozen one is refused for ever, which the code intends. *Dispatch*:
tasks run (weak); timers and heartbeat drains are strongly fair, for Go starts them in a goroutine
of their own while the model makes them wait for one of its tasks. *Authority*: socket
goroutines run and leases expire (weak); heartbeats and kicks are strongly fair since they wait for
`stateMu` or a quiet moment of the socket, which comes again and again. *Task row*: goroutines, timers,
sweepers and the threshold (weak); nothing makes a connector report or an owner write, so `ZombieLeaves` rests
on the sweepers alone. *Payments*: handlers that have begun, the tickers of both loops and PayPal's review (weak); time
(strong, since `GrowsOld` waits for a pause of the loop); redirects, webhooks and the event get none, for each may be lost.
*Sync*: a drain goes on, queues are read, the heartbeat polls and a dropped connection comes back (weak); wake-ups get
none. `CatchesUp` excepts two states in which nothing under way would bring an answer: an acknowledgement or resume that
could not be recorded (`Unanswered`), and a resume at the head whose drain failed (`GaveUpAtHead`): the app does not ask
again until it reconnects.

## 4. Where the code differs from its comments

These statements of comments are defined at the end of their modules and are in no run. TLC
refutes each, in the configuration named or a variant of it.

* `AckedMeansEffectsRan` (`settlement_legacy` with `SeedMayVanish = FALSE`), *import race*,
  `packet_handlers.go:312-315`. A result reads "no ledger row"; a stop commits the row
  and writes the tombstone; the result finds the tombstone, takes the event for one of an older node, and
  acknowledges although no effect has run. If the stop dies there nothing runs them: the connector has
  forgotten the event. The comment (`terminal_result_commit.go:188-191`) holds that such a tombstone
  means the effects have happened.
* `NeverResetToAck` (`dispatch_retry` with `MaxAttempts = 1`, `MayFreeze = TRUE`), `durable_pending_delegate.go:996`.
  `loadDurablePendingDelegate` returns false for an error as for a missing record, and the drain deletes
  without comparing. An event acknowledged meanwhile is dispatched again from stage `ack`. The same deletion loses an event for good
  if the push that created the record died on the way; and if the seed stays, it lets a later dispatch reuse the generation, so that
  a rollback under way deletes the new record. `AcceptedIsTracked` and `RecordMovesForward` except this deletion (`book.erased`,
  `drainDelete`): without that TLC refutes the first with three faults on a node.
  `ErasesOwnRecord` is stated of dispatches with a commit token of their own, which never reuse a generation; with `SharedToken = TRUE`
  and three faults TLC refutes it.
* `TrackerNeverAhead` without `FirstReceived` (`dispatch_retry` with three tasks and one attempt). The handler of an ACK advances the record in one call and
  moves the tracker in another; the second (`Received`) checks the tracker, not which record it mirrors by then. If the acknowledged record was deleted
  in between and the event dispatched again, the tracker of the new record is ahead of it, in stage `result`, and its retries end.
  The property therefore speaks of a record before which none was acknowledged; the proof shows that it needs no other exception.
* `AcceptedIsHeld` (`queue_duplicates` with 2 tasks and no fault), `delegate_queue.go:62`, `:150`. A push is told
  "already queued" by a key whose copy a drain has just dropped because of that push's own record, which it
  had rolled back.
* `AliveIsOpen` (`task_row`). The comment at `session_agent_state_store.go:99-101` says a delayed running write never
  regresses a row that a terminal result has reached first. The verdict inserts a row where there is none; but when the row still
  shows an *earlier* run the verdict finds nothing of its own and changes nothing, and the late write then shows the
  ended run as running, until a sweeper ends it (`ZombieLeaves`). The same happens to an event of another member
  of a group (`Members = {m1}`), whose verdict never settles the row.
* `WindowCloses` (`sync_stream` with one write and one failing load). `_sendSyncV2Resume` (`im_service_sync_v2.dart:167-168`)
  relies on a batch in answer to every resume; a drain that fails at the head sends none.
* `RollbackSparesReceived` (`dispatch_retry`). The rollback of a failed first send
  (`pending_event_tracker.go:1141`) takes what it deletes from the tracker of that moment, so it erases
  an event a retry has delivered; the comment at `:1130` speaks of "this registration".
* `ExposedHasSeed` (`dispatch_retry`). A rollback deletes the seed a second dispatch adopted with the same
  generation, though `agent_event_terminal_ledger_store.go:162-164` wants the snapshot before exposure.
* `AcceptedIsTracked` holds with one commit token per event and fails with `SharedToken = FALSE` and two faults: a fresh
  token (`event_router.go:280`) makes the second dispatch of a seeded event "existing", so it succeeds with nothing sent.
* `OrderKept` (`queue_duplicates` with `ThreeEvents`, `OwnerOfThree`): two drains put back in turn (`delegate_queue.go:159`).
* `OwnBacklogDrained` (under `FairSpec`): events of an owner who is away fill each batch
  (`ws_gateway.go:858-860` speaks of isolation by owner; the list is one per agent).
* `InboundFenced`, `OfflinePublished`, `FanoutGated` (`authority_newest`): a check, then the step it
  guards (`ws_gateway.go:442`, `:806`, `ws/server.go:727`). The first is what a check before a handler
  can give. The other two are mended by the lease and by the app's epoch gate, which
  `GoneIsShown` and `NewestServed` check.

Seen while reading, with no property:

* *Settlement*: nothing but a resent result drains the effects of a frozen row (`terminal_result_commit.go:426`,
  which also counts four effects where there are five); the notification receipt is claimed before the push.
* *Dispatch and queue*: `ZREM` after the record's deletion (`durable_pending_delegate.go:956`) may unindex a newer record; a crash
  after `LPOP` or a failed `LPUSH` loses an event, and its deduplication key stays for 48 hours, as do those of events dropped
  beyond 512 entries.
* *Authority*: a connection superseded from another node leaves its MCP sessions behind; the snapshot for a connecting app is read, then
  sent after a newer state of the same generation.
* *Task row*: the sweeper ends a run that outlives the threshold without output, and a run whose record was
  redelivered; a waiting write that comes late makes the row of a newer run wait, since it names only the session; a waiting row is
  never swept; a turn of another member shows as the owner's task.
* *Output stop*: the status revision is drawn after the unlock, and a status that comes late recreates the entry of an ended
  output in the app (`im_service_agent_state.dart:746-893`); a failed `DispatchOutputStop` leaves the stop accepted; a new
  registration removes the fence of the old one.
* *Payments*: an order may be refunded and credited, since the refund does not look at the wallet; the closing of an order sends an event that nobody
  subscribes to; a refund whose answer is lost, or which PayPal takes back, stays `REFUNDING` (`service.go:350`).
* *Sync*: an acknowledgement that could not be recorded, and a failed resume, leave the device waiting until the connection drops.
* *Calls*: `onRingTimeout` checks `RINGING`, unlocks and then ends the call, which may have been answered meanwhile, though its comment says it
  prevents that; `Answer` and `AnswerWithAI` persist after the unlock and may revive an ended row; a rollback of `Takeover`, `HandBack` or
  `AnswerWithAI` overwrites newer state and can leave a call without a timer; `promote` of the queue drops a visitor whose
  invitation fails, and an expiring visitor may be told so while already in a call (`call_queue.go`).

## 5. Proofs

Proved by TLAPS, from the named assumptions on the constants alone unless the table says more:

| Theorem | States |
|---|---|
| `TerminalSettlement_proofs!InvariantHolds`, `TypeCorrect` | `IInv` and `TypeOK` hold always |
| `AcknowledgedIsFrozen` | `AckMatchesVerdict` |
| `VerdictNeverChanges` | `VerdictImmutable` |
| `SettledRecordShowsVerdict` | `SettledRecordAgrees`, if the event was seeded |
| `ForeignIsInert` | `ForeignInert` |
| `ChatShowsVerdict` | `ChatVerdictAgrees`, if the event was seeded |
| `ChatOnlyMovesForward` | `ChatMovesForward` |
| `TombstoneIsQuiet` | `TombstoneNeverNotifies` |
| `SettlesAsPromised` | `Promised`: the implementation of `TerminalVerdict`, if the event was seeded and seeds stay |
| `SupersededIsQuiet` | `SupersededNeverNotifies`, if the event was seeded and seeds stay |
| `DispatchTracking_proofs!InvariantHolds` | `DInv` |
| `SentOnce` | `SentOncePerAttempt` |
| `RecordsMoveForward` | `RecordMovesForward` |
| `AcceptedStaysTracked` | `AcceptedIsTracked`, if dispatches share one commit token and within retention (`SharedToken`, `~MayExpire`) |
| `DispatchTracking_proofs!TypeCorrect`, `NeverAhead` | `TypeOK`, `TrackerNeverAhead` |
| `NoneElsesRecord` | `ErasesOwnRecord`, if every dispatch has a commit token of its own (`~SharedToken`) |
| `OfflineQueue_proofs!TypeCorrect`, `NeverQueuedTwice` | `TypeOK`, `QueuedOnce` |
| `ConnectionAuthority_proofs!TypeCorrect` | `TypeOK` |
| `LeasesFollow` | `LeasesFollowAuthority` |
| `NeverResurrects` | `NeverResurrected` |
| `ConnectionAuthority_proofs!ReplacedIsOlder` | `ReplacesOlder`: the second comparison of epochs in `attachConnAdmitted` never refuses |
| `NewestIsServed` | `NewestServed`, if states of the agent are not lost (`MayMissState = FALSE`) |
| `TaskRow_proofs!InvariantHolds`, `TypeCorrect` | `IInv` and `TypeOK` |
| `RowOnlyMovesForward`, `VerdictsEndTheirRow`, `SweepersSpareNewRuns` | `RowMovesForward`, `VerdictEndsRow`, `SweepSparesNewRuns` |
| `Payments_proofs!InvariantHolds`, `TypeCorrect` | `IInv` and `TypeOK` |
| `TakenStaysOpen`, `CreditOnceAndBacked` | `TakenNeverWrittenOff`, `CreditIsBacked` |
| `RefundInvariantHolds` | `RefundInv` |
| `NeverRefundsTooMuch`, `OrderTellsItsRefunds` | `RefundsWithinPayment`, `OrderTellsRefunds` |
| `SyncFold_proofs!KeptMeansAll` | a page of which only some parts are kept (`Keeps`) means what the whole page means, over any log |
| `SyncStream_proofs!TypeCorrect` | `TypeOK` |
| `BatchesAlwaysApply` | `BatchesApply` |
| `ReplayIsExact` | `ReplayExact` |
| `PagesMeanTheirRows` | `PagesKeepMeaning` |
| `UnreadIsSettled` | `UnreadSettled` |

*Settlement.* `AckMatchesVerdict` is not inductive: an acknowledgement takes the verdict from the
handler. `IInv` therefore adds `HandlersAgree` (a handler past its commit carries the ledger's verdict, because
commit compares, and a frozen status stays: lemma `FrozenStays`) and `RecordHasVerdict` (an
import takes the verdict from the Redis record). The step is proved per action, types first
(`HandlerStepType`, `TypeStep`), then the acting handler (`ActorAgrees`), bystanders
(`OthersUntouched`, `BystanderAgrees`), the record and the acknowledgements.
`VerdictImmutable` follows from `FrozenStays`. `SettledRecordAgrees` gets an induction of its own: only `Settle` and `Repair` write the
stage `settled`, past a commit. The three statements on `chat_states` share one lemma, `ChatWriters`: a step leaves the row alone
(`ChatStays`), settles it along with the verdict (`Settling`), is the running write, or is a newer run. `TombstoneIsQuiet` has the
invariant `TombstoneQuiet` (no commit may allow the notification while no run was dispatched since) and a lemma on the steps that begin
no dispatch (`Quiet`).

*Refinement.* Effects "in order" is a statement on `ran`, which no handler reads: a handler believes the outbox rows and the row of
the ledger. `DrainInv` says what those stand for: a row that is done means its effect ran (`DoneHasRun`), a handler at effect *e* has
every effect before *e* behind it and one that is to acknowledge all of them (`Drains`), and the row of a seeded event never goes missing,
so that nobody imports (`RowStays`). With it every step is a `Decide` (commit), a `Perform` (`EffectRun`), an `Acknowledge` or unseen
(`ActorPromised`, `StepPromised`).

*Dispatch.* A retry token is `life` and `attempt`, and `SentOncePerAttempt` needs that none comes back. `Known` says that every token in
hand, in an envelope or sent is `Past`: of a record not newer than the last, and, while that record is live, of an attempt it has counted.
`Unique` then says that no two goroutines are in flight with one token (who marks a claim finds it unmarked) and that what they are about to
send was not sent, `Marked` that the record still shows the mark. `Moves` treats at once the many steps that touch neither record nor wire.
`AcceptedIsTracked` has the invariant `AInv`: while the event is `Lost` to every store, some push `Answers` for it, for a push only stops
answering when it has sent, has handed the event back (`HandsBack`), or has seen the record of another (`LeavesEvent`). `ErasesOwnRecord` has
`GInv`: of all generations and lives held together anywhere (`Pair`), equal generations have equal lives, since only `Create`
makes a new pair and its generation is in nobody else's hands.

*Queue.* A copy of an event is in the list, with a drain, or about to be appended by a push. The invariant says there is at most one, and that whoever
holds it knows the deduplication key to be set; only the holder removes the key, so no push can append a second.

*Authority.* `TypeOK` needs `Placed`: a reserved connection knows its node, and a replacing one
whom it replaces, or the node's table would be looked up outside its domain. `AuthorityMoves`
states what any step does to the authority hash (stays, moves up to a reserved generation with the
leases reset, or is released), and both theorems follow from it. `NewestServed` needs the invariant `Order`: generations are distinct and at most the
counter (`Numbered`); who is in a table is on that node and has claimed (`Tabled`); a node only replaces an older one (`Attached`);
the newest holds authority and route while it is in a table (`Held`); record and app show no generation beyond it, and once it has announced
itself show it (`Told`). Steps are grouped by what they do to a connection (`Within`, `Fades`, `Takes`, `Enters`, `Quits`, `Shows`), one lemma each, and
a crash and the expiries have their own.

*Task row.* `RowMovesForward` needs that whoever carries a generation was dispatched with it. `Accounted` bounds all generations by the sequence,
`OnlyDispatched` says that a run in hand was sent, `GenerationsAgree` that a write under way, the ledger and the row have
the same generation for the same run, `SweepsOldRuns` that a sweeper past its checks holds a run beyond the threshold.

*Payments.* What a reconciler has read may be out of date when it is written down. `ReadHolds` and `RecordsHold` say that it is final or cannot
be overtaken before: a closing of a stale order is recorded only while PayPal no longer lets the user approve (`Unpayable`). `PaidIsTaken` and
`RowTellsCredit` carry this to the wallet.

*Types.* Of dispatch and queue, `TypeOK` is not inductive: a task has what its next call needs (`Placed`, `TInv`), an unused identity is left for
a new tracker, and no seed or record is numbered beyond the dispatches that make one.

*Trackers.* `NeverAhead` rests on `VInv`: what a goroutine has read of a record, and a tracker that mirrors one, is `Behind` the record as it is
now, and who handles an ACK holds what it wrote. A step either takes the record on (`RecordGoesOn`) or begins a new one (`RecordBegins`).

*Superseded runs.* `SupersededNeverNotifies` says of every moment what holds ever after it. `GensStop` (one dispatch, so one generation; no permission
before the verdict) gives `TakenOver` at that moment, which every step keeps: only the transaction that freezes the verdict of a row that is not taken
over grants the permission.

*Refunds.* `RefundInv` says that at most the last refund is open, that a handler about to ask PayPal, to apply its answer or to write the order
knows the sum of those before (`Asks`, `Applies`, `Concludes`), and that no two do the first or the last at a time (`Alone`). Sums being cardinalities, what a row adds is a
fact about disjoint finite sets.

*Folding.* `KeptMeansAll` compares the projection after a whole page with that after the kept parts, cursor by cursor (`SoFar`): both know the same
of every entity of which no kept part is still to come, and what differs is superseded later in the page. `Keeps` states what must be kept: removals, the last part of an
entity, a receipt with it, an upsert before a later unread count. `FoldKeeps` shows that `Folded` and `SessionBeforeUnread` keep it, `EmittedPage` and `ClassicPage` that
compound and classic events hold just that.

*Sync.* None of the five invariants is inductive. `Inv` adds: versions ascend along the log and no counter lags behind (`LogInv`); a drain that is about to
send holds a page of its rows (`NodeInv`); resumes come in the order of their generations, and a batch that ends at the head carries the count of the database (`Flow`); for
the device's generation one batch or one acknowledgement is under way, about its cursor (`HandInv`); and the device is behind everything that is to come (`Data`). The
proof goes by writer (each appends parts and moves the counters alike, `WriteMoves`), by step of the node, and by what the device does.

*Induction over data.* The library's induction theorems take an operator, which cannot be instantiated here. For natural numbers the well-foundedness of `<` does
instead (`OneByOne`, `CursorByCursor`: a set with its first element that goes on with each next one has them all), and so what the recursive function in `ApplyParts` comes to
is proved for pages of any length.

*Only model-checked.* What must happen eventually: `EventuallyAcked`, `RetriedToTheEnd`, `StaleCloses`, `GoneIsShown`, `TakenIsCredited`, `OrderLeavesScan`, `ZombieLeaves`,
`CatchesUp`. Fairness is about `ENABLED`, which the provers cannot expand. Every invariant, every action property and the refinement that a run checks has its theorem.

## 6. Plan

1. *Extend.* A crash after `LPOP` and overflow in `OfflineQueue`, composed with dispatch tracking; the output stop with its fence
   over `TaskRow`; the call controller (abstract: a call is in one state, has a timer until it ends, and an ended row stays ended); the
   notification dispatcher (abstract: at most once per key and channel; `TerminalSettlement` is its producer); the graceful drain of a node; the queue of commands.
2. *Prove.* An abstract specification of the sync stream (a device's database is the replay of a prefix of the log that only grows), implied by
   the lemmas on `ApplyBatch`; safety properties on which the liveness arguments rest, such as that a pending batch always has its acknowledgement or answer under way, but for `Unanswered`.
