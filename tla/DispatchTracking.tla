--------------------------- MODULE DispatchTracking ---------------------------
(***************************************************************************)
(* Dispatch of one agent event until its connector acknowledges it         *)
(* (ws/agentapi: pending event tracker, durable record, event router).     *)
(*                                                                         *)
(* An event is tracked three times: a ledger seed in the database, a       *)
(* versioned Redis record shared by all nodes, and one entry in the memory *)
(* of each node that dispatched or recovered it.  Dispatches, retry and    *)
(* retirement timers, heartbeat drains, forwarded retries, ACKs and the   *)
(* seed sweep run concurrently on every node; each of their steps is one   *)
(* store call or one critical section of acksMu.                           *)
(***************************************************************************)
EXTENDS Naturals, FiniteSets

CONSTANTS
  Nodes, NoNode,
  Tasks,         \* goroutines at work on the event at the same time
  MaxAttempts,   \* agentAPIDeliveryMaxAttempts
  MaxPushes,     \* bound: dispatches of the event
  MaxFaults,     \* bound: crashes, moves of the connection, failed calls
  SharedToken,   \* every dispatch carries the same terminal commit token (or none)
  MayExpire,     \* tracking retention may run out
  MayFreeze      \* bound: a settled event is followed beyond its commit

ASSUME ConstantsAssumption ==
  /\ NoNode \notin Nodes
  /\ MaxAttempts \in Nat \ {0} /\ MaxPushes \in Nat \ {0} /\ MaxFaults \in Nat
  /\ IsFiniteSet(Nodes) /\ IsFiniteSet(Tasks)
  /\ SharedToken \in BOOLEAN /\ MayExpire \in BOOLEAN /\ MayFreeze \in BOOLEAN

VARIABLES
  seed,      \* agent_event_terminal_ledger row of the event
  record,    \* Redis delegate record
  pending,   \* m.pending of each node
  conn,      \* node that holds the authoritative connection
  index,     \* the agent's index of records to drain lists the event
  envelopes, \* retries forwarded to another node
  tasks,     \* goroutines
  wire,      \* packets handed to the connection, and the first record whose ACK was
             \* recorded
  book       \* owed: some caller still has the event to push; erased: a drain has
             \* deleted a record it could not read; and the bounds

vars == <<seed, record, pending, conn, index, envelopes, tasks, wire, book>>

Gens == 0..MaxPushes
Lives == 0..MaxPushes
Attempts == 0..MaxAttempts
Ids == 0..(Cardinality(Nodes) + Cardinality(Tasks) + 1)

\* stage "closed" stands for terminal intent and settled. A retry token is fresh
\* per claim, and every claim increments attempt: life, which counts the records
\* created for the event, and attempt identify it; claimed says that one is set.
Record == [stage : {"none", "ack", "result", "closed"}, version : Nat,
           attempt : Attempts, gen : Gens, life : Lives,
           claimed : BOOLEAN, leased : BOOLEAN, dispatched : BOOLEAN]
NoRecord == [stage |-> "none", version |-> 0, attempt |-> 0, gen |-> 0, life |-> 0,
             claimed |-> FALSE, leased |-> FALSE, dispatched |-> FALSE]

\* id is the identity of the entry in memory, 0 without one. expired:
\* trackingExpireAt has passed. life is that of the record it mirrors.
Entry == [id : Ids, stage : {"ack", "result"}, version : Nat, attempt : Attempts,
          gen : Gens, life : Lives, created : BOOLEAN, expired : BOOLEAN]
NoEntry == [id |-> 0, stage |-> "ack", version |-> 0, attempt |-> 0, gen |-> 0,
            life |-> 0, created |-> FALSE, expired |-> FALSE]

Kinds == {"none", "push", "timeout", "retire", "drain", "resume", "hold", "forwarded",
          "ack", "sweep"}
PCs == {"idle", "seed", "create", "track", "send", "rollback", "rollbackDelete",
        "rollbackDrop", "unindex", "deleteSeed", "load", "adopt", "sync", "recover", "claim",
        "bump", "mark", "recheck", "retrySend", "release", "drainDelete",
        "retireCheck", "retireDelete", "advance", "received", "sweepCheck"}

\* then: where to go after a load. id: entry in hand. exp: what that entry
\* was when it was read (pendingDurableExpectation). rec: last record read.
\* attempt, life: the retry token in hand. gen, created: the seed in hand.
Task == [pc : PCs, then : PCs, kind : Kinds, node : Nodes \cup {NoNode}, id : Ids,
         exp : Entry, rec : Record, attempt : Attempts, life : Lives,
         gen : Gens, created : BOOLEAN]
Idle == [pc |-> "idle", then |-> "idle", kind |-> "none", node |-> NoNode, id |-> 0,
         exp |-> NoEntry, rec |-> NoRecord, attempt |-> 0, life |-> 0,
         gen |-> 0, created |-> FALSE]

TypeOK ==
  /\ seed \in [status : {"absent", "pending", "frozen"}, gen : Gens, old : BOOLEAN]
  /\ record \in Record
  /\ pending \in [Nodes -> Entry]
  /\ conn \in Nodes \cup {NoNode}
  /\ index \in BOOLEAN
  /\ envelopes \subseteq [node : Nodes, life : Lives, attempt : Attempts]
  /\ tasks \in [Tasks -> Task]
  /\ wire \in [sent : SUBSET (Lives \X Attempts), twice : BOOLEAN, received : Lives]
  /\ book \in [owed : BOOLEAN, erased : BOOLEAN, pushes : 0..MaxPushes, gens : Gens,
               lives : Lives, faults : 0..MaxFaults]

Init ==
  /\ seed = [status |-> "absent", gen |-> 0, old |-> FALSE]
  /\ record = NoRecord
  /\ pending = [n \in Nodes |-> NoEntry]
  /\ conn \in Nodes /\ index = FALSE /\ envelopes = {}
  /\ tasks = [t \in Tasks |-> Idle]
  /\ wire = [sent |-> {}, twice |-> FALSE, received |-> 0]
  /\ book = [owed |-> TRUE, erased |-> FALSE, pushes |-> 0, gens |-> 0, lives |-> 0,
             faults |-> 0]

-----------------------------------------------------------------------------
Delivered == wire.sent # {}
At(t, label) == tasks[t].pc = label
Node(t) == tasks[t].node
Mine(t) == pending[Node(t)]
Goto(t, label) == tasks' = [tasks EXCEPT ![t].pc = label]
GoOn(t, label) == tasks' = [tasks EXCEPT ![t].pc = label, ![t].rec = NoRecord]
LoadThen(t, label) ==
  tasks' = [tasks EXCEPT ![t] = [Idle EXCEPT !.pc = "load", !.then = label,
              !.kind = tasks[t].kind, !.node = tasks[t].node, !.id = tasks[t].id]]
End(t) == tasks' = [tasks EXCEPT ![t] = Idle]
Start(t, n, kind, label) ==
  /\ At(t, "idle")
  /\ tasks' = [tasks EXCEPT ![t] = [Idle EXCEPT !.pc = label, !.kind = kind, !.node = n]]

\* An identity no entry and no goroutine refers to.
FreshId ==
  CHOOSE i \in Ids \ {0} : /\ \A n \in Nodes : pending[n].id # i
                           /\ \A t \in Tasks : tasks[t].id # i

Fault == book.faults < MaxFaults /\ book' = [book EXCEPT !.faults = @ + 1]

SwallowsFailure(t) == book   \* mutant: reports a rolled back dispatch as accepted

\* A push that could not dispatch hands the event back: it is forwarded or
\* goes to the offline queue, and comes back as another push.
PushFailed(t) == IF tasks[t].kind = "push" THEN [book EXCEPT !.owed = TRUE] ELSE book

\* A store call of a goroutine fails.
CallFails(t) ==
  /\ book.faults < MaxFaults
  /\ book' = [PushFailed(t) EXCEPT !.faults = @ + 1]

\* loadDurablePendingDelegate returns r: a failed read looks like a missing record.
Loads(r) ==
  \/ r = record /\ UNCHANGED book
  \/ r = NoRecord /\ record # NoRecord /\ Fault

SameAttempt(e, r) ==   \* mutant: leaves out the generation
  e.version = r.version /\ e.stage = r.stage /\ e.attempt = r.attempt

\* pendingMatchesDurableVersion and deleteDurableIfUnchangedScript.
SameVersion(e, r) ==
  e.version = r.version /\ e.stage = r.stage /\ e.attempt = r.attempt /\ e.gen = r.gen

\* syncPendingEventFromDurable on entry e, of a goroutine that holds identity i.
Synced(e, i, r) ==
  IF i = 0 \/ e.id # i \/ r.stage = "none" \/ r.version < e.version THEN e
  ELSE IF r.stage = "closed" THEN NoEntry
  ELSE [e EXCEPT !.stage = r.stage, !.version = r.version, !.attempt = r.attempt,
                 !.gen = r.gen, !.life = r.life, !.expired = FALSE]

\* recoverPendingFromDurable: a local entry at least as new as the record stays.
Recovered(e, r) ==
  IF \/ r.stage \notin {"ack", "result"}
     \/ /\ e.id # 0
        /\ \/ e.version > r.version
           \/ e.version = r.version /\ (e.stage = "result" \/ r.stage = "ack")
  THEN e
  ELSE [id |-> FreshId, stage |-> r.stage, version |-> r.version, attempt |-> r.attempt,
        gen |-> r.gen, life |-> r.life, created |-> FALSE, expired |-> FALSE]

-----------------------------------------------------------------------------
(* Dispatch (dispatchDelegateEventWithAttempt)                               *)

StartPush(t, n) ==
  /\ conn = n /\ book.pushes < MaxPushes
  /\ Start(t, n, "push", "seed")
  /\ book' = [book EXCEPT !.pushes = @ + 1, !.owed = FALSE]
  /\ UNCHANGED <<seed, record, pending, conn, index, envelopes, wire>>

\* SeedAgentEventDispatchLedger. A frozen row, or a pending row of another
\* commit token, makes the registration "existing": the push succeeds.
Seed(t) ==
  /\ At(t, "seed")
  /\ \/ /\ seed.status = "frozen" \/ (seed.status = "pending" /\ ~SharedToken)
        /\ End(t)
        /\ UNCHANGED <<seed, book>>
     \/ /\ seed.status = "pending" /\ SharedToken
        /\ tasks' = [tasks EXCEPT ![t].pc = "adopt", ![t].gen = seed.gen]
        /\ UNCHANGED <<seed, book>>
     \/ /\ seed.status = "absent"
        /\ seed' = [status |-> "pending", gen |-> book.gens + 1, old |-> FALSE]
        /\ book' = [book EXCEPT !.gens = @ + 1]
        /\ tasks' = [tasks EXCEPT ![t].pc = "create", ![t].gen = book.gens + 1,
                                  ![t].created = TRUE]
  /\ UNCHANGED <<record, pending, conn, index, envelopes, wire>>

\* An adopted seed whose record exists is only recovered, never sent again.
Adopt(t) ==
  /\ At(t, "adopt")
  /\ \E r \in {record, NoRecord} :
       /\ Loads(r)
       /\ IF r.stage # "none" THEN LoadThen(t, "recover") ELSE Goto(t, "create")
  /\ UNCHANGED <<seed, record, pending, conn, index, envelopes, wire>>

CreateOverwrites(t) ==   \* mutant: SET instead of the create script
  /\ At(t, "create")
  /\ record' = [NoRecord EXCEPT !.stage = "ack", !.version = 1, !.attempt = 1,
                                !.gen = tasks[t].gen, !.life = book.lives + 1]
  /\ book' = [book EXCEPT !.lives = @ + 1]
  /\ tasks' = [tasks EXCEPT ![t].pc = "track", ![t].life = book.lives + 1]
  /\ index' = TRUE
  /\ UNCHANGED <<seed, pending, conn, envelopes, wire>>

\* createDurablePendingDelegateScript never replaces a record. A fresh seed over
\* a settled record is frozen with its verdict.
Create(t) ==
  /\ At(t, "create")
  /\ \/ /\ record.stage = "none"
        /\ record' = [NoRecord EXCEPT !.stage = "ack", !.version = 1, !.attempt = 1,
                                      !.gen = tasks[t].gen, !.life = book.lives + 1]
        /\ book' = [book EXCEPT !.lives = @ + 1]
        /\ tasks' = [tasks EXCEPT ![t].pc = "track", ![t].life = book.lives + 1]
        /\ index' = TRUE
        /\ UNCHANGED seed
     \/ /\ record.stage # "none"
        /\ seed' = IF record.stage = "closed" /\ tasks[t].created /\ seed.status = "pending"
                   THEN [seed EXCEPT !.status = "frozen"] ELSE seed
        /\ LoadThen(t, "recover")
        /\ UNCHANGED <<record, index, book>>
     \/ /\ CallFails(t)                              \* undo the seed
        /\ IF tasks[t].created THEN Goto(t, "deleteSeed") ELSE End(t)
        /\ UNCHANGED <<seed, record, index>>
  /\ UNCHANGED <<pending, conn, envelopes, wire>>

\* The local entry replaces whatever entry is there.
Track(t) ==
  /\ At(t, "track")
  /\ pending' = [pending EXCEPT ![Node(t)] =
                   [id |-> FreshId, stage |-> "ack", version |-> 1, attempt |-> 1,
                    gen |-> tasks[t].gen, life |-> tasks[t].life,
                    created |-> tasks[t].created, expired |-> FALSE]]
  /\ tasks' = [tasks EXCEPT ![t].pc = "send", ![t].attempt = 1]
  /\ UNCHANGED <<seed, record, conn, index, envelopes, wire, book>>

\* sendDelegateEventAttempt: the packet is written, unless the connection has
\* lost its authority or its queue is full.
Sends(t) ==
  LET packet == <<tasks[t].life, tasks[t].attempt>> IN
  /\ conn = Node(t)
  /\ wire' = [wire EXCEPT !.sent = @ \cup {packet},
                          !.twice = @ \/ packet \in wire.sent]
  /\ UNCHANGED book

SendFails(t) ==
  /\ IF conn = Node(t) THEN Fault ELSE UNCHANGED book
  /\ UNCHANGED wire

Send(t) ==
  /\ At(t, "send")
  /\ \/ Sends(t) /\ End(t)
     \/ /\ SendFails(t)
        /\ tasks' = [tasks EXCEPT ![t] = [Idle EXCEPT !.pc = "rollback",
                                            !.kind = "push", !.node = Node(t)]]
  /\ UNCHANGED <<seed, record, pending, conn, index, envelopes>>

\* rollbackPendingEventAck: delete the record if nobody changed it, then the
\* entry if nobody changed that, then the seed if this registration created it.
Rollback(t) ==
  /\ At(t, "rollback")
  /\ IF Mine(t).id = 0 THEN End(t) /\ book' = PushFailed(t)
     ELSE /\ tasks' = [tasks EXCEPT ![t].pc = "rollbackDelete", ![t].id = Mine(t).id,
                                    ![t].exp = Mine(t)]
          /\ UNCHANGED book
  /\ UNCHANGED <<seed, record, pending, conn, index, envelopes, wire>>

\* deleteDurablePendingDelegateIfUnchanged succeeds on a missing record.
Unchanged(e) == record.stage = "none" \/ SameVersion(e, record)

RollbackDelete(t) ==
  /\ At(t, "rollbackDelete")
  /\ IF Unchanged(tasks[t].exp)
     THEN record' = NoRecord /\ Goto(t, "unindex")
     ELSE LoadThen(t, "sync") /\ UNCHANGED record
  /\ UNCHANGED <<seed, pending, conn, index, envelopes, wire, book>>

\* The index entry goes in a call of its own, after the record.
Unindex(t) ==
  /\ At(t, "unindex")
  /\ index' = FALSE
  /\ IF tasks[t].kind = "retire"
     THEN tasks' = [tasks EXCEPT ![t].pc = "deleteSeed", ![t].gen = tasks[t].exp.gen]
     ELSE Goto(t, "rollbackDrop")
  /\ UNCHANGED <<seed, record, pending, conn, envelopes, wire, book>>

RollbackDrop(t) ==
  /\ At(t, "rollbackDrop")
  /\ IF Mine(t).id = tasks[t].id /\ SameVersion(Mine(t), tasks[t].exp)
     THEN /\ pending' = [pending EXCEPT ![Node(t)] = NoEntry]
          /\ IF Mine(t).created
             THEN /\ tasks' = [tasks EXCEPT ![t].pc = "deleteSeed", ![t].gen = Mine(t).gen]
                  /\ UNCHANGED book
             ELSE End(t) /\ book' = PushFailed(t)
     ELSE LoadThen(t, "sync") /\ UNCHANGED <<pending, book>>
  /\ UNCHANGED <<seed, record, conn, index, envelopes, wire>>

\* DeleteAgentEventDispatchSeedIfPending, for a rollback, a retirement or a sweep.
DeleteSeed(t) ==
  /\ At(t, "deleteSeed")
  /\ seed' = IF seed.status = "pending" /\ seed.gen = tasks[t].gen
             THEN [seed EXCEPT !.status = "absent", !.gen = 0, !.old = FALSE] ELSE seed
  /\ End(t) /\ book' = PushFailed(t)
  /\ UNCHANGED <<record, pending, conn, index, envelopes, wire>>

-----------------------------------------------------------------------------
(* Reading the record back                                                   *)

\* What a tracker takes from a record: not the state of its claim.
Mirrored(r) == [r EXCEPT !.claimed = FALSE, !.leased = FALSE, !.dispatched = FALSE]

\* Each of these reads is used under acksMu, in a step of its own.
Load(t) ==
  /\ At(t, "load")
  /\ \E r \in {record, NoRecord} :
       /\ Loads(r)
       /\ tasks' = [tasks EXCEPT ![t].pc = tasks[t].then, ![t].then = "idle",
                                 ![t].rec = Mirrored(r)]
  /\ UNCHANGED <<seed, record, pending, conn, index, envelopes, wire>>

Sync(t) ==
  /\ At(t, "sync")
  /\ pending' = [pending EXCEPT ![Node(t)] = Synced(@, tasks[t].id, tasks[t].rec)]
  /\ End(t) /\ book' = PushFailed(t)
  /\ UNCHANGED <<seed, record, conn, index, envelopes, wire>>

\* After recovering, a push is done ("existing"), a retirement too, and a drain
\* goes on with the record if it is still live.
Recover(t) ==
  LET live == tasks[t].rec.stage \in {"ack", "result"} IN
  /\ At(t, "recover")
  /\ pending' = [pending EXCEPT ![Node(t)] = Recovered(@, tasks[t].rec)]
  /\ IF live /\ tasks[t].kind = "drain" THEN GoOn(t, "claim")
     ELSE IF live /\ tasks[t].kind = "resume" THEN GoOn(t, "mark")
     ELSE End(t)
  /\ UNCHANGED <<seed, record, conn, index, envelopes, wire, book>>

-----------------------------------------------------------------------------
(* Retries                                                                   *)

\* timeoutPendingEvent of an unexpired entry in stage ack, on the node of the
\* connection. On other nodes, and in stage result, it only re-arms the timer.
StartTimeout(t, n) ==
  /\ conn = n /\ pending[n].id # 0 /\ ~pending[n].expired /\ pending[n].stage = "ack"
  /\ At(t, "idle")
  /\ tasks' = [tasks EXCEPT ![t] = [Idle EXCEPT !.pc = "claim", !.kind = "timeout",
                                                !.node = n, !.id = pending[n].id]]
  /\ UNCHANGED <<seed, record, pending, conn, index, envelopes, wire, book>>

ClaimableForever ==   \* mutant: no attempt limit
  record.stage = "ack" /\ ~(record.claimed /\ record.leased)

Claimable ==
  record.stage = "ack" /\ ~(record.claimed /\ record.leased) /\ record.attempt < MaxAttempts

\* claimDurableRetryScript: a won claim takes the next attempt and a new token;
\* a lost one is told what the record is.
Claim(t) ==
  /\ At(t, "claim")
  /\ \/ /\ Claimable
        /\ record' = [record EXCEPT !.attempt = @ + 1, !.version = @ + 1, !.claimed = TRUE,
                                    !.leased = TRUE, !.dispatched = FALSE]
        /\ tasks' = [tasks EXCEPT ![t].pc = "bump", ![t].life = record.life,
                                  ![t].attempt = record.attempt + 1]
     \/ /\ ~Claimable
        /\ tasks' = [tasks EXCEPT ![t].pc = "sync", ![t].rec = Mirrored(record),
                                  ![t].id = IF tasks[t].kind = "drain" THEN Mine(t).id ELSE @]
        /\ UNCHANGED record
  /\ UNCHANGED <<seed, pending, conn, index, envelopes, wire, book>>

\* updatePendingAttemptFromDurable, before the dispatch or after a resumed one.
Bump(t) ==
  LET e == Mine(t) IN
  /\ At(t, "bump")
  /\ pending' = IF e.id # 0 /\ e.stage = "ack" /\ tasks[t].attempt > e.attempt
                THEN [pending EXCEPT ![Node(t)].attempt = tasks[t].attempt] ELSE pending
  /\ IF tasks[t].kind = "resume" THEN End(t) ELSE Goto(t, "mark")
  /\ UNCHANGED <<seed, record, conn, index, envelopes, wire, book>>

\* The claim in hand is still the one record r carries.
Current(t, r) == r.stage = "ack" /\ r.life = tasks[t].life /\ r.attempt = tasks[t].attempt
                 /\ r.claimed

\* What follows a retry that was not sent from this node: it is forwarded
\* to the node of the connection, except by a drain. A timer then mirrors the
\* record.
Unsent(t) ==
  /\ envelopes' = IF tasks[t].kind \in {"timeout", "forwarded"} /\ conn \in Nodes \ {Node(t)}
                  THEN envelopes \cup {[node |-> conn, life |-> tasks[t].life,
                                        attempt |-> tasks[t].attempt]}
                  ELSE envelopes
  /\ IF tasks[t].kind = "timeout" THEN LoadThen(t, "sync") ELSE End(t)

MarkableAgain(t) == Current(t, record)   \* mutant: ignores retry_dispatched_at

Markable(t) == Current(t, record) /\ ~record.dispatched

\* dispatchClaimedDelegateRetry on a connection that is still authoritative.
Mark(t) ==
  /\ At(t, "mark")
  /\ \/ /\ conn = Node(t) /\ Markable(t)
        /\ record' = [record EXCEPT !.dispatched = TRUE, !.version = @ + 1]
        /\ Goto(t, "recheck")
        /\ UNCHANGED <<envelopes, book>>
     \/ /\ IF conn = Node(t) /\ Markable(t) THEN Fault ELSE UNCHANGED book
        /\ Unsent(t)
        /\ UNCHANGED record
  /\ UNCHANGED <<seed, pending, conn, index, wire>>

\* It reads the record once more before the write.
Recheck(t) ==
  /\ At(t, "recheck")
  /\ \E r \in {record, NoRecord} :
       Loads(r) /\ Goto(t, IF Current(t, r) THEN "retrySend" ELSE "release")
  /\ UNCHANGED <<seed, record, pending, conn, index, envelopes, wire>>

RetrySend(t) ==
  /\ At(t, "retrySend")
  /\ \/ /\ Sends(t)
        /\ CASE tasks[t].kind = "timeout" -> LoadThen(t, "sync")
             [] tasks[t].kind = "resume" -> Goto(t, "bump")
             [] OTHER -> End(t)
     \/ SendFails(t) /\ Goto(t, "release")
  /\ UNCHANGED <<seed, record, pending, conn, index, envelopes>>

\* releaseDurableRetryDispatchScript: the attempt is spent, another may be claimed.
Release(t) ==
  /\ At(t, "release")
  /\ record' = IF Current(t, record)
               THEN [record EXCEPT !.dispatched = FALSE, !.leased = FALSE, !.version = @ + 1]
               ELSE record
  /\ Unsent(t)
  /\ UNCHANGED <<seed, pending, conn, index, wire, book>>

\* HandleForwardedDelegateRetry. A published envelope may also reach nobody.
StartForwarded(t, env) ==
  /\ env \in envelopes
  /\ At(t, "idle")
  /\ tasks' = [tasks EXCEPT ![t] = [Idle EXCEPT !.pc = "mark", !.kind = "forwarded",
                 !.node = env.node, !.life = env.life, !.attempt = env.attempt]]
  /\ envelopes' = envelopes \ {env}
  /\ UNCHANGED <<seed, record, pending, conn, index, wire, book>>

\* What a drain that loaded record r would do with it: make a claim, resume one
\* that was not dispatched, or leave alone one that was.
DrainKind(r) ==
  IF ~(r.claimed /\ r.leased) THEN "drain" ELSE IF r.dispatched THEN "hold" ELSE "resume"

\* A drain that resumes a retry holds its token.
Resumed(drain, r) ==
  IF drain.kind = "resume" THEN [drain EXCEPT !.life = r.life, !.attempt = r.attempt]
  ELSE drain

LeavesUntracked(r, tracked) ==   \* mutant: recovers nothing
  r.stage # "ack" \/ ~tracked \/ ~r.claimed \/ DrainKind(r) = "hold"

\* A node that tracks the event leaves an unclaimed record to its timer.
Leaves(r, tracked) ==
  r.stage # "ack" \/ (tracked /\ (~r.claimed \/ DrainKind(r) = "hold"))

\* drainDurablePendingDelegateAcks, with every heartbeat and with a new connection:
\* reads the record of an indexed event, and whether the node tracks it. A node that
\* does not recovers it before anything else; without a record it is deleted.
StartDrain(t, n) ==
  /\ conn = n /\ index /\ At(t, "idle")
  /\ \E r \in {record, NoRecord} :
       LET kind == DrainKind(r)
           tracked == pending[n].id # 0
           drain == [Idle EXCEPT !.kind = kind, !.node = n]
       IN
       /\ Loads(r)
       /\ \/ /\ r.stage = "none"
             /\ tasks' = [tasks EXCEPT ![t] = [drain EXCEPT !.pc = "drainDelete"]]
          \/ /\ r.stage # "none" /\ ~Leaves(r, tracked) /\ ~tracked
             /\ tasks' = [tasks EXCEPT ![t] = [Resumed(drain, r) EXCEPT
                                                  !.pc = "load", !.then = "recover"]]
          \/ /\ r.stage # "none" /\ ~Leaves(r, tracked) /\ tracked
             /\ tasks' = [tasks EXCEPT ![t] = [Resumed(drain, r) EXCEPT
                            !.pc = IF kind = "resume" THEN "mark" ELSE "claim"]]
  /\ UNCHANGED <<seed, record, pending, conn, index, envelopes, wire>>

\* deleteDurablePendingDelegate: whatever the record is by now.
DrainDelete(t) ==
  /\ At(t, "drainDelete")
  /\ record' = NoRecord /\ index' = FALSE
  /\ book' = [book EXCEPT !.erased = @ \/ record.stage # "none"]
  /\ End(t)
  /\ UNCHANGED <<seed, pending, conn, envelopes, wire>>

-----------------------------------------------------------------------------
(* Acknowledgement and settlement                                            *)

\* event_ack of a packet that was sent, on the node of the connection. Without
\* an entry in stage ack there it changes nothing.
StartAck(t, n) ==
  /\ conn = n /\ Delivered /\ pending[n].id # 0 /\ pending[n].stage = "ack"
  /\ At(t, "idle")
  /\ tasks' = [tasks EXCEPT ![t] = [Idle EXCEPT !.pc = "advance", !.kind = "ack",
                                                !.node = n, !.id = pending[n].id]]
  /\ UNCHANGED <<seed, record, pending, conn, index, envelopes, wire, book>>

\* Mutant: carries on after a failed call.
AdvanceUnchecked(t) ==
  LET received == [record EXCEPT !.stage = "result", !.version = @ + 1, !.claimed = FALSE,
                                 !.leased = FALSE, !.dispatched = FALSE] IN
  /\ At(t, "advance")
  /\ record' \in {record, received}
  /\ tasks' = [tasks EXCEPT ![t].pc = "received", ![t].rec = received]
  /\ UNCHANGED <<seed, pending, conn, index, envelopes, wire, book>>

\* advanceDurableAckScript.
Advance(t) ==
  LET received == [record EXCEPT !.stage = "result", !.version = @ + 1, !.claimed = FALSE,
                                 !.leased = FALSE, !.dispatched = FALSE] IN
  /\ At(t, "advance")
  /\ IF record.stage = "ack"
     THEN /\ record' = received
          /\ wire' = [wire EXCEPT !.received = IF @ = 0 THEN record.life ELSE @]
          /\ tasks' = [tasks EXCEPT ![t].pc = "received", ![t].rec = received]
     ELSE /\ tasks' = [tasks EXCEPT ![t].pc = "sync", ![t].rec = Mirrored(record)]
          /\ UNCHANGED <<record, wire>>
  /\ UNCHANGED <<seed, pending, conn, index, envelopes, book>>

\* The entry moves to stage result if it is still the one that was read.
Received(t) ==
  LET r == tasks[t].rec IN
  /\ At(t, "received")
  /\ pending' = IF Mine(t).id = tasks[t].id /\ Mine(t).stage = "ack"
                THEN [pending EXCEPT ![Node(t)] =
                        [@ EXCEPT !.stage = "result", !.version = r.version,
                                  !.attempt = r.attempt, !.expired = FALSE]]
                ELSE pending
  /\ End(t)
  /\ UNCHANGED <<seed, record, conn, index, envelopes, wire, book>>

\* TerminalSettlement as the tracker sees it: a terminal intent closes the
\* record, the commit freezes the row, and the settling node drops its entry.
Close ==
  /\ Delivered /\ record.stage \in {"ack", "result"}
  /\ record' = [record EXCEPT !.stage = "closed", !.version = @ + 1, !.claimed = FALSE,
                              !.leased = FALSE, !.dispatched = FALSE]
  /\ UNCHANGED <<seed, pending, conn, index, envelopes, tasks, wire, book>>

Freeze(n) ==
  /\ MayFreeze /\ record.stage = "closed"
  /\ seed' = [seed EXCEPT !.status = "frozen"]
  /\ pending' = [pending EXCEPT ![n] = NoEntry]
  /\ index' = FALSE
  /\ UNCHANGED <<record, conn, envelopes, tasks, wire, book>>

-----------------------------------------------------------------------------
(* Retirement and the seed sweep                                             *)

\* Retention is two days: no goroutine lasts that long.
Quiet == \A t \in Tasks : At(t, "idle")

Expire(n) ==
  /\ MayExpire /\ Quiet /\ pending[n].id # 0 /\ ~pending[n].expired
  /\ pending' = [pending EXCEPT ![n].expired = TRUE]
  /\ UNCHANGED <<seed, record, conn, index, envelopes, tasks, wire, book>>

SeedAges ==
  /\ MayExpire /\ Quiet /\ seed.status = "pending" /\ ~seed.old
  /\ seed' = [seed EXCEPT !.old = TRUE]
  /\ UNCHANGED <<record, pending, conn, index, envelopes, tasks, wire, book>>

\* timeoutPendingEvent of an expired entry: reads the record outside the lock.
StartRetire(t, n) ==
  /\ pending[n].id # 0 /\ pending[n].expired
  /\ At(t, "idle")
  /\ tasks' = [tasks EXCEPT ![t] = [Idle EXCEPT !.pc = "load", !.then = "retireCheck",
                 !.kind = "retire", !.node = n, !.id = pending[n].id, !.exp = pending[n]]]
  /\ UNCHANGED <<seed, record, pending, conn, index, envelopes, wire, book>>

RetireCheck(t) ==
  LET r == tasks[t].rec
      e == tasks[t].exp
  IN
  /\ At(t, "retireCheck")
  /\ IF r.stage # "none" /\ ~SameVersion(e, r)
     THEN Goto(t, "sync") /\ UNCHANGED pending
     ELSE IF Mine(t).id = tasks[t].id /\ SameVersion(Mine(t), e)
     THEN /\ pending' = [pending EXCEPT ![Node(t)] = NoEntry]
          /\ GoOn(t, "retireDelete")
     ELSE End(t) /\ UNCHANGED pending
  /\ UNCHANGED <<seed, record, conn, index, envelopes, wire, book>>

\* retireExpiredEventTracking.
RetireDelete(t) ==
  /\ At(t, "retireDelete")
  /\ IF Unchanged(tasks[t].exp)
     THEN record' = NoRecord /\ Goto(t, "unindex")
     ELSE LoadThen(t, "recover") /\ UNCHANGED record
  /\ UNCHANGED <<seed, pending, conn, index, envelopes, wire, book>>

\* sweepExpiredPendingDispatchSeeds: list, check Redis, delete.
StartSweep(t, n) ==
  /\ seed.status = "pending" /\ seed.old
  /\ At(t, "idle")
  /\ tasks' = [tasks EXCEPT ![t] = [Idle EXCEPT !.pc = "sweepCheck", !.kind = "sweep",
                                                !.node = n, !.gen = seed.gen]]
  /\ UNCHANGED <<seed, record, pending, conn, index, envelopes, wire, book>>

SweepCheck(t) ==
  /\ At(t, "sweepCheck")
  /\ IF record.stage = "none" THEN Goto(t, "deleteSeed") ELSE End(t)
  /\ UNCHANGED <<seed, record, pending, conn, index, envelopes, wire, book>>

-----------------------------------------------------------------------------
(* Time and faults                                                           *)

LeaseExpires ==
  /\ record.leased
  /\ record' = [record EXCEPT !.leased = FALSE]
  /\ UNCHANGED <<seed, pending, conn, index, envelopes, tasks, wire, book>>

\* The connector connects again, to this or another node.
Reconnect(n) ==
  /\ Fault
  /\ conn' = n
  /\ UNCHANGED <<seed, record, pending, index, envelopes, tasks, wire>>

\* A store call fails: the goroutine gives up.
StoreFails(t) ==
  /\ At(t, "seed") \/ At(t, "claim") \/ At(t, "advance") \/ At(t, "deleteSeed")
  /\ CallFails(t)
  /\ End(t)
  /\ UNCHANGED <<seed, record, pending, conn, index, envelopes, wire>>

\* A node dies with its entries, its goroutines and its connection. The
\* callers of the pushes it was serving call again.
Crash(n) ==
  LET dead == {t \in Tasks : Node(t) = n} IN
  /\ book.faults < MaxFaults
  /\ book' = [book EXCEPT !.faults = @ + 1,
                          !.owed = @ \/ \E t \in dead : tasks[t].kind = "push"]
  /\ pending' = [pending EXCEPT ![n] = NoEntry]
  /\ tasks' = [t \in Tasks |-> IF t \in dead THEN Idle ELSE tasks[t]]
  /\ conn' = IF conn = n THEN NoNode ELSE conn
  /\ envelopes' = {env \in envelopes : env.node # n}
  /\ UNCHANGED <<seed, record, index, wire>>

-----------------------------------------------------------------------------
TaskStep(t) ==
  \/ Seed(t) \/ Adopt(t) \/ Create(t) \/ Track(t) \/ Send(t) \/ Rollback(t)
  \/ RollbackDelete(t) \/ RollbackDrop(t) \/ DeleteSeed(t) \/ Load(t) \/ Sync(t)
  \/ Recover(t) \/ Claim(t) \/ Bump(t) \/ Mark(t) \/ Recheck(t) \/ RetrySend(t)
  \/ Release(t) \/ DrainDelete(t) \/ Unindex(t) \/ Advance(t) \/ Received(t) \/ RetireCheck(t)
  \/ RetireDelete(t) \/ SweepCheck(t)

Next ==
  \/ \E t \in Tasks : TaskStep(t) \/ StoreFails(t)
  \/ \E t \in Tasks, n \in Nodes :
       \/ StartPush(t, n) \/ StartTimeout(t, n) \/ StartDrain(t, n) \/ StartAck(t, n)
       \/ StartRetire(t, n) \/ StartSweep(t, n)
  \/ \E t \in Tasks, env \in envelopes : StartForwarded(t, env)
  \/ \E n \in Nodes : Freeze(n) \/ Expire(n) \/ Reconnect(n) \/ Crash(n)
  \/ Close \/ SeedAges \/ LeaseExpires

Spec == Init /\ [][Next]_vars

\* Goroutines run, leases end, timers fire and heartbeats drain. The last two are
\* strongly fair: a goroutine of theirs never waits for another to end, as an action
\* that needs an idle element of Tasks does.
Fairness ==
  /\ \A t \in Tasks : WF_vars(TaskStep(t))
  /\ \A n \in Nodes : /\ SF_vars(\E t \in Tasks : StartTimeout(t, n))
                      /\ SF_vars(\E t \in Tasks : StartDrain(t, n))
  /\ WF_vars(LeaseExpires)

FairSpec == Spec /\ Fairness

-----------------------------------------------------------------------------
(* Properties                                                                *)

\* Timers, drains, forwarded retries and duplicate dispatches together write
\* each attempt of a record to the connector at most once.
SentOncePerAttempt == ~wire.twice

StageRank(s) == CASE s = "ack" -> 1 [] s = "result" -> 2 [] s = "closed" -> 3 [] OTHER -> 0

\* A record only moves forward: no retry, drain or dispatch takes an acknowledged
\* or settled event back to waiting for its ACK, and but for a drain only a tracker
\* that knew of the ACK may remove an acknowledged one.
RecordMovesForward ==
  [][/\ record'.stage # "none" /\ record.stage # "none" =>
          /\ record'.life = record.life /\ record'.version >= record.version
          /\ StageRank(record'.stage) >= StageRank(record.stage)
     /\ record'.stage = "none" /\ record.stage \in {"result", "closed"} =>
          \E t \in Tasks : /\ tasks'[t] # tasks[t]
                           /\ At(t, "drainDelete") \/ tasks[t].exp.stage = record.stage]_vars

\* No record but perhaps this one was ever acknowledged.
FirstReceived(life) == wire.received \in {0, life}

\* A local tracker never runs ahead of the record it mirrors, unless an earlier record
\* of the event was acknowledged and deleted all the same: a handler of that ACK may
\* then still move the tracker of the new record to the version of the old one.
TrackerNeverAhead ==
  \A n \in Nodes :
    LET e == pending[n] IN
    /\ e.id # 0 /\ e.life = record.life /\ record.stage # "none"
    /\ FirstReceived(record.life)
    => /\ e.version <= record.version
       /\ e.stage = "result" => record.stage # "ack"

\* Rollbacks and retirements erase only the record their tracker mirrored, never one
\* that a later dispatch has created: of dispatches with a commit token of their own.
\* Those that share one may adopt a seed and reuse the generation of its lost record.
ErasesOwnRecord ==
  [][record.stage # "none" /\ record'.stage = "none" =>
       \E t \in Tasks :
         /\ tasks'[t] # tasks[t]
         /\ At(t, "drainDelete") \/ tasks[t].exp.life = record.life]_vars

\* An event that every caller has let go of was sent, or is still recorded, unless a
\* drain took a record for missing and deleted it.
AcceptedIsTracked ==
  \/ book.owed \/ Delivered \/ record.stage # "none" \/ seed.status = "frozen"
  \/ book.erased
  \/ \E t \in Tasks : tasks[t].kind = "push"

\* While the connector is connected somewhere, an event that waits for its ACK is
\* retried until it is acknowledged or its attempts are used up, whichever nodes
\* still track it.
RetriedToTheEnd ==
  record.stage = "ack" /\ conn # NoNode
    ~> record.stage # "ack" \/ record.attempt = MaxAttempts \/ conn = NoNode

-----------------------------------------------------------------------------
(* What comments of the code state and TLC refutes; the README says how. No   *)
(* run checks these.                                                          *)

\* "Duplicate upstream dispatches must never reset a received/terminal record back
\* to ACK stage": within retention, an acknowledged event never waits for its ACK.
NeverResetToAck == wire.received # 0 => record.stage # "ack"

\* "rolls back this registration when the channel write fails": the rollback of
\* a dispatch never erases an event that the connector has acknowledged.
RollbackSparesReceived ==
  [][record'.stage = "none" /\ record.stage = "result" =>
       ~\E t \in Tasks : At(t, "rollbackDelete") /\ tasks'[t] # tasks[t]]_vars

\* "persists the complete immutable dispatch snapshot before the packet is
\* exposed to the connector": while the record of a sent packet is live, the
\* event has its ledger row.
ExposedHasSeed ==
  record.stage \in {"ack", "result"} /\ (\E p \in wire.sent : p[1] = record.life)
    => seed.status # "absent"

=============================================================================
