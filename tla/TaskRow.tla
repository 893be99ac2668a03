--------------------------------- MODULE TaskRow ---------------------------------
(***************************************************************************)
(* The chat_states row of one session and owner: what the owner is shown   *)
(* of the task (running, waiting for the owner, or how it ended).          *)
(*                                                                         *)
(* Four kinds of writer touch the row, none of them under a lock:          *)
(* background goroutines that write "running" after a dispatch and         *)
(* "waiting" or "resumed" for the cards of the agent, the transaction that *)
(* freezes a verdict (ws/agentapi/terminal_result_commit.go), and, on      *)
(* every node, the sweeper that ends rows nobody vouches for               *)
(* (ws/agentapi/stale_run_sweeper.go). What keeps them apart is the WHERE  *)
(* clause of each write (store/session_agent_state_store.go).              *)
(***************************************************************************)
EXTENDS Integers

CONSTANTS
  Tasks,     \* events the owner sent: their runs are tasks
  Members,   \* events another member of the group sent
  Answers,   \* events that answer a card of the agent: no tasks of their own
  Nodes,
  Sweepers,  \* bound: nodes whose sweeper is followed; every node has one
  NoRun, NoNode,
  MaxDispatches,  \* bound: dispatches, rolled back ones included
  MaxAsks,        \* bound: cards that ask the owner
  MaxFaults       \* bound: node crashes and connectors that die

Runs == Tasks \cup Members \cup Answers

ASSUME ConstantsAssumption ==
  /\ Tasks \cap Members = {} /\ Answers \cap (Tasks \cup Members) = {}
  /\ Sweepers \subseteq Nodes /\ NoRun \notin Runs /\ NoNode \notin Nodes
  /\ MaxDispatches \in Nat /\ MaxAsks \in Nat /\ MaxFaults \in Nat

VARIABLES
  row,      \* the row; aged: not written for staleRunningReapThreshold
  ledger,   \* of each run, its row in the terminal ledger
  record,   \* of each run, its Redis record in stage ack or result, and its age
  runs,     \* of each node, the runs it keeps in memory
  disp,     \* of each run, the node that dispatches it and how far it is
  upstream, \* events to be dispatched
  held,     \* runs the connector works on
  jobs,     \* background writes under way
  sweep,    \* of each node, where its sweeper is
  seq,      \* last run generation given (agent_run_sequences)
  young,    \* runs first dispatched within the threshold
  asks, faults

vars == <<row, ledger, record, runs, disp, upstream, held, jobs, sweep,
          seq, young, asks, faults>>

Alive == {"running", "waiting"}
Ended == {"completed", "idle"}     \* failed is one more such value
Gen == 0..MaxDispatches

Idle == [pc |-> "idle", run |-> NoRun, gen |-> 0]
NotDispatching == [node |-> NoNode, step |-> "none"]

TypeOK ==
  /\ row \in [state : Alive \cup Ended \cup {"none"}, run : Runs \cup {NoRun},
              gen : Gen, aged : BOOLEAN]
  /\ ledger \in [Runs -> [status : {"none", "pending", "final"}, gen : Gen]]
  /\ record \in [Runs -> {"none", "fresh", "stale"}]
  /\ runs \in [Nodes -> SUBSET Runs]
  /\ disp \in [Runs -> [node : Nodes \cup {NoNode}, step : {"none", "send", "launch"}]]
  /\ upstream \subseteq Runs /\ held \subseteq Runs /\ young \subseteq Runs
  /\ jobs \subseteq [node : Nodes, op : {"running", "wait", "resume"}, run : Runs, gen : Gen]
  /\ sweep \in [Nodes -> [pc : {"idle", "local", "records", "newer", "settle"},
                          run : Runs \cup {NoRun}, gen : Gen]]
  /\ seq \in Gen /\ asks \in 0..MaxAsks /\ faults \in 0..MaxFaults

Init ==
  /\ row = [state |-> "none", run |-> NoRun, gen |-> 0, aged |-> FALSE]
  /\ ledger = [e \in Runs |-> [status |-> "none", gen |-> 0]]
  /\ record = [e \in Runs |-> "none"]
  /\ runs = [n \in Nodes |-> {}]
  /\ disp = [e \in Runs |-> NotDispatching]
  /\ upstream = Runs /\ held = {} /\ jobs = {} /\ young = {}
  /\ sweep = [n \in Nodes |-> Idle]
  /\ seq = 0 /\ asks = 0 /\ faults = 0

-----------------------------------------------------------------------------
(* Dispatch. *)

\* The generation is drawn, the ledger seeded and the record created, then the
\* run is registered in memory; an answer resumes a task that waits for it.
Register(n, e) ==
  /\ e \in upstream /\ seq < MaxDispatches
  /\ upstream' = upstream \ {e}
  /\ seq' = seq + 1
  /\ ledger' = [ledger EXCEPT ![e] = [status |-> "pending", gen |-> seq + 1]]
  /\ record' = [record EXCEPT ![e] = "fresh"]
  /\ runs' = [runs EXCEPT ![n] = @ \cup {e}]
  /\ disp' = [disp EXCEPT ![e] = [node |-> n, step |-> "send"]]
  /\ young' = young \cup {e}
  /\ jobs' = IF e \in Answers /\ e \notin runs[n]
             THEN jobs \cup {[node |-> n, op |-> "resume", run |-> e, gen |-> 0]} ELSE jobs
  /\ UNCHANGED <<row, held, sweep, asks, faults>>

\* The packet is on its way: from here the verdict may arrive at any time.
Send(n, e) ==
  /\ disp[e] = [node |-> n, step |-> "send"]
  /\ disp' = [disp EXCEPT ![e].step = "launch"]
  /\ held' = held \cup {e}
  /\ UNCHANGED <<upstream, row, ledger, record, runs, jobs, sweep, seq, young, asks, faults>>

\* The packet could not be queued: the registration is undone and the event
\* goes back to the offline queue.
SendFails(n, e) ==
  /\ disp[e] = [node |-> n, step |-> "send"]
  /\ ledger[e].status = "pending"
  /\ disp' = [disp EXCEPT ![e] = NotDispatching]
  /\ ledger' = [ledger EXCEPT ![e] = [status |-> "none", gen |-> 0]]
  /\ record' = [record EXCEPT ![e] = "none"]
  /\ runs' = [runs EXCEPT ![n] = @ \ {e}]
  /\ upstream' = upstream \cup {e}
  /\ UNCHANGED <<row, held, jobs, sweep, seq, young, asks, faults>>

\* persistActiveRunRunning: only a run that is still in memory and that counts
\* as a task starts the background write.
Launch(n, e) ==
  /\ disp[e] = [node |-> n, step |-> "launch"]
  /\ disp' = [disp EXCEPT ![e] = NotDispatching]
  /\ jobs' = IF e \in runs[n] /\ e \notin Answers
             THEN jobs \cup {[node |-> n, op |-> "running", run |-> e, gen |-> ledger[e].gen]} ELSE jobs
  /\ UNCHANGED <<upstream, row, ledger, record, runs, held, sweep, seq, young, asks, faults>>

\* The record of an unacknowledged event is delivered again on a reconnect.
Redeliver(e) ==
  /\ record[e] # "none" /\ e \notin held /\ disp[e] = NotDispatching
  /\ record' = [record EXCEPT ![e] = "fresh"]
  /\ held' = held \cup {e}
  /\ UNCHANGED <<upstream, row, ledger, runs, disp, jobs, sweep, seq, young, asks, faults>>

-----------------------------------------------------------------------------
(* The writes of the row. *)

\* Mutant of TakesRow: the row of another run is taken over whatever its generation.
TakesAnyRow(e, gen) == row.state = "none" \/ row.run # e \/ row.state = "running"

\* The conflict clause of the upsert: a row of the same run only while it is
\* running, a row of another run only for a greater generation.
TakesRow(e, gen) ==
  \/ row.state = "none"
  \/ row.run = e /\ row.state = "running"
  \/ row.run # e /\ gen > row.gen

UpsertRunning(j) ==
  /\ j \in jobs /\ j.op = "running"
  /\ jobs' = jobs \ {j}
  /\ row' = IF TakesRow(j.run, j.gen)
            THEN [state |-> "running", run |-> j.run, gen |-> j.gen, aged |-> FALSE]
            ELSE row
  /\ UNCHANGED <<upstream, ledger, record, runs, disp, held, sweep, seq, young, asks, faults>>

\* The agent sends an approval or a question card for a run of its own.
Ask(n, e) ==
  /\ e \in held \ Answers /\ asks < MaxAsks
  /\ asks' = asks + 1
  /\ jobs' = jobs \cup {[node |-> n, op |-> "wait", run |-> e, gen |-> 0]}
  /\ UNCHANGED <<upstream, row, ledger, record, runs, disp, held, sweep, seq, young, faults>>

\* Both writes look at the session only, not at the run that asked.
SetWaiting(j) ==
  /\ j \in jobs /\ j.op = "wait"
  /\ jobs' = jobs \ {j}
  /\ row' = IF row.state \in Alive
            THEN [row EXCEPT !.state = "waiting", !.aged = FALSE] ELSE row
  /\ UNCHANGED <<upstream, ledger, record, runs, disp, held, sweep, seq, young, asks, faults>>

ResumeFromWaiting(j) ==
  /\ j \in jobs /\ j.op = "resume"
  /\ jobs' = jobs \ {j}
  /\ row' = IF row.state = "waiting"
            THEN [row EXCEPT !.state = "running", !.aged = FALSE] ELSE row
  /\ UNCHANGED <<upstream, ledger, record, runs, disp, held, sweep, seq, young, asks, faults>>

\* Mutant of Settled: a row that waits for the owner is not ended.
SettledIfRunning(e, gen, verdict) ==
  IF row.state = "none" \/ (row.run = e /\ row.state = "running")
  THEN [state |-> verdict, run |-> e, gen |-> gen, aged |-> FALSE] ELSE row

\* settleSessionAgentStateByRunDB: insert, or end the row of this very run.
Settled(e, gen, verdict) ==
  IF \/ row.state = "none"
     \/ row.run = e /\ (gen = 0 \/ row.gen = gen) /\ row.state \in Alive
  THEN [state |-> verdict, run |-> e, gen |-> gen, aged |-> FALSE]
  ELSE row

\* The verdict of the connector is accepted while there is a record, or a live
\* row that vouches for the run and gives its generation. It is frozen in one
\* transaction with the row of a task of the owner; the record is settled after.
CommitVerdict(e) ==
  /\ e \in held /\ ledger[e].status # "final"
  /\ record[e] # "none" \/ (row.run = e /\ row.state \in Alive)
  /\ held' = held \ {e}
  /\ LET gen == IF ledger[e].status = "pending" THEN ledger[e].gen ELSE row.gen IN
     /\ ledger' = [ledger EXCEPT ![e] = [status |-> "final", gen |-> gen]]
     /\ row' = IF e \in Tasks THEN Settled(e, gen, "completed") ELSE row
  /\ record' = [record EXCEPT ![e] = "none"]
  /\ UNCHANGED <<upstream, runs, disp, jobs, sweep, seq, young, asks, faults>>

\* Mutant of RemoveRun: the retirement of a tracking entry leaves the run in memory.
RemoveSettledRun(n, e) ==
  /\ e \in runs[n] /\ disp[e].node # n
  /\ ledger[e].status = "final"
  /\ runs' = [runs EXCEPT ![n] = @ \ {e}]
  /\ UNCHANGED <<upstream, row, ledger, record, disp, held, jobs, sweep, seq, young, asks, faults>>

\* The output effect of the verdict, or on another node the tracking timer
\* that finds the record settled or retired, drops the run from memory.
RemoveRun(n, e) ==
  /\ e \in runs[n] /\ disp[e].node # n
  /\ record[e] = "none"
  /\ runs' = [runs EXCEPT ![n] = @ \ {e}]
  /\ UNCHANGED <<upstream, row, ledger, record, disp, held, jobs, sweep, seq, young, asks, faults>>

-----------------------------------------------------------------------------
(* The sweepers. *)

\* Candidates: running, and not written since the cutoff.
ListStale(n) ==
  /\ sweep[n] = Idle
  /\ row.state = "running" /\ row.aged
  /\ sweep' = [sweep EXCEPT ![n] = [pc |-> "local", run |-> row.run, gen |-> row.gen]]
  /\ UNCHANGED <<upstream, row, ledger, record, runs, disp, held, jobs, seq, young, asks, faults>>

\* One condition after the other; any of them sends the sweeper home.
Check(n, pc, holds, next) ==
  /\ sweep[n].pc = pc
  /\ sweep' = [sweep EXCEPT ![n] = IF holds THEN [@ EXCEPT !.pc = next] ELSE Idle]
  /\ UNCHANGED <<upstream, row, ledger, record, runs, disp, held, jobs, seq, young, asks, faults>>

CheckLocalRuns(n) == Check(n, "local", runs[n] = {}, "records")

CheckDurableRuns(n) == Check(n, "records", \A e \in Runs : record[e] # "fresh", "newer")

NewerPending(run) ==
  \E e \in Runs \ {run} :
    /\ ledger[e].status = "pending"
    /\ ledger[run].status = "none" \/ ledger[e].gen > ledger[run].gen

CheckNewer(n) == Check(n, "newer", ~NewerPending(sweep[n].run), "settle")

\* Mutant of Reap: whatever run the row shows by now is ended.
ReapRowAsItIs(n) ==
  /\ sweep[n].pc = "settle"
  /\ sweep' = [sweep EXCEPT ![n] = Idle]
  /\ row' = [row EXCEPT !.state = "idle", !.aged = FALSE]
  /\ UNCHANGED <<upstream, ledger, record, runs, disp, held, jobs, seq, young, asks, faults>>

\* The settle is guarded by the run and the generation that were scanned.
Reap(n) ==
  /\ sweep[n].pc = "settle"
  /\ sweep' = [sweep EXCEPT ![n] = Idle]
  /\ row' = Settled(sweep[n].run, sweep[n].gen, "idle")
  /\ UNCHANGED <<upstream, ledger, record, runs, disp, held, jobs, seq, young, asks, faults>>

-----------------------------------------------------------------------------
(* Time and faults. *)

\* The threshold passes over everything that nobody touches. No call and no
\* goroutine takes that long.
Age ==
  /\ jobs = {} /\ \A e \in Runs : disp[e] = NotDispatching
  /\ \/ row.state # "none" /\ ~row.aged
     \/ young # {}
     \/ \E e \in Runs : record[e] = "fresh"
  /\ row' = [row EXCEPT !.aged = row.state # "none"]
  /\ record' = [e \in Runs |-> IF record[e] = "none" THEN "none" ELSE "stale"]
  /\ young' = {}
  /\ UNCHANGED <<upstream, ledger, runs, disp, held, jobs, sweep, seq, asks, faults>>

\* A record that is not touched lives for the retention of the tracking only,
\* far beyond the threshold.
ExpireRecord(e) ==
  /\ record[e] = "stale"
  /\ record' = [record EXCEPT ![e] = "none"]
  /\ UNCHANGED <<upstream, row, ledger, runs, disp, held, jobs, sweep, seq, young, asks, faults>>

\* sweepExpiredPendingDispatchSeeds: a pending ledger row without a record.
RetireSeed(e) ==
  /\ ledger[e].status = "pending" /\ record[e] = "none" /\ disp[e] = NotDispatching
  /\ ledger' = [ledger EXCEPT ![e] = [status |-> "none", gen |-> 0]]
  /\ UNCHANGED <<upstream, row, record, runs, disp, held, jobs, sweep, seq, young, asks, faults>>

Crash(n) ==
  /\ faults < MaxFaults
  /\ faults' = faults + 1
  /\ runs' = [runs EXCEPT ![n] = {}]
  /\ jobs' = {j \in jobs : j.node # n}
  /\ disp' = [e \in Runs |-> IF disp[e].node = n THEN NotDispatching ELSE disp[e]]
  /\ sweep' = [sweep EXCEPT ![n] = Idle]
  /\ UNCHANGED <<upstream, row, ledger, record, held, seq, young, asks>>

\* The connector process dies with a run it never reports.
ConnectorDies(e) ==
  /\ e \in held /\ faults < MaxFaults
  /\ faults' = faults + 1
  /\ held' = held \ {e}
  /\ UNCHANGED <<upstream, row, ledger, record, runs, disp, jobs, sweep, seq, young, asks>>

-----------------------------------------------------------------------------
DispatchStep(n, e) == Register(n, e) \/ Send(n, e) \/ SendFails(n, e) \/ Launch(n, e)
Background(j) == UpsertRunning(j) \/ SetWaiting(j) \/ ResumeFromWaiting(j)
SweepStep(n) ==
  ListStale(n) \/ CheckLocalRuns(n) \/ CheckDurableRuns(n) \/ CheckNewer(n) \/ Reap(n)

Next ==
  \/ \E n \in Nodes, e \in Runs : DispatchStep(n, e) \/ Ask(n, e) \/ RemoveRun(n, e)
  \/ \E e \in Runs : \/ Redeliver(e) \/ CommitVerdict(e) \/ ConnectorDies(e)
                     \/ ExpireRecord(e) \/ RetireSeed(e)
  \/ \E j \in jobs : Background(j)
  \/ \E n \in Sweepers : SweepStep(n)
  \/ \E n \in Nodes : Crash(n)
  \/ Age

Spec == Init /\ [][Next]_vars

\* Goroutines are scheduled, timers fire and every node sweeps; nothing makes
\* the connector report or the owner write.
Dispatching == \E n \in Nodes, e \in Runs : Send(n, e) \/ SendFails(n, e) \/ Launch(n, e)
Goroutines == \E j \in jobs : Background(j)
Timers == \/ \E n \in Nodes, e \in Runs : RemoveRun(n, e)
          \/ \E e \in Runs : ExpireRecord(e) \/ RetireSeed(e)

Fairness ==
  /\ WF_vars(Dispatching) /\ WF_vars(Goroutines) /\ WF_vars(Timers)
  /\ \A n \in Sweepers : WF_vars(SweepStep(n))
  /\ WF_vars(Age)

FairSpec == Spec /\ Fairness

-----------------------------------------------------------------------------
(* Properties. *)

\* Generations never fall, and an ended row is only ever taken over by a run of
\* a greater generation: no delayed write of a goroutine, no late verdict and no
\* sweeper brings a settled task back or buries a newer one
\* (store/session_agent_state_store.go).
RowMovesForward ==
  [][/\ row'.gen >= row.gen
     /\ row.state \in Ended => row' \in {row, [row EXCEPT !.aged = TRUE]} \/ row'.gen > row.gen]_vars

\* The transaction that freezes the verdict of a task ends the row that shows
\* the task alive, whatever was rolled back, retired or recovered before.
VerdictEndsRow ==
  [][\A e \in Tasks :
       ledger[e].status # "final" /\ ledger'[e].status = "final" =>
         row'.run # e \/ row'.state \in Ended]_vars

\* A sweeper never ends a run dispatched within the threshold, however long ago
\* it read the row and the evidence (ws/agentapi/stale_run_sweeper.go).
SweepSparesNewRuns ==
  [][\A n \in Nodes :
       sweep[n].pc = "settle" /\ sweep'[n] = Idle /\ row'.state # row.state =>
         row.run \notin young]_vars

\* The sweepers do what they are for: a row that shows a run which nobody works
\* on any more does not show it for ever, whichever node or connector died.
ZombieLeaves == []<>~(row.state = "running" /\ row.run \notin held)

-----------------------------------------------------------------------------
(* What comments of the code state and TLC refutes; the README says how. No   *)
(* run checks it.                                                             *)

\* "A terminal result or a newer run can therefore reach the database first; an
\* older/same-run delayed write must never regress either state back to running":
\* a row shows a run alive only until the verdict of that run is frozen.
AliveIsOpen == row.state \in Alive => ledger[row.run].status # "final"
================================================================================
