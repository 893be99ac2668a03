------------------------------ MODULE TaskRow_proofs ------------------------------
(***************************************************************************)
(* Proofs about TaskRow, for any tasks, nodes and sweepers, any number of  *)
(* dispatches, cards and faults.                                           *)
(***************************************************************************)
EXTENDS TaskRow, TLAPS

USE ConstantsAssumption

-----------------------------------------------------------------------------
(* The invariant. *)

\* The event has left the dispatching node for good: it is never registered again.
Dispatched(e) == e \notin upstream /\ disp[e].step # "send"

\* The running writes under way.
Starts == {j \in jobs : j.op = "running"}

\* An event that is still to be dispatched has left no trace; a record has its
\* pending ledger row, and so has a dispatch under way.
Accounted ==
  \A e \in Runs :
    /\ e \in upstream => record[e] = "none" /\ disp[e] = NotDispatching
    /\ record[e] # "none" => ledger[e].status = "pending"
    /\ disp[e].step = "send" => ledger[e].status = "pending"
    /\ disp[e].step = "launch" => ledger[e].status # "none"

\* Only runs that were dispatched are at work, written, shown or scanned.
OnlyDispatched ==
  /\ \A e \in held : Dispatched(e)
  /\ \A j \in Starts : Dispatched(j.run)
  /\ row.run # NoRun => Dispatched(row.run)
  /\ \A n \in Nodes : sweep[n].run # NoRun => Dispatched(sweep[n].run)

\* A running write under way names its run by the generation of the ledger, of the
\* row and of the other writes of the run.
StartGenerations ==
  /\ \A j \in Starts :
       /\ j.gen > 0
       /\ ledger[j.run].status # "none" => ledger[j.run].gen = j.gen
       /\ row.run = j.run => row.gen = j.gen
  /\ \A i, j \in Starts : i.run = j.run => i.gen = j.gen

\* The row, the ledger and the writes under way name a run by one generation.
GenerationsAgree ==
  /\ StartGenerations
  /\ \A e \in Runs : ledger[e].status # "none" => ledger[e].gen > 0
  /\ row.state = "none" <=> row.run = NoRun
  /\ row.state = "none" => row.gen = 0
  /\ row.run # NoRun =>
       /\ row.gen > 0
       /\ ledger[row.run].status # "none" => ledger[row.run].gen = row.gen

\* A sweeper at work has a run that was shown, by its generation, and is not new.
SweepsOldRuns ==
  /\ row.aged => row.run \notin young
  /\ \A n \in Nodes : sweep[n].pc # "idle" =>
       /\ row.state # "none"
       /\ sweep[n].run \in Runs \ young /\ sweep[n].gen > 0

IInv == TypeOK /\ Accounted /\ OnlyDispatched /\ GenerationsAgree /\ SweepsOldRuns

\* The initial state.
LEMMA InitInv == Init => IInv
  BY DEF Init, IInv, TypeOK, Accounted, OnlyDispatched, GenerationsAgree, StartGenerations, SweepsOldRuns,
         Starts, Idle, NotDispatching, Gen

-----------------------------------------------------------------------------
(* Types. *)

\* What the actions put together from typed parts is typed.
LEMMA SettledType ==
  ASSUME TypeOK, NEW e \in Runs, NEW gen \in Gen, NEW verdict \in Ended
  PROVE  /\ Settled(e, gen, verdict) \in [state : Alive \cup Ended \cup {"none"},
                                        run : Runs \cup {NoRun}, gen : Gen, aged : BOOLEAN]
         /\ Settled(e, gen, verdict) # row =>
              Settled(e, gen, verdict) = [state |-> verdict, run |-> e, gen |-> gen, aged |-> FALSE]
  BY DEF Settled, TypeOK

\* Dispatch keeps the types.
LEMMA DispatchType ==
  ASSUME TypeOK, NEW n \in Nodes, NEW e \in Runs, DispatchStep(n, e)
  PROVE  TypeOK'
  <1>1. ASSUME Register(n, e) PROVE TypeOK'
    <2>1. seq' \in Gen /\ ledger' \in [Runs -> [status : {"none", "pending", "final"}, gen : Gen]]
      BY <1>1 DEF Register, TypeOK, Gen
    <2>2. jobs' \subseteq [node : Nodes, op : {"running", "wait", "resume"}, run : Runs, gen : Gen]
      BY <1>1 DEF Register, TypeOK, Gen
    <2> QED BY <1>1, <2>1, <2>2 DEF Register, TypeOK
  <1>2. ASSUME Send(n, e) PROVE TypeOK'
    BY <1>2 DEF Send, TypeOK
  <1>3. ASSUME SendFails(n, e) PROVE TypeOK'
    BY <1>3 DEF SendFails, TypeOK, NotDispatching, Gen
  <1>4. ASSUME Launch(n, e) PROVE TypeOK'
    <2>1. jobs' \subseteq [node : Nodes, op : {"running", "wait", "resume"}, run : Runs, gen : Gen]
      BY <1>4 DEF Launch, TypeOK
    <2> QED BY <1>4, <2>1 DEF Launch, TypeOK, NotDispatching
  <1> QED BY <1>1, <1>2, <1>3, <1>4 DEF DispatchStep

\* So do the writes of the row, the cards and the verdicts.
LEMMA WriteType ==
  ASSUME TypeOK
  PROVE  /\ \A j \in jobs : Background(j) => TypeOK'
         /\ \A n \in Nodes, e \in Runs : Ask(n, e) \/ RemoveRun(n, e) => TypeOK'
         /\ \A e \in Runs : CommitVerdict(e) \/ Redeliver(e) => TypeOK'
  <1>1. ASSUME NEW j \in jobs, Background(j) PROVE TypeOK'
    <2> DEFINE Row == [state : Alive \cup Ended \cup {"none"}, run : Runs \cup {NoRun},
                       gen : Gen, aged : BOOLEAN]
    <2>0. j.run \in Runs /\ j.gen \in Gen /\ row \in Row
      BY DEF TypeOK
    <2>1. row' \in Row
      <3>1. UpsertRunning(j) => row' \in Row
        BY <2>0 DEF UpsertRunning, Alive
      <3>2. SetWaiting(j) \/ ResumeFromWaiting(j) => row' \in Row
        BY <2>0 DEF SetWaiting, ResumeFromWaiting, Alive
      <3> QED BY <1>1, <3>1, <3>2 DEF Background
    <2>2. jobs' \subseteq jobs
      BY <1>1 DEF Background, UpsertRunning, SetWaiting, ResumeFromWaiting
    <2> QED BY <1>1, <2>1, <2>2 DEF Background, UpsertRunning, SetWaiting, ResumeFromWaiting, TypeOK
  <1>2. ASSUME NEW n \in Nodes, NEW e \in Runs, Ask(n, e) PROVE TypeOK'
    BY <1>2 DEF Ask, TypeOK, Gen
  <1>3. ASSUME NEW n \in Nodes, NEW e \in Runs, RemoveRun(n, e) PROVE TypeOK'
    BY <1>3 DEF RemoveRun, TypeOK
  <1>4. ASSUME NEW e \in Runs, CommitVerdict(e) PROVE TypeOK'
    <2> DEFINE gen == IF ledger[e].status = "pending" THEN ledger[e].gen ELSE row.gen
    <2>1. gen \in Gen
      BY DEF TypeOK
    <2>2. row' \in [state : Alive \cup Ended \cup {"none"}, run : Runs \cup {NoRun},
                   gen : Gen, aged : BOOLEAN]
      BY <1>4, <2>1, SettledType DEF CommitVerdict, TypeOK, Ended
    <2>3. ledger' \in [Runs -> [status : {"none", "pending", "final"}, gen : Gen]]
      BY <1>4, <2>1 DEF CommitVerdict, TypeOK
    <2> QED BY <1>4, <2>2, <2>3 DEF CommitVerdict, TypeOK
  <1>5. ASSUME NEW e \in Runs, Redeliver(e) PROVE TypeOK'
    BY <1>5 DEF Redeliver, TypeOK
  <1> QED BY <1>1, <1>2, <1>3, <1>4, <1>5

\* So do the sweepers.
LEMMA SweepType ==
  ASSUME TypeOK, NEW n \in Sweepers, SweepStep(n)
  PROVE  TypeOK'
  <1>0. n \in Nodes
    OBVIOUS
  <1>1. ASSUME ListStale(n) PROVE TypeOK'
    BY <1>0, <1>1 DEF ListStale, TypeOK
  <1>2. ASSUME NEW pc, NEW next \in {"records", "newer", "settle"}, NEW holds \in BOOLEAN,
               Check(n, pc, holds, next)
        PROVE  TypeOK'
    <2> DEFINE Sweep == [pc : {"idle", "local", "records", "newer", "settle"},
                         run : Runs \cup {NoRun}, gen : Gen]
    <2>1. sweep \in [Nodes -> Sweep] /\ Idle \in Sweep
      BY DEF TypeOK, Idle, Gen
    <2>2. [sweep[n] EXCEPT !.pc = next] \in Sweep
      BY <1>0, <2>1
    <2> HIDE DEF Sweep
    <2>3. sweep' \in [Nodes -> Sweep]
      BY <1>0, <1>2, <2>1, <2>2 DEF Check
    <2> QED BY <1>2, <2>3 DEF Check, TypeOK, Sweep
  <1>3. CheckLocalRuns(n) \/ CheckDurableRuns(n) \/ CheckNewer(n) => TypeOK'
    BY <1>2 DEF CheckLocalRuns, CheckDurableRuns, CheckNewer, NewerPending
  <1>4. ASSUME Reap(n) PROVE TypeOK'
    <2>1. sweep[n].run \in Runs \cup {NoRun} /\ sweep[n].gen \in Gen
      BY <1>0 DEF TypeOK
    <2>2. row' \in [state : Alive \cup Ended \cup {"none"}, run : Runs \cup {NoRun},
                   gen : Gen, aged : BOOLEAN]
      BY <1>4, <2>1 DEF Reap, Settled, TypeOK, Ended
    <2> QED BY <1>0, <1>4, <2>2 DEF Reap, TypeOK, Idle, Gen
  <1> QED BY <1>1, <1>3, <1>4 DEF SweepStep

\* So do time and faults.
LEMMA TimeType ==
  ASSUME TypeOK
  PROVE  /\ Age => TypeOK'
         /\ \A e \in Runs : ExpireRecord(e) \/ RetireSeed(e) \/ ConnectorDies(e) => TypeOK'
         /\ \A n \in Nodes : Crash(n) => TypeOK'
  <1>1. ASSUME Age PROVE TypeOK'
    BY <1>1 DEF Age, TypeOK
  <1>2. ASSUME NEW e \in Runs, ExpireRecord(e) \/ RetireSeed(e) PROVE TypeOK'
    <2>1. ExpireRecord(e) => TypeOK'
      BY DEF ExpireRecord, TypeOK
    <2>2. RetireSeed(e) => TypeOK'
      BY DEF RetireSeed, TypeOK, Gen
    <2> QED BY <1>2, <2>1, <2>2
  <1>3. ASSUME NEW e \in Runs, ConnectorDies(e) PROVE TypeOK'
    BY <1>3 DEF ConnectorDies, TypeOK
  <1>4. ASSUME NEW n \in Nodes, Crash(n) PROVE TypeOK'
    BY <1>4 DEF Crash, TypeOK, NotDispatching, Idle, Gen
  <1> QED BY <1>1, <1>2, <1>3, <1>4

\* Every step keeps the types.
LEMMA TypeStep == TypeOK /\ [Next]_vars => TypeOK'
  <1> SUFFICES ASSUME TypeOK, [Next]_vars PROVE TypeOK'
    OBVIOUS
  <1>1. CASE UNCHANGED vars
    BY <1>1 DEF TypeOK, vars
  <1> QED BY <1>1, DispatchType, WriteType, SweepType, TimeType DEF Next

-----------------------------------------------------------------------------
(* A step, split into the parts that the conjuncts of IInv tell apart. *)

\* The actions, with the processes that take them.
LEMMA Steps ==
  ASSUME [Next]_vars
  PROVE  \/ \E n \in Nodes, e \in Runs : DispatchStep(n, e) \/ Ask(n, e) \/ RemoveRun(n, e)
         \/ \E e \in Runs : \/ Redeliver(e) \/ CommitVerdict(e) \/ ConnectorDies(e)
                            \/ ExpireRecord(e) \/ RetireSeed(e)
         \/ \E j \in jobs : Background(j)
         \/ \E n \in Nodes : SweepStep(n) \/ Crash(n)
         \/ Age \/ UNCHANGED vars
  BY DEF Next

\* An event that has left its dispatching node is never registered again.
LEMMA DispatchedStays ==
  ASSUME TypeOK, [Next]_vars, NEW e \in Runs, Dispatched(e)
  PROVE  Dispatched(e)'
  <1>1. ASSUME NEW n \in Nodes, NEW r \in Runs, DispatchStep(n, r) PROVE Dispatched(e)'
    <2>1. Register(n, r) \/ SendFails(n, r) => r # e
      BY DEF Register, SendFails, Dispatched
    <2> QED BY <1>1, <2>1 DEF DispatchStep, Register, Send, SendFails, Launch, Dispatched,
                              NotDispatching, TypeOK
  <1>2. ASSUME NEW n \in Nodes, Crash(n) PROVE Dispatched(e)'
    BY <1>2 DEF Crash, Dispatched, NotDispatching, TypeOK
  <1>3. upstream' = upstream /\ disp' = disp => Dispatched(e)'
    BY DEF Dispatched
  <1>4. ASSUME NEW n \in Nodes, NEW r \in Runs, Ask(n, r) \/ RemoveRun(n, r)
        PROVE  upstream' = upstream /\ disp' = disp
    BY <1>4 DEF Ask, RemoveRun
  <1>5. ASSUME NEW r \in Runs, \/ Redeliver(r) \/ CommitVerdict(r) \/ ConnectorDies(r)
                               \/ ExpireRecord(r) \/ RetireSeed(r)
        PROVE  upstream' = upstream /\ disp' = disp
    BY <1>5 DEF Redeliver, CommitVerdict, ConnectorDies, ExpireRecord, RetireSeed
  <1>6. ASSUME NEW j \in jobs, Background(j) PROVE upstream' = upstream /\ disp' = disp
    BY <1>6 DEF Background, UpsertRunning, SetWaiting, ResumeFromWaiting
  <1>7. ASSUME NEW n \in Nodes, SweepStep(n) PROVE upstream' = upstream /\ disp' = disp
    BY <1>7 DEF SweepStep, ListStale, CheckLocalRuns, CheckDurableRuns, CheckNewer, Check, Reap
  <1>8. Age \/ UNCHANGED vars => upstream' = upstream /\ disp' = disp
    BY DEF Age, vars
  <1> QED BY <1>1, <1>2, <1>3, <1>4, <1>5, <1>6, <1>7, <1>8, Steps

\* What an event has left behind keeps its account.
LEMMA AccountedStep ==
  ASSUME TypeOK, Accounted, OnlyDispatched, [Next]_vars
  PROVE  Accounted'
  <1>1. ASSUME NEW n \in Nodes, NEW e \in Runs, DispatchStep(n, e) PROVE Accounted'
    <2>1. Register(n, e) => Accounted'
      BY DEF Register, Accounted, TypeOK, NotDispatching
    <2>2. Send(n, e) => Accounted'
      BY DEF Send, Accounted, TypeOK, NotDispatching
    <2>3. SendFails(n, e) => Accounted'
      BY DEF SendFails, Accounted, TypeOK, NotDispatching
    <2>4. Launch(n, e) => Accounted'
      BY DEF Launch, Accounted, TypeOK, NotDispatching
    <2> QED BY <1>1, <2>1, <2>2, <2>3, <2>4 DEF DispatchStep
  <1>2. ASSUME NEW n \in Nodes, Crash(n) PROVE Accounted'
    BY <1>2 DEF Crash, Accounted, TypeOK, NotDispatching
  <1>3. ASSUME NEW e \in Runs, Redeliver(e) \/ ExpireRecord(e) PROVE Accounted'
    BY <1>3 DEF Redeliver, ExpireRecord, Accounted, TypeOK
  <1>4. ASSUME NEW e \in Runs, CommitVerdict(e) PROVE Accounted'
    <2>1. Dispatched(e)
      BY <1>4 DEF CommitVerdict, OnlyDispatched
    <2> QED BY <1>4, <2>1 DEF CommitVerdict, Dispatched, Accounted, TypeOK
  <1>5. ASSUME NEW e \in Runs, RetireSeed(e) PROVE Accounted'
    BY <1>5 DEF RetireSeed, Accounted, TypeOK, NotDispatching
  <1>6. ASSUME Age PROVE Accounted'
    BY <1>6 DEF Age, Accounted, TypeOK
  <1>7. UNCHANGED <<upstream, record, ledger, disp>> => Accounted'
    BY DEF Accounted
  <1>8. ASSUME NEW n \in Nodes, NEW e \in Runs, Ask(n, e) \/ RemoveRun(n, e)
        PROVE  UNCHANGED <<upstream, record, ledger, disp>>
    BY <1>8 DEF Ask, RemoveRun
  <1>9. ASSUME NEW j \in jobs, Background(j) PROVE UNCHANGED <<upstream, record, ledger, disp>>
    BY <1>9 DEF Background, UpsertRunning, SetWaiting, ResumeFromWaiting
  <1>10. ASSUME NEW n \in Nodes, SweepStep(n) PROVE UNCHANGED <<upstream, record, ledger, disp>>
    BY <1>10 DEF SweepStep, ListStale, CheckLocalRuns, CheckDurableRuns, CheckNewer, Check, Reap
  <1>11. ASSUME NEW e \in Runs, ConnectorDies(e) PROVE UNCHANGED <<upstream, record, ledger, disp>>
    BY <1>11 DEF ConnectorDies
  <1>12. UNCHANGED vars => UNCHANGED <<upstream, record, ledger, disp>>
    BY DEF vars
  <1> QED BY <1>1, <1>2, <1>3, <1>4, <1>5, <1>6, <1>7, <1>8, <1>9, <1>10, <1>11, <1>12, Steps

-----------------------------------------------------------------------------
(* The writes of the row. *)

\* The row stays with its run and generation.
SameRun == row'.run = row.run /\ row'.gen = row.gen /\ (row'.state = "none" <=> row.state = "none")

\* A running write takes the row over or changes nothing.
LEMMA StartWrites ==
  ASSUME IInv, NEW j \in jobs, UpsertRunning(j)
  PROVE  /\ j \in Starts /\ j.run \in Runs
         /\ \/ row' = row
            \/ /\ row' = [state |-> "running", run |-> j.run, gen |-> j.gen, aged |-> FALSE]
               /\ row.run = j.run => row.gen = j.gen
               /\ row.run # j.run => row.gen < j.gen
               /\ row.state \notin Ended \/ row.gen < j.gen
  <1>1. j \in Starts /\ j.run \in Runs /\ j.gen > 0
    BY DEF UpsertRunning, Starts, IInv, TypeOK, GenerationsAgree, StartGenerations
  <1>2. row.run = j.run => row.gen = j.gen
    BY <1>1 DEF IInv, GenerationsAgree, StartGenerations
  <1>3. row.state = "none" => row.gen = 0 /\ row.run = NoRun
    BY DEF IInv, GenerationsAgree, StartGenerations
  <1>4. row.gen \in Nat /\ j.gen \in Nat
    BY DEF IInv, TypeOK, Gen
  <1> QED BY <1>1, <1>2, <1>3, <1>4 DEF UpsertRunning, TakesRow, Ended

\* A verdict has a generation, that of the row and of the writes of the run. It ends
\* the row of the run, or starts one, or changes nothing.
LEMMA VerdictWrites ==
  ASSUME IInv, NEW e \in Runs, CommitVerdict(e)
  PROVE  \E gen \in Gen :
           /\ gen > 0
           /\ ledger' = [ledger EXCEPT ![e] = [status |-> "final", gen |-> gen]]
           /\ row.run = e => row.gen = gen
           /\ \A j \in Starts : j.run = e => j.gen = gen
           /\ \/ row' = row /\ (e \in Tasks => row.run # e \/ row.state \in Ended)
              \/ /\ row' = [state |-> "completed", run |-> e, gen |-> gen, aged |-> FALSE]
                 /\ row.state = "none" \/ (row.run = e /\ row.state \in Alive)
  <1> DEFINE gen == IF ledger[e].status = "pending" THEN ledger[e].gen ELSE row.gen
  <1>1. ledger[e].status = "pending" \/ (ledger[e].status = "none" /\ row.run = e)
    BY DEF CommitVerdict, IInv, TypeOK, Accounted
  <1>2. gen > 0 /\ (row.run = e => row.gen = gen)
    BY <1>1 DEF IInv, GenerationsAgree, StartGenerations
  <1>3. ASSUME NEW j \in Starts, j.run = e PROVE j.gen = gen
    BY <1>1, <1>2, <1>3 DEF IInv, GenerationsAgree, StartGenerations
  <1>4. gen \in Gen
    BY DEF IInv, TypeOK
  <1>5. ledger' = [ledger EXCEPT ![e] = [status |-> "final", gen |-> gen]]
    BY DEF CommitVerdict
  <1>6. \/ row' = row /\ (e \in Tasks => row.run # e \/ row.state \in Ended)
        \/ /\ row' = [state |-> "completed", run |-> e, gen |-> gen, aged |-> FALSE]
           /\ row.state = "none" \/ (row.run = e /\ row.state \in Alive)
    <2>1. row.state \in Alive \cup Ended \cup {"none"}
      BY DEF IInv, TypeOK
    <2> HIDE DEF gen
    <2>2. row' = IF e \in Tasks THEN Settled(e, gen, "completed") ELSE row
      BY DEF CommitVerdict, gen
    <2> QED BY <1>2, <2>1, <2>2 DEF Settled
  <1> HIDE DEF gen
  <1> QED BY <1>2, <1>3, <1>4, <1>5, <1>6

\* A sweeper ends the row of an old run, or changes nothing.
LEMMA ReapWrites ==
  ASSUME IInv, NEW n \in Nodes, Reap(n)
  PROVE  row' = row \/ (SameRun /\ row.run \notin young /\ ~row'.aged /\ row.state \in Alive)
  <1>1. row.state # "none" /\ sweep[n].run \notin young /\ sweep[n].gen > 0
    BY DEF Reap, IInv, SweepsOldRuns
  <1>2. \/ row' = row
        \/ /\ row.run = sweep[n].run /\ row.gen = sweep[n].gen /\ row.state \in Alive
           /\ row' = [state |-> "idle", run |-> sweep[n].run, gen |-> sweep[n].gen, aged |-> FALSE]
    BY <1>1 DEF Reap, Settled
  <1> QED BY <1>1, <1>2 DEF SameRun, Alive

\* The writes for cards and the passing of time leave the run of the row alone.
LEMMA OtherWrites ==
  ASSUME IInv
  PROVE  /\ \A j \in jobs : SetWaiting(j) \/ ResumeFromWaiting(j) =>
              row' = row \/ (SameRun /\ ~row'.aged /\ row.state \in Alive)
         /\ Age => /\ SameRun /\ row'.state = row.state /\ young' = {}
                   /\ row.state \in Ended => row' = [row EXCEPT !.aged = TRUE]
  <1>1. row \in [state : Alive \cup Ended \cup {"none"}, run : Runs \cup {NoRun},
                gen : Gen, aged : BOOLEAN]
    BY DEF IInv, TypeOK
  <1>2. ASSUME NEW j \in jobs, SetWaiting(j) \/ ResumeFromWaiting(j)
        PROVE  row' = row \/ (SameRun /\ ~row'.aged /\ row.state \in Alive)
    BY <1>1, <1>2 DEF SetWaiting, ResumeFromWaiting, SameRun, Alive
  <1>3. ASSUME Age PROVE /\ SameRun /\ row'.state = row.state /\ young' = {}
                         /\ row.state \in Ended => row' = [row EXCEPT !.aged = TRUE]
    BY <1>1, <1>3 DEF Age, SameRun, Ended
  <1> QED BY <1>2, <1>3

-----------------------------------------------------------------------------
(* The steps that only forget. *)

\* The row stays, writes under way and sweeps at most end, ledger rows at most vanish.
Calm ==
  /\ row' = row /\ young' = young /\ Starts' \subseteq Starts
  /\ \A e \in Runs : ledger'[e] = ledger[e] \/ ledger'[e].status = "none"
  /\ \A n \in Nodes :
       \/ sweep'[n] \in {sweep[n], Idle}
       \/ /\ sweep[n].pc # "idle"
          /\ sweep'[n].run = sweep[n].run /\ sweep'[n].gen = sweep[n].gen

\* The steps that do more.
Registers == \E n \in Nodes, e \in Runs : Register(n, e)
Launches == \E n \in Nodes, e \in Runs : Launch(n, e)
Writes == \E j \in jobs : UpsertRunning(j)
Cards == \E j \in jobs : SetWaiting(j) \/ ResumeFromWaiting(j)
Verdict == \E e \in Runs : CommitVerdict(e)
Lists == \E n \in Nodes : ListStale(n)
Reaps == \E n \in Nodes : Reap(n)

\* Every step is one of these.
LEMMA CalmOr ==
  ASSUME TypeOK, [Next]_vars
  PROVE  Calm \/ Registers \/ Launches \/ Writes \/ Cards \/ Verdict \/ Lists \/ Reaps \/ Age
  <1>1. ASSUME NEW n \in Nodes, NEW e \in Runs, Send(n, e) PROVE Calm
    BY <1>1 DEF Send, Calm, Starts
  <1>2. ASSUME NEW n \in Nodes, NEW e \in Runs, SendFails(n, e) PROVE Calm
    BY <1>2 DEF SendFails, Calm, Starts, TypeOK
  <1>3. ASSUME NEW n \in Nodes, NEW e \in Runs, Ask(n, e) PROVE Calm
    BY <1>3 DEF Ask, Calm, Starts
  <1>4. ASSUME NEW n \in Nodes, NEW e \in Runs, RemoveRun(n, e) PROVE Calm
    BY <1>4 DEF RemoveRun, Calm, Starts
  <1>5. ASSUME NEW e \in Runs, Redeliver(e) \/ ConnectorDies(e) \/ ExpireRecord(e) PROVE Calm
    BY <1>5 DEF Redeliver, ConnectorDies, ExpireRecord, Calm, Starts
  <1>6. ASSUME NEW e \in Runs, RetireSeed(e) PROVE Calm
    BY <1>6 DEF RetireSeed, Calm, Starts, TypeOK
  <1>7. ASSUME NEW n \in Nodes, Crash(n) PROVE Calm
    BY <1>7 DEF Crash, Calm, Starts, TypeOK
  <1>8. ASSUME NEW n \in Nodes, NEW pc \in {"local", "records", "newer"}, NEW next, NEW holds,
               Check(n, pc, holds, next)
        PROVE  Calm
    BY <1>8 DEF Check, Calm, Starts, TypeOK
  <1>9. ASSUME NEW n \in Nodes, CheckLocalRuns(n) \/ CheckDurableRuns(n) \/ CheckNewer(n) PROVE Calm
    BY <1>8, <1>9 DEF CheckLocalRuns, CheckDurableRuns, CheckNewer
  <1>10. UNCHANGED vars => Calm
    BY DEF vars, Calm, Starts
  <1> QED BY <1>1, <1>2, <1>3, <1>4, <1>5, <1>6, <1>7, <1>9, <1>10, Steps
          DEF DispatchStep, Background, SweepStep, Registers, Launches, Writes, Cards, Verdict, Lists, Reaps

-----------------------------------------------------------------------------
(* The other conjuncts of IInv. *)

\* Only events that have left their dispatching node come to be held.
LEMMA HeldStep ==
  ASSUME IInv, [Next]_vars, NEW e \in held'
  PROVE  e \in Runs /\ Dispatched(e)'
  <1>0. TypeOK /\ OnlyDispatched /\ Accounted
    BY DEF IInv
  <1>1. ASSUME e \in held PROVE e \in Runs /\ Dispatched(e)'
    BY <1>0, <1>1, DispatchedStays DEF OnlyDispatched, TypeOK
  <1>2. ASSUME NEW n \in Nodes, NEW r \in Runs, Send(n, r) PROVE e \in held \/ Dispatched(e)'
    BY <1>0, <1>2 DEF Send, Dispatched, Accounted, TypeOK, NotDispatching
  <1>3. ASSUME NEW r \in Runs, Redeliver(r) PROVE e \in held \/ Dispatched(e)'
    BY <1>0, <1>3 DEF Redeliver, Dispatched, Accounted, NotDispatching
  <1>4. ASSUME NEW n \in Nodes, NEW r \in Runs,
               Register(n, r) \/ SendFails(n, r) \/ Launch(n, r) \/ Ask(n, r) \/ RemoveRun(n, r)
        PROVE  e \in held
    BY <1>4 DEF Register, SendFails, Launch, Ask, RemoveRun
  <1>5. ASSUME NEW r \in Runs,
               CommitVerdict(r) \/ ConnectorDies(r) \/ ExpireRecord(r) \/ RetireSeed(r)
        PROVE  e \in held
    BY <1>5 DEF CommitVerdict, ConnectorDies, ExpireRecord, RetireSeed
  <1>6. ASSUME NEW j \in jobs, Background(j) PROVE e \in held
    BY <1>6 DEF Background, UpsertRunning, SetWaiting, ResumeFromWaiting
  <1>7. ASSUME NEW n \in Nodes, SweepStep(n) \/ Crash(n) PROVE e \in held
    BY <1>7 DEF SweepStep, ListStale, CheckLocalRuns, CheckDurableRuns, CheckNewer, Check, Reap, Crash
  <1>8. Age \/ UNCHANGED vars => e \in held
    BY DEF Age, vars
  <1>9. e \in Runs
    BY TypeStep, <1>0 DEF TypeOK
  <1> QED BY <1>1, <1>2, <1>3, <1>4, <1>5, <1>6, <1>7, <1>8, <1>9, Steps DEF DispatchStep

\* Only dispatched runs come to be at work, written, shown or scanned.
LEMMA OnlyDispatchedStep ==
  ASSUME IInv, [Next]_vars
  PROVE  OnlyDispatched'
  <1>0. TypeOK /\ OnlyDispatched /\ Accounted
    BY DEF IInv
  <1>1. \A e \in Runs : Dispatched(e) => Dispatched(e)'
    BY <1>0, DispatchedStays
  <1>2. /\ \A e \in held : e \in Runs /\ Dispatched(e)
        /\ \A j \in Starts : j.run \in Runs /\ Dispatched(j.run)
        /\ row.run # NoRun => row.run \in Runs /\ Dispatched(row.run)
        /\ \A n \in Nodes : sweep[n].run # NoRun => sweep[n].run \in Runs /\ Dispatched(sweep[n].run)
    BY <1>0 DEF OnlyDispatched, TypeOK, Starts
  <1>3. ASSUME Calm PROVE OnlyDispatched'
    <2>1. \A n \in Nodes : sweep'[n].run \in {sweep[n].run, NoRun}
      BY <1>3 DEF Calm, Idle
    <2> QED BY <1>1, <1>2, <1>3, <2>1, HeldStep DEF Calm, OnlyDispatched
  <1>4. ASSUME Registers \/ Launches PROVE OnlyDispatched'
    <2>1. row' = row /\ sweep' = sweep
      BY <1>4 DEF Registers, Launches, Register, Launch
    <2>2. ASSUME NEW j \in Starts' PROVE j \in Starts \/ (j.run \in Runs /\ Dispatched(j.run))
      <3>1. Registers => j \in Starts
        BY DEF Registers, Register, Starts
      <3>2. ASSUME NEW n \in Nodes, NEW e \in Runs, Launch(n, e)
            PROVE  j \in Starts \/ (j.run = e /\ Dispatched(e))
        BY <1>0, <3>2 DEF Launch, Starts, Dispatched, Accounted, NotDispatching
      <3> QED BY <1>4, <3>1, <3>2 DEF Launches
    <2> QED BY <1>1, <1>2, <2>1, <2>2, HeldStep DEF OnlyDispatched
  <1>5. ASSUME Writes \/ Cards \/ Verdict PROVE OnlyDispatched'
    <2>1. sweep' = sweep /\ Starts' \subseteq Starts
      BY <1>5 DEF Writes, Cards, Verdict, UpsertRunning, SetWaiting, ResumeFromWaiting, CommitVerdict, Starts
    <2>2. Writes => row'.run = row.run \/ \E j \in Starts : row'.run = j.run
      BY StartWrites DEF Writes
    <2>3. Cards => row'.run = row.run
      BY OtherWrites DEF Cards, SameRun
    <2>4. Verdict => row'.run = row.run \/ row'.run \in held
      <3>1. ASSUME NEW e \in Runs, CommitVerdict(e) PROVE row'.run = row.run \/ row'.run = e
        BY <3>1, VerdictWrites
      <3> QED BY <3>1 DEF Verdict, CommitVerdict
    <2>5. row'.run # NoRun => row'.run \in Runs /\ Dispatched(row'.run)
      BY <1>2, <1>5, <2>2, <2>3, <2>4
    <2> QED BY <1>1, <1>2, <2>1, <2>5, HeldStep DEF OnlyDispatched
  <1>6. ASSUME Lists \/ Reaps PROVE OnlyDispatched'
    <2>1. Starts' = Starts /\ row'.run = row.run
      BY <1>6, ReapWrites DEF Lists, Reaps, ListStale, Reap, Starts, SameRun
    <2>2. \A n \in Nodes : sweep'[n].run \in {sweep[n].run, row.run, NoRun}
      <3>1. ASSUME NEW m \in Nodes, ListStale(m) \/ Reap(m)
            PROVE  \A n \in Nodes : sweep'[n].run \in {sweep[n].run, row.run, NoRun}
        <4>1. ListStale(m) => sweep'[m].run = row.run
          BY <1>0 DEF ListStale, TypeOK
        <4>2. Reap(m) => sweep'[m].run = NoRun
          BY <1>0 DEF Reap, TypeOK, Idle
        <4>3. \A n \in Nodes \ {m} : sweep'[n] = sweep[n]
          BY <1>0, <3>1 DEF ListStale, Reap, TypeOK
        <4> QED BY <3>1, <4>1, <4>2, <4>3
      <3> QED BY <1>6, <3>1 DEF Lists, Reaps
    <2> QED BY <1>1, <1>2, <2>1, <2>2, HeldStep DEF OnlyDispatched
  <1>7. ASSUME Age PROVE OnlyDispatched'
    <2>1. Starts' = Starts /\ row'.run = row.run /\ sweep' = sweep
      BY <1>7, OtherWrites DEF Age, Starts, SameRun
    <2> QED BY <1>1, <1>2, <2>1, HeldStep DEF OnlyDispatched
  <1> QED BY <1>0, <1>3, <1>4, <1>5, <1>6, <1>7, CalmOr

\* The generations of a run keep agreeing.
LEMMA GenerationsStep ==
  ASSUME IInv, [Next]_vars
  PROVE  GenerationsAgree'
  <1>0. TypeOK /\ OnlyDispatched /\ Accounted /\ GenerationsAgree
    BY DEF IInv
  <1>1. \A j \in Starts : j.run \in Runs
    BY <1>0 DEF Starts, TypeOK
  <1>2. row.run # NoRun => row.run \in Runs
    BY <1>0 DEF TypeOK
  <1>3. ASSUME SameRun, Starts' \subseteq Starts,
               \A e \in Runs : ledger'[e] = ledger[e] \/ ledger'[e].status = "none"
        PROVE  GenerationsAgree'
    BY <1>0, <1>1, <1>2, <1>3 DEF GenerationsAgree, StartGenerations, SameRun
  <1>4. Calm => GenerationsAgree'
    BY <1>3 DEF Calm, SameRun
  <1>5. ASSUME NEW n \in Nodes, NEW e \in Runs, Register(n, e) PROVE GenerationsAgree'
    <2>1. row.run # e /\ \A j \in Starts : j.run # e
      BY <1>0, <1>5 DEF Register, OnlyDispatched, Dispatched
    <2>2. row' = row /\ Starts' = Starts
      BY <1>5 DEF Register, Starts
    <2>3. /\ ledger'[e].gen > 0
          /\ \A r \in Runs \ {e} : ledger'[r] = ledger[r]
      BY <1>0, <1>5 DEF Register, TypeOK, Gen
    <2> QED BY <1>0, <1>1, <1>2, <2>1, <2>2, <2>3 DEF GenerationsAgree, StartGenerations
  <1>6. ASSUME NEW n \in Nodes, NEW e \in Runs, Launch(n, e) PROVE GenerationsAgree'
    <2>1. ledger[e].status # "none" /\ row' = row /\ ledger' = ledger
      BY <1>0, <1>6 DEF Launch, Accounted
    <2>2. \A j \in Starts' : j \in Starts \/ (j.run = e /\ j.gen = ledger[e].gen)
      BY <1>6 DEF Launch, Starts
    <2>3. ASSUME NEW j \in Starts'
          PROVE  /\ j.gen > 0
                 /\ ledger'[j.run].status # "none" => ledger'[j.run].gen = j.gen
                 /\ row'.run = j.run => row'.gen = j.gen
      BY <1>0, <2>1, <2>2 DEF GenerationsAgree, StartGenerations
    <2>4. ASSUME NEW i \in Starts', NEW j \in Starts', i.run = j.run
          PROVE  i.gen = j.gen
      BY <1>0, <2>1, <2>2, <2>4 DEF GenerationsAgree, StartGenerations
    <2>5. /\ \A r \in Runs : ledger'[r].status # "none" => ledger'[r].gen > 0
          /\ row'.state = "none" <=> row'.run = NoRun
          /\ row'.state = "none" => row'.gen = 0
          /\ row'.run # NoRun =>
               /\ row'.gen > 0
               /\ ledger'[row'.run].status # "none" => ledger'[row'.run].gen = row'.gen
      BY <1>0, <2>1 DEF GenerationsAgree, StartGenerations
    <2>6. StartGenerations'
      BY <2>3, <2>4 DEF StartGenerations
    <2> QED BY <2>5, <2>6 DEF GenerationsAgree
  <1>7. ASSUME NEW j \in jobs, UpsertRunning(j) PROVE GenerationsAgree'
    <2>1. Starts' \subseteq Starts /\ ledger' = ledger /\ j \in Starts /\ j.run \in Runs
      BY <1>7, StartWrites DEF UpsertRunning, Starts
    <2>2. ASSUME row' = [state |-> "running", run |-> j.run, gen |-> j.gen, aged |-> FALSE]
          PROVE  GenerationsAgree'
      <3>1. row'.state # "none" /\ row'.run = j.run /\ row'.run # NoRun /\ row'.gen = j.gen /\ j.gen > 0
        BY <1>0, <2>1, <2>2 DEF GenerationsAgree, StartGenerations
      <3>2. \A i \in Starts' : row'.run = i.run => row'.gen = i.gen
        BY <1>0, <2>1, <3>1 DEF GenerationsAgree, StartGenerations
      <3>3. ledger[j.run].status # "none" => ledger[j.run].gen = j.gen
        BY <1>0, <2>1 DEF GenerationsAgree, StartGenerations
      <3> QED BY <1>0, <2>1, <3>1, <3>2, <3>3 DEF GenerationsAgree, StartGenerations
    <2>3. row' = row => GenerationsAgree'
      BY <1>3, <2>1 DEF SameRun
    <2> QED BY <1>7, <2>2, <2>3, StartWrites
  <1>8. ASSUME NEW j \in jobs, SetWaiting(j) \/ ResumeFromWaiting(j) PROVE GenerationsAgree'
    <2>1. SameRun
      BY <1>8, OtherWrites DEF SameRun
    <2>2. Starts' \subseteq Starts /\ ledger' = ledger
      BY <1>8 DEF SetWaiting, ResumeFromWaiting, Starts
    <2> QED BY <1>3, <2>1, <2>2
  <1>9. ASSUME NEW e \in Runs, CommitVerdict(e) PROVE GenerationsAgree'
    <2>1. Starts' = Starts
      BY <1>9 DEF CommitVerdict, Starts
    <2>2. PICK gen \in Gen :
           /\ gen > 0
           /\ ledger' = [ledger EXCEPT ![e] = [status |-> "final", gen |-> gen]]
           /\ row.run = e => row.gen = gen
           /\ \A j \in Starts : j.run = e => j.gen = gen
           /\ \/ row' = row
              \/ row' = [state |-> "completed", run |-> e, gen |-> gen, aged |-> FALSE]
      BY <1>9, VerdictWrites
    <2>3. /\ ledger'[e].gen = gen
          /\ \A r \in Runs \ {e} : ledger'[r] = ledger[r]
      BY <1>0, <2>2 DEF TypeOK
    <2> QED BY <1>0, <1>1, <1>2, <2>1, <2>2, <2>3 DEF GenerationsAgree, StartGenerations
  <1>10. ASSUME Lists \/ Reaps \/ Age PROVE GenerationsAgree'
    <2>1. SameRun
      BY <1>10, ReapWrites, OtherWrites DEF Lists, Reaps, ListStale, SameRun
    <2>2. Starts' \subseteq Starts /\ ledger' = ledger
      BY <1>10 DEF Lists, Reaps, ListStale, Reap, Age, Starts
    <2> QED BY <1>3, <2>1, <2>2
  <1> QED BY <1>0, <1>4, <1>5, <1>6, <1>7, <1>8, <1>9, <1>10, CalmOr
          DEF Registers, Launches, Writes, Cards, Verdict

\* Sweepers at work keep to old runs: a run becomes new only when it is registered.
LEMMA SweepsStep ==
  ASSUME IInv, [Next]_vars
  PROVE  SweepsOldRuns'
  <1>0. TypeOK /\ OnlyDispatched /\ GenerationsAgree /\ SweepsOldRuns
    BY DEF IInv
  <1>1. ASSUME \A n \in Nodes : \/ sweep'[n] \in {sweep[n], Idle}
                               \/ /\ sweep[n].pc # "idle"
                                  /\ sweep'[n].run = sweep[n].run /\ sweep'[n].gen = sweep[n].gen,
               \A n \in Nodes : sweep[n].pc # "idle" => sweep[n].run \notin young',
               row.state # "none" => row'.state # "none",
               row'.aged => row'.run \notin young'
        PROVE  SweepsOldRuns'
    BY <1>0, <1>1 DEF SweepsOldRuns, Idle
  <1>2. ASSUME Calm PROVE SweepsOldRuns'
    BY <1>0, <1>1, <1>2 DEF Calm, SweepsOldRuns
  <1>3. ASSUME NEW n \in Nodes, NEW e \in Runs, Register(n, e) PROVE SweepsOldRuns'
    <2>1. row.run # e /\ \A m \in Nodes : sweep[m].run # e
      BY <1>0, <1>3 DEF Register, OnlyDispatched, Dispatched
    <2>2. row' = row /\ sweep' = sweep /\ young' = young \cup {e}
      BY <1>3 DEF Register
    <2> QED BY <1>0, <1>1, <2>1, <2>2 DEF SweepsOldRuns
  <1>4. ASSUME Launches PROVE SweepsOldRuns'
    BY <1>0, <1>1, <1>4 DEF Launches, Launch, SweepsOldRuns
  <1>5. ASSUME Writes \/ Cards \/ Verdict PROVE SweepsOldRuns'
    <2>1. sweep' = sweep /\ young' = young
      BY <1>5 DEF Writes, Cards, Verdict, UpsertRunning, SetWaiting, ResumeFromWaiting, CommitVerdict
    <2>2. row' = row \/ (~row'.aged /\ row'.state # "none")
      <3>1. Writes => row' = row \/ (~row'.aged /\ row'.state # "none")
        BY StartWrites DEF Writes
      <3>2. Cards => row' = row \/ (~row'.aged /\ row'.state # "none")
        BY OtherWrites DEF Cards, SameRun, Alive
      <3>3. Verdict => row' = row \/ (~row'.aged /\ row'.state # "none")
        BY VerdictWrites DEF Verdict
      <3> QED BY <1>5, <3>1, <3>2, <3>3
    <2> QED BY <1>0, <1>1, <2>1, <2>2 DEF SweepsOldRuns
  <1>6. ASSUME NEW n \in Nodes, ListStale(n) PROVE SweepsOldRuns'
    <2>1. row' = row /\ young' = young /\ row.state # "none" /\ row.aged
      BY <1>6 DEF ListStale
    <2>2. row.run \in Runs \ young /\ row.gen > 0
      BY <1>0, <2>1 DEF SweepsOldRuns, GenerationsAgree, StartGenerations, TypeOK
    <2>3. /\ sweep'[n].run = row.run /\ sweep'[n].gen = row.gen
          /\ \A m \in Nodes \ {n} : sweep'[m] = sweep[m]
      BY <1>0, <1>6 DEF ListStale, TypeOK
    <2> QED BY <1>0, <2>1, <2>2, <2>3 DEF SweepsOldRuns
  <1>7. ASSUME NEW n \in Nodes, Reap(n) PROVE SweepsOldRuns'
    <2>1. young' = young /\ \A m \in Nodes : sweep'[m] \in {sweep[m], Idle}
      BY <1>0, <1>7 DEF Reap, TypeOK
    <2>2. row' = row \/ (SameRun /\ ~row'.aged)
      BY <1>7, ReapWrites
    <2> QED BY <1>0, <1>1, <2>1, <2>2 DEF SweepsOldRuns, SameRun
  <1>8. ASSUME Age PROVE SweepsOldRuns'
    <2>1. sweep' = sweep /\ young' = {} /\ SameRun
      BY <1>8, OtherWrites DEF Age
    <2> QED BY <1>0, <1>1, <2>1 DEF SweepsOldRuns, SameRun
  <1> QED BY <1>0, <1>2, <1>3, <1>4, <1>5, <1>6, <1>7, <1>8, CalmOr DEF Registers, Lists, Reaps

-----------------------------------------------------------------------------
(* Theorems. *)

\* IInv holds always.
THEOREM InvariantHolds == Spec => []IInv
  <1>1. Init => IInv
    BY InitInv
  <1>2. IInv /\ [Next]_vars => IInv'
    BY TypeStep, AccountedStep, OnlyDispatchedStep, GenerationsStep, SweepsStep DEF IInv
  <1> QED BY <1>1, <1>2, PTL DEF Spec

\* Row, ledger, records, memory of the nodes and sweepers keep their types.
THEOREM TypeCorrect == Spec => []TypeOK
  <1>1. IInv => TypeOK
    BY DEF IInv
  <1> QED BY <1>1, InvariantHolds, PTL

\* An ended row is only taken over by a run of a greater generation, and no
\* generation falls: delayed background writes, verdicts and sweepers included.
THEOREM RowOnlyMovesForward == Spec => RowMovesForward
  <1> DEFINE Forward ==
        /\ row'.gen >= row.gen
        /\ row.state \in Ended => row' \in {row, [row EXCEPT !.aged = TRUE]} \/ row'.gen > row.gen
  <1>1. ASSUME IInv, [Next]_vars PROVE Forward
    <2>0. row.gen \in Nat /\ row.state \in Alive \cup Ended \cup {"none"}
      BY <1>1 DEF IInv, TypeOK, Gen
    <2>1. row' = row => Forward
      BY <2>0
    <2>2. Calm \/ Registers \/ Launches \/ Lists => row' = row
      BY DEF Calm, Registers, Launches, Lists, Register, Launch, ListStale
    <2>3. ASSUME NEW j \in jobs, UpsertRunning(j) PROVE Forward
      <3>1. j.gen \in Nat
        BY <1>1 DEF IInv, TypeOK, Gen
      <3> QED BY <1>1, <2>0, <2>1, <2>3, <3>1, StartWrites
    <2>4. ASSUME NEW e \in Runs, CommitVerdict(e) PROVE Forward
      <3>1. row.state = "none" => row.gen = 0
        BY <1>1 DEF IInv, GenerationsAgree, StartGenerations
      <3> QED BY <1>1, <2>0, <2>1, <2>4, <3>1, VerdictWrites DEF Gen, Alive, Ended
    <2>5. Cards \/ Reaps => Forward
      BY <1>1, <2>0, <2>1, OtherWrites, ReapWrites DEF Cards, Reaps, SameRun, Alive, Ended
    <2>6. Age => Forward
      BY <1>1, <2>0, OtherWrites DEF SameRun
    <2> QED BY <1>1, <2>1, <2>2, <2>3, <2>4, <2>5, <2>6, CalmOr DEF IInv, Writes, Verdict
  <1>2. IInv /\ [Next]_vars => [Forward]_vars
    BY <1>1
  <1> QED BY <1>2, InvariantHolds, PTL DEF Spec, RowMovesForward

\* The verdict of a task of the owner ends the row that shows the task alive.
THEOREM VerdictsEndTheirRow == Spec => VerdictEndsRow
  <1> DEFINE Ends ==
        \A e \in Tasks : ledger[e].status # "final" /\ ledger'[e].status = "final" =>
          row'.run # e \/ row'.state \in Ended
  <1>1. ASSUME IInv, [Next]_vars PROVE Ends
    <2>1. ASSUME NEW e \in Runs, CommitVerdict(e) PROVE Ends
      <3>1. \A r \in Runs \ {e} : ledger'[r] = ledger[r]
        BY <1>1, <2>1 DEF CommitVerdict, IInv, TypeOK
      <3>2. e \in Tasks => row'.run # e \/ row'.state \in Ended
        BY <1>1, <2>1, VerdictWrites DEF Ended
      <3> QED BY <3>1, <3>2 DEF Runs
    <2>2. Calm => Ends
      BY DEF Calm, Runs
    <2>3. ASSUME NEW n \in Nodes, NEW e \in Runs, Register(n, e) PROVE Ends
      BY <1>1, <2>3 DEF Register, IInv, TypeOK, Runs
    <2>4. Launches \/ Writes \/ Cards \/ Lists \/ Reaps \/ Age => ledger' = ledger
      BY DEF Launches, Writes, Cards, Lists, Reaps, Launch, UpsertRunning, SetWaiting,
             ResumeFromWaiting, ListStale, Reap, Age
    <2> QED BY <1>1, <2>1, <2>2, <2>3, <2>4, CalmOr DEF IInv, Registers, Verdict
  <1>2. IInv /\ [Next]_vars => [Ends]_vars
    BY <1>1
  <1> QED BY <1>2, InvariantHolds, PTL DEF Spec, VerdictEndsRow

\* No sweeper ends a run that was dispatched within the threshold.
THEOREM SweepersSpareNewRuns == Spec => SweepSparesNewRuns
  <1> DEFINE Spares ==
        \A n \in Nodes :
          sweep[n].pc = "settle" /\ sweep'[n] = Idle /\ row'.state # row.state =>
            row.run \notin young
  <1>1. ASSUME IInv, [Next]_vars PROVE Spares
    <2>1. Reaps => row' = row \/ row.run \notin young
      BY <1>1, ReapWrites DEF Reaps
    <2>2. Calm \/ Registers \/ Launches \/ Lists => row' = row
      BY DEF Calm, Registers, Launches, Lists, Register, Launch, ListStale
    <2>3. Writes \/ Cards \/ Verdict \/ Age => sweep' = sweep
      BY DEF Writes, Cards, Verdict, UpsertRunning, SetWaiting, ResumeFromWaiting, CommitVerdict, Age
    <2> QED BY <1>1, <2>1, <2>2, <2>3, CalmOr DEF IInv, Idle
  <1>2. IInv /\ [Next]_vars => [Spares]_vars
    BY <1>1
  <1> QED BY <1>2, InvariantHolds, PTL DEF Spec, SweepSparesNewRuns
================================================================================
