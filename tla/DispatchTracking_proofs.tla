------------------------ MODULE DispatchTracking_proofs ------------------------
(***************************************************************************)
(* Proofs about DispatchTracking, for any nodes, goroutines, attempts,      *)
(* dispatches and faults.                                                   *)
(***************************************************************************)
EXTENDS DispatchTracking, FiniteSetTheorems, TLAPS

\* A retry of this goroutine has its claim; its claim is marked as dispatched; the
\* first packet of a record is its to send.
Retrying == {"bump", "mark", "recheck", "retrySend", "release"}
InFlight == {"recheck", "retrySend", "release"}
First == {"track", "send"}

Pushing == {"seed", "adopt", "create", "track", "send", "rollback", "rollbackDelete",
            "rollbackDrop"}
Unrecorded == {"seed", "adopt", "create", "track"}
Recovering(r) == r.pc = "recover" \/ (r.pc = "load" /\ r.then = "recover")
Retiring(r) == r.pc \in {"retireCheck", "retireDelete"}
               \/ (r.pc = "load" /\ r.then = "retireCheck")

\* The fields of a goroutine agree with each other. Only a first send is attempt 1.
Coherent(r) ==
  /\ r.attempt \in Nat /\ r.life \in Nat
  /\ r.pc \in Unrecorded => r.attempt = 0
  /\ r.pc = "send" => r.attempt = 1
  /\ r.pc \in Retrying => r.attempt >= 2
  /\ r.kind = "resume" /\ Recovering(r) => r.attempt >= 2
  /\ r.pc = "idle" => r.kind = "none"
  /\ r.pc \in Pushing => r.kind = "push"
  /\ r.pc = "unindex" => r.kind \in {"push", "retire"}
  /\ Retiring(r) => r.kind = "retire"
  /\ r.pc = "load" => r.then \in {"recover", "sync", "retireCheck"}

Stages == {"none", "ack", "result", "closed"}
BookFields == {"owed", "erased", "pushes", "gens", "lives", "faults"}

Shapes ==
  /\ DOMAIN tasks = Tasks /\ \A t \in Tasks : DOMAIN tasks[t] = DOMAIN Idle
  /\ DOMAIN record = DOMAIN NoRecord
  /\ DOMAIN wire = {"sent", "twice", "received"}
  /\ DOMAIN book = BookFields /\ book.lives \in Nat

TasksOK == \A t \in Tasks : Coherent(tasks[t])

RecordOK ==
  /\ record.stage \in Stages
  /\ record.version \in Nat /\ record.attempt \in Nat /\ record.life \in Nat
  /\ record.stage # "none" => record.attempt >= 1 /\ record.life <= book.lives
  /\ record.stage # "none" /\ record.claimed => record.attempt >= 2

\* A token that was given out: records of its life have not been created yet, are
\* gone, or have counted the attempt.
Past(life, attempt) ==
  /\ life \in Nat /\ attempt \in Nat /\ life <= book.lives
  /\ record.stage # "none" /\ life = record.life => attempt <= record.attempt

Known ==
  /\ \A t \in Tasks : Past(tasks[t].life, tasks[t].attempt)
  /\ \A env \in envelopes : env.attempt >= 2 /\ Past(env.life, env.attempt)
  /\ \A p \in wire.sent : p = <<p[1], p[2]>> /\ Past(p[1], p[2])

SameToken(q, r) == q.life = r.life /\ q.attempt = r.attempt

\* What a goroutine is about to send has not been sent, and no other is about to.
Unique ==
  /\ wire.twice = FALSE
  /\ \A t \in Tasks : tasks[t].pc \in InFlight =>
       /\ <<tasks[t].life, tasks[t].attempt>> \notin wire.sent
       /\ \A s \in Tasks :
            tasks[s].pc \in InFlight /\ SameToken(tasks[s], tasks[t]) => s = t
  /\ \A t \in Tasks : tasks[t].pc \in First =>
       /\ <<tasks[t].life, 1>> \notin wire.sent
       /\ \A s \in Tasks : tasks[s].pc \in First /\ tasks[s].life = tasks[t].life => s = t

\* The claim that the record carries is marked while its packet is being sent and after.
Marked ==
  /\ \A t \in Tasks : tasks[t].pc \in InFlight /\ Current(t, record) => record.dispatched
  /\ /\ record.stage = "ack" /\ record.claimed
     /\ <<record.life, record.attempt>> \in wire.sent
     => record.dispatched

DInv == Shapes /\ TasksOK /\ RecordOK /\ Known /\ Unique /\ Marked

-----------------------------------------------------------------------------
(* How a goroutine moves                                                     *)

Moved(t) ==
  /\ DOMAIN tasks' = Tasks /\ DOMAIN tasks'[t] = DOMAIN Idle
  /\ \A s \in Tasks : s # t => tasks'[s] = tasks[s]

Kept(t) ==
  /\ tasks'[t].kind = tasks[t].kind /\ tasks'[t].life = tasks[t].life
  /\ tasks'[t].attempt = tasks[t].attempt

BookStays == DOMAIN book' = BookFields /\ book'.lives = book.lives

LEMMA GotoMoves ==
  ASSUME Shapes, NEW t \in Tasks, NEW label, Goto(t, label)
  PROVE  Moved(t) /\ Kept(t) /\ tasks'[t].pc = label /\ tasks'[t].then = tasks[t].then
BY DEF Shapes, Goto, Moved, Kept, Idle

LEMMA GoOnMoves ==
  ASSUME Shapes, NEW t \in Tasks, NEW label, GoOn(t, label)
  PROVE  Moved(t) /\ Kept(t) /\ tasks'[t].pc = label /\ tasks'[t].then = tasks[t].then
BY DEF Shapes, GoOn, Moved, Kept, Idle

LEMMA LoadThenMoves ==
  ASSUME Shapes, NEW t \in Tasks, NEW label, LoadThen(t, label)
  PROVE  /\ Moved(t) /\ tasks'[t].pc = "load" /\ tasks'[t].then = label
         /\ tasks'[t].kind = tasks[t].kind /\ tasks'[t].life = 0 /\ tasks'[t].attempt = 0
BY DEF Shapes, LoadThen, Moved, Idle

LEMMA EndMoves ==
  ASSUME Shapes, NEW t \in Tasks, End(t)
  PROVE  Moved(t) /\ tasks'[t] = Idle
BY DEF Shapes, End, Moved

LEMMA StartMoves ==
  ASSUME Shapes, NEW t \in Tasks, NEW r, DOMAIN r = DOMAIN Idle,
         tasks' = [tasks EXCEPT ![t] = r]
  PROVE  Moved(t) /\ tasks'[t] = r
BY DEF Shapes, Moved

LEMMA BookMoves ==
  ASSUME Shapes, NEW t \in Tasks,
         UNCHANGED book \/ Fault \/ CallFails(t) \/ book' = PushFailed(t)
  PROVE  BookStays
BY DEF Shapes, BookStays, BookFields, Fault, CallFails, PushFailed

LEMMA LoadsKeepsBook ==
  ASSUME Shapes, NEW r, Loads(r)
  PROVE  BookStays
BY DEF Shapes, BookStays, BookFields, Fault, Loads

\* Envelopes carry tokens that were given out.
EnvelopesOK ==
  \A env \in envelopes' :
    env \in envelopes \/ (env.attempt >= 2 /\ Past(env.life, env.attempt))

\* Tokens that were given out stay given out.
PastStays == \A l, a \in Nat : Past(l, a) => Past(l, a)'

\* No goroutine takes up a packet to send.
TakesNoPacket(t) ==
  /\ tasks'[t].pc \in InFlight =>
       tasks[t].pc \in InFlight /\ SameToken(tasks'[t], tasks[t])
  /\ tasks'[t].pc \in First => tasks[t].pc \in First /\ tasks'[t].life = tasks[t].life

LEMMA PastIsNat == \A l, a : Past(l, a) => l \in Nat /\ a \in Nat
BY DEF Past

LEMMA KnownStays ==
  ASSUME DInv, NEW t \in Tasks, Moved(t), PastStays, EnvelopesOK,
         Past(tasks[t].life, tasks[t].attempt)',
         \A p \in wire'.sent : p \in wire.sent \/ (p = <<p[1], p[2]>> /\ Past(p[1], p[2]))
  PROVE  Known'
<1>1. \A s \in Tasks : Past(tasks[s].life, tasks[s].attempt)'
  <2> SUFFICES ASSUME NEW s \in Tasks, s # t PROVE Past(tasks[s].life, tasks[s].attempt)'
    OBVIOUS
  <2>1. Past(tasks[s].life, tasks[s].attempt) /\ tasks'[s] = tasks[s]
    BY DEF DInv, Known, Moved
  <2>2. tasks[s].life \in Nat /\ tasks[s].attempt \in Nat BY <2>1, PastIsNat
  <2>3. \A l, a \in Nat : Past(l, a) /\ l = tasks'[s].life /\ a = tasks'[s].attempt
          => Past(tasks[s].life, tasks[s].attempt)'
    BY DEF PastStays, Past
  <2> QED BY <2>1, <2>2, <2>3
<1>2. \A env \in envelopes' : env.attempt >= 2 /\ Past(env.life, env.attempt)'
  <2> SUFFICES ASSUME NEW env \in envelopes'
      PROVE env.attempt >= 2 /\ Past(env.life, env.attempt)'
    OBVIOUS
  <2>1. env.attempt >= 2 /\ Past(env.life, env.attempt) BY DEF DInv, Known, EnvelopesOK
  <2>2. env.life \in Nat /\ env.attempt \in Nat BY <2>1, PastIsNat
  <2> QED BY <2>1, <2>2 DEF PastStays
<1>3. \A p \in wire'.sent : p = <<p[1], p[2]>> /\ Past(p[1], p[2])'
  <2> SUFFICES ASSUME NEW p \in wire'.sent PROVE p = <<p[1], p[2]>> /\ Past(p[1], p[2])'
    OBVIOUS
  <2>1. p = <<p[1], p[2]>> /\ Past(p[1], p[2]) BY DEF DInv, Known
  <2>2. p[1] \in Nat /\ p[2] \in Nat BY <2>1, PastIsNat
  <2> QED BY <2>1, <2>2 DEF PastStays
<1> QED BY <1>1, <1>2, <1>3 DEF Known

LEMMA PastKept ==
  ASSUME DInv, DOMAIN book' = BookFields, book'.lives \in Nat, book'.lives >= book.lives,
         \/ record'.stage = "none"
         \/ record'.life > book.lives
         \/ /\ record.stage # "none" /\ record'.life = record.life
            /\ record'.attempt \in Nat /\ record'.attempt >= record.attempt
  PROVE  PastStays
BY DEF DInv, Shapes, RecordOK, PastStays, Past

LEMMA UniqueStays ==
  ASSUME DInv, NEW t \in Tasks, Moved(t), TakesNoPacket(t), wire' = wire
  PROVE  Unique'
BY DEF DInv, Unique, Moved, SameToken, TakesNoPacket

\* The step of one goroutine.
LEMMA Steps ==
  ASSUME DInv, NEW t \in Tasks, Moved(t), Coherent(tasks'[t]),
         DOMAIN record' = DOMAIN NoRecord, RecordOK', Known', Unique', Marked',
         DOMAIN wire' = {"sent", "twice", "received"},
         DOMAIN book' = BookFields, book'.lives \in Nat
  PROVE  DInv'
<1>1. Shapes' BY DEF DInv, Shapes, Moved
<1>2. TasksOK' BY DEF DInv, TasksOK, Moved
<1> QED BY <1>1, <1>2 DEF DInv

\* The step of one goroutine that leaves the record and the wire alone.
LEMMA Moves ==
  ASSUME DInv, NEW t \in Tasks, Moved(t), Coherent(tasks'[t]), TakesNoPacket(t),
         record' = record, wire' = wire, BookStays, EnvelopesOK,
         Past(tasks'[t].life, tasks'[t].attempt)
  PROVE  DInv'
<1>1. RecordOK' BY DEF DInv, RecordOK, BookStays
<1>2. PastStays BY DEF PastStays, Past, BookStays
<1>3. Past(tasks[t].life, tasks[t].attempt)' BY DEF Past, BookStays
<1>4. Known' BY <1>2, <1>3, KnownStays
<1>5. Unique' BY UniqueStays
<1>6. Marked' BY DEF DInv, Marked, Moved, TakesNoPacket, SameToken, Current
<1> QED BY <1>1, <1>4, <1>5, <1>6, Steps DEF DInv, Shapes, BookStays

LEMMA IdleCoherent ==
  /\ Coherent(Idle) /\ Idle.pc = "idle" /\ Idle.life = 0 /\ Idle.attempt = 0
  /\ Idle.kind = "none"
BY DEF Coherent, Idle, Retrying, Pushing, Unrecorded, Recovering, Retiring

LEMMA ZeroIsPast == ASSUME DInv PROVE Past(0, 0)
BY DEF DInv, Shapes, RecordOK, Past

\* The goroutine that ends.
LEMMA Ends ==
  ASSUME DInv, NEW t \in Tasks, End(t),
         record' = record, wire' = wire, BookStays, EnvelopesOK
  PROVE  DInv'
<1>1. Moved(t) /\ tasks'[t] = Idle BY EndMoves DEF DInv
<1>2. Past(tasks'[t].life, tasks'[t].attempt) BY <1>1, ZeroIsPast, IdleCoherent
<1>3. TakesNoPacket(t) BY <1>1, IdleCoherent DEF TakesNoPacket, InFlight, First
<1> QED BY <1>1, <1>2, <1>3, IdleCoherent, Moves

\* The goroutine that goes on to a step of its kind, with the token that it has.
LEMMA GoesOn ==
  ASSUME DInv, NEW t \in Tasks, Moved(t), Kept(t), Coherent(tasks'[t]),
         tasks'[t].pc \in InFlight => tasks[t].pc \in InFlight,
         tasks'[t].pc \in First => tasks[t].pc \in First,
         record' = record, wire' = wire, BookStays, EnvelopesOK
  PROVE  DInv'
<1>1. Past(tasks'[t].life, tasks'[t].attempt) BY DEF DInv, Known, Kept
<1>2. TakesNoPacket(t) BY DEF TakesNoPacket, Kept, SameToken
<1> QED BY <1>1, <1>2, Moves

\* The goroutine that reads the record again.
LEMMA LoadsAgain ==
  ASSUME DInv, NEW t \in Tasks, NEW label \in {"recover", "sync"}, LoadThen(t, label),
         tasks[t].kind # "resume",
         record' = record, wire' = wire, BookStays, EnvelopesOK
  PROVE  DInv'
<1>1. /\ Moved(t) /\ tasks'[t].pc = "load" /\ tasks'[t].then = label
      /\ tasks'[t].kind = tasks[t].kind /\ tasks'[t].life = 0 /\ tasks'[t].attempt = 0
  BY LoadThenMoves DEF DInv
<1>2. Coherent(tasks'[t])
  BY <1>1 DEF Coherent, Retrying, Pushing, Unrecorded, Recovering, Retiring
<1>3. Past(tasks'[t].life, tasks'[t].attempt) BY <1>1, ZeroIsPast
<1>4. TakesNoPacket(t) BY <1>1 DEF TakesNoPacket, InFlight, First
<1> QED BY <1>1, <1>2, <1>3, <1>4, Moves

\* The goroutine that starts.
LEMMA Starts ==
  ASSUME DInv, NEW t \in Tasks, NEW r, DOMAIN r = DOMAIN Idle,
         tasks' = [tasks EXCEPT ![t] = r], Coherent(r), r.pc \notin InFlight \cup First,
         Past(r.life, r.attempt),
         record' = record, wire' = wire, BookStays, EnvelopesOK
  PROVE  DInv'
<1>1. Moved(t) /\ tasks'[t] = r BY StartMoves DEF DInv
<1>2. TakesNoPacket(t) BY <1>1 DEF TakesNoPacket
<1> QED BY <1>1, <1>2, Moves

\* What the guard of a step tells of its goroutine.
LEMMA MineIs ==
  ASSUME DInv, NEW t \in Tasks
  PROVE  Coherent(tasks[t]) /\ Past(tasks[t].life, tasks[t].attempt)
         /\ DOMAIN tasks[t] = DOMAIN Idle
BY DEF DInv, TasksOK, Known, Shapes

\* The goroutine that goes on to a step that has no part in sending.
LEMMA GoesTo ==
  ASSUME DInv, NEW t \in Tasks, NEW label, Goto(t, label) \/ GoOn(t, label),
         label \notin InFlight \cup First \cup {"load", "bump", "idle"},
         label \in Pushing => tasks[t].kind = "push",
         label \in Unrecorded => tasks[t].attempt = 0,
         label = "unindex" => tasks[t].kind \in {"push", "retire"},
         label \in {"retireCheck", "retireDelete"} => tasks[t].kind = "retire",
         label = "recover" => tasks[t].kind # "resume",
         label = "mark" => tasks[t].attempt >= 2,
         record' = record, wire' = wire, BookStays, EnvelopesOK
  PROVE  DInv'
<1>1. Moved(t) /\ Kept(t) /\ tasks'[t].pc = label
  BY GotoMoves, GoOnMoves DEF DInv
<1>2. Coherent(tasks'[t])
  BY <1>1, MineIs
  DEF Coherent, Kept, Retrying, Pushing, Unrecorded, Recovering, Retiring, InFlight, First
<1> QED BY <1>1, <1>2, GoesOn

\* A step that leaves goroutines, record and wire alone.
LEMMA Untouched ==
  ASSUME DInv, record' = record, wire' = wire, tasks' = tasks, envelopes' = envelopes,
         BookStays
  PROVE  DInv'
<1>1. Shapes' BY DEF DInv, Shapes, BookStays
<1>2. TasksOK' /\ RecordOK' /\ Unique' BY DEF DInv, TasksOK, RecordOK, Unique, BookStays
<1>3. Known' BY DEF DInv, Known, Past, BookStays
<1>4. Marked' BY DEF DInv, Marked, Current
<1> QED BY <1>1, <1>2, <1>3, <1>4 DEF DInv

-----------------------------------------------------------------------------
(* Dispatch                                                                  *)

LEMMA StartPushKeeps ==
  ASSUME DInv, NEW t \in Tasks, NEW n \in Nodes, StartPush(t, n)
  PROVE  DInv'
<1> DEFINE r == [Idle EXCEPT !.pc = "seed", !.kind = "push", !.node = n]
<1>1. tasks' = [tasks EXCEPT ![t] = r] BY DEF StartPush, Start
<1>2. DOMAIN r = DOMAIN Idle /\ r.pc = "seed" /\ Coherent(r) /\ r.life = 0 /\ r.attempt = 0
  BY DEF Idle, Coherent, Retrying, Pushing, Unrecorded, Recovering, Retiring
<1> HIDE DEF r
<1>3. BookStays BY DEF DInv, Shapes, StartPush, BookStays, BookFields
<1>4. Past(r.life, r.attempt) BY <1>2, ZeroIsPast
<1>5. r.pc \notin InFlight \cup First BY <1>2 DEF InFlight, First
<1>6. record' = record /\ wire' = wire /\ EnvelopesOK BY DEF StartPush, EnvelopesOK
<1> QED BY <1>1, <1>2, <1>3, <1>4, <1>5, <1>6, Starts

LEMMA SeedKeeps ==
  ASSUME DInv, NEW t \in Tasks, Seed(t)
  PROVE  DInv'
<1>1. /\ tasks[t].pc = "seed" /\ record' = record /\ wire' = wire /\ EnvelopesOK
      /\ Shapes /\ BookStays
  BY DEF Seed, At, EnvelopesOK, BookStays, BookFields, DInv, Shapes
<1>2. CASE End(t) BY <1>1, <1>2, Ends
<1>3. CASE tasks' = [tasks EXCEPT ![t].pc = "adopt", ![t].gen = seed.gen]
  <2>1. Moved(t) /\ Kept(t) /\ tasks'[t].pc = "adopt"
    BY <1>1, <1>3 DEF Shapes, Moved, Kept, Idle
  <2>2. Coherent(tasks'[t])
    BY <1>1, <2>1, MineIs DEF Coherent, Kept, Retrying, Pushing, Unrecorded, Recovering, Retiring
  <2> QED BY <1>1, <2>1, <2>2, GoesOn DEF InFlight, First
<1>4. CASE tasks' = [tasks EXCEPT ![t].pc = "create", ![t].gen = book.gens + 1,
                                  ![t].created = TRUE]
  <2>1. Moved(t) /\ Kept(t) /\ tasks'[t].pc = "create"
    BY <1>1, <1>4 DEF Shapes, Moved, Kept, Idle
  <2>2. Coherent(tasks'[t])
    BY <1>1, <2>1, MineIs DEF Coherent, Kept, Retrying, Pushing, Unrecorded, Recovering, Retiring
  <2> QED BY <1>1, <2>1, <2>2, GoesOn DEF InFlight, First
<1> QED BY <1>2, <1>3, <1>4 DEF Seed

LEMMA AdoptKeeps ==
  ASSUME DInv, NEW t \in Tasks, Adopt(t)
  PROVE  DInv'
<1>1. tasks[t].pc = "adopt" /\ record' = record /\ wire' = wire /\ EnvelopesOK
  BY DEF Adopt, At, EnvelopesOK
<1>2. tasks[t].kind = "push" /\ tasks[t].attempt = 0
  BY <1>1, MineIs DEF Coherent, Pushing, Unrecorded
<1>3. BookStays BY LoadsKeepsBook DEF Adopt, DInv
<1>4. CASE LoadThen(t, "recover") BY <1>1, <1>2, <1>3, <1>4, LoadsAgain
<1>5. CASE Goto(t, "create")
  BY <1>1, <1>2, <1>3, <1>5, GoesTo DEF InFlight, First, Pushing, Unrecorded
<1> QED BY <1>4, <1>5 DEF Adopt

\* The record of a new life: all tokens given out so far are of earlier ones.
LEMMA CreateKeeps ==
  ASSUME DInv, NEW t \in Tasks, Create(t)
  PROVE  DInv'
<1>1. tasks[t].pc = "create" /\ wire' = wire /\ envelopes' = envelopes /\ EnvelopesOK
  BY DEF Create, At, EnvelopesOK
<1>2. tasks[t].kind = "push" /\ tasks[t].attempt = 0
  BY <1>1, MineIs DEF Coherent, Pushing, Unrecorded
<1>3. CASE /\ record' = [NoRecord EXCEPT !.stage = "ack", !.version = 1, !.attempt = 1,
                                        !.gen = tasks[t].gen, !.life = book.lives + 1]
           /\ book' = [book EXCEPT !.lives = @ + 1]
           /\ tasks' = [tasks EXCEPT ![t].pc = "track", ![t].life = book.lives + 1]
  <2>1. /\ DOMAIN book' = BookFields /\ book.lives \in Nat /\ book'.lives = book.lives + 1
    BY <1>3 DEF DInv, Shapes, BookFields
  <2>2. /\ DOMAIN record' = DOMAIN NoRecord /\ record'.stage = "ack" /\ record'.version = 1
        /\ record'.attempt = 1 /\ record'.life = book.lives + 1
        /\ record'.claimed = FALSE /\ record'.dispatched = FALSE
    BY <1>3 DEF NoRecord
  <2>3. /\ Moved(t) /\ tasks'[t].pc = "track" /\ tasks'[t].life = book.lives + 1
        /\ tasks'[t].kind = tasks[t].kind /\ tasks'[t].attempt = tasks[t].attempt
    BY <1>3 DEF DInv, Shapes, Moved, Idle
  <2>4. Coherent(tasks'[t])
    BY <1>2, <2>1, <2>3, MineIs DEF Coherent, Retrying, Pushing, Unrecorded, Recovering, Retiring
  <2>5. RecordOK' BY <2>1, <2>2 DEF RecordOK, Stages
  <2>6. PastStays
    <3>1. book'.lives \in Nat /\ book'.lives >= book.lives /\ record'.life > book.lives
      BY <2>1, <2>2
    <3> QED BY <2>1, <3>1, PastKept
  <2>7. Past(tasks[t].life, tasks[t].attempt)'
    BY <1>2, <2>1, <2>2, <2>3 DEF Past
  <2>8. Known' BY <1>1, <2>3, <2>6, <2>7, KnownStays DEF DInv, Known
  <2>9. \A s \in Tasks : tasks[s].life \in Nat /\ tasks[s].life <= book.lives
    BY DEF DInv, Known, Past
  <2>10. Unique'
    <3>1. \A p \in wire.sent : p = <<p[1], p[2]>> /\ p[1] \in Nat /\ p[1] <= book.lives
      BY DEF DInv, Known, Past
    <3>2. <<book.lives + 1, 1>> \notin wire.sent BY <2>1, <3>1
    <3>3. \A s \in Tasks : tasks[s].life # book.lives + 1 BY <2>1, <2>9
    <3>4. \A s \in Tasks : tasks'[s].pc \in InFlight => s # t BY <2>3 DEF InFlight
    <3> QED BY <1>1, <2>3, <3>2, <3>3, <3>4 DEF DInv, Unique, Moved, SameToken
  <2>11. Marked'
    <3>1. ~(record'.claimed) BY <2>2
    <3> QED BY <3>1 DEF Marked, Current
  <2> QED BY <1>1, <2>1, <2>2, <2>3, <2>4, <2>5, <2>8, <2>10, <2>11, Steps DEF DInv, Shapes
<1>4. CASE LoadThen(t, "recover") /\ UNCHANGED <<record, index, book>>
  BY <1>1, <1>2, <1>4, BookMoves, LoadsAgain DEF DInv
<1>5. CASE /\ CallFails(t)
           /\ IF tasks[t].created THEN Goto(t, "deleteSeed") ELSE End(t)
           /\ UNCHANGED <<seed, record, index>>
  <2>1. BookStays BY <1>5, BookMoves DEF DInv
  <2>2. CASE Goto(t, "deleteSeed")
    BY <1>1, <1>2, <1>5, <2>1, <2>2, GoesTo DEF InFlight, First, Pushing, Unrecorded
  <2>3. CASE End(t) BY <1>1, <1>5, <2>1, <2>3, Ends
  <2> QED BY <1>5, <2>2, <2>3
<1> QED BY <1>3, <1>4, <1>5 DEF Create

LEMMA TrackKeeps ==
  ASSUME DInv, NEW t \in Tasks, Track(t)
  PROVE  DInv'
<1>1. /\ tasks[t].pc = "track" /\ record' = record /\ wire' = wire /\ EnvelopesOK
      /\ BookStays
  BY DEF Track, At, EnvelopesOK, BookStays, DInv, Shapes
<1>2. tasks' = [tasks EXCEPT ![t].pc = "send", ![t].attempt = 1] BY DEF Track
<1>3. /\ Moved(t) /\ tasks'[t].pc = "send" /\ tasks'[t].attempt = 1
      /\ tasks'[t].life = tasks[t].life /\ tasks'[t].kind = tasks[t].kind
  BY <1>2 DEF DInv, Shapes, Moved, Idle
<1>4. tasks[t].kind = "push" BY <1>1, MineIs DEF Coherent, Pushing
<1>5. Coherent(tasks'[t])
  BY <1>3, <1>4, MineIs DEF Coherent, Retrying, Pushing, Unrecorded, Recovering, Retiring
<1>6. TakesNoPacket(t) BY <1>1, <1>3 DEF TakesNoPacket, InFlight, First
<1>7. Past(tasks'[t].life, tasks'[t].attempt)
  BY <1>3, MineIs DEF Past, DInv, RecordOK
<1> QED BY <1>1, <1>3, <1>5, <1>6, <1>7, Moves

\* The packet of a goroutine that is the only one to send it.
LEMMA SendsKeeps ==
  ASSUME DInv, NEW t \in Tasks, Moved(t), Coherent(tasks'[t]), Sends(t),
         tasks'[t].pc \notin InFlight \cup First,
         Past(tasks'[t].life, tasks'[t].attempt),
         tasks[t].pc \in {"send", "retrySend"},
         record' = record, envelopes' = envelopes
  PROVE  DInv'
<1> DEFINE p == <<tasks[t].life, tasks[t].attempt>>
<1>1. /\ Past(tasks[t].life, tasks[t].attempt)
      /\ tasks[t].life \in Nat /\ tasks[t].attempt \in Nat
      /\ tasks[t].pc = "send" => tasks[t].attempt = 1
      /\ tasks[t].pc = "retrySend" => tasks[t].attempt >= 2
  BY MineIs DEF Coherent, Retrying
<1>2. p \notin wire.sent BY <1>1 DEF DInv, Unique, InFlight, First
<1>3. /\ wire'.sent = wire.sent \cup {p} /\ wire'.twice = FALSE /\ book' = book
      /\ DOMAIN wire' = {"sent", "twice", "received"}
  <2>1. wire.twice = FALSE /\ DOMAIN wire = {"sent", "twice", "received"}
    BY DEF DInv, Unique, Shapes
  <2>2. wire' = [wire EXCEPT !.sent = @ \cup {p}, !.twice = @ \/ p \in wire.sent]
        /\ book' = book
    BY DEF Sends
  <2>3. (FALSE \/ p \in wire.sent) = FALSE BY <1>2
  <2> QED BY <2>1, <2>2, <2>3
<1>4. BookStays BY <1>3 DEF DInv, Shapes, BookStays
<1>5. RecordOK' BY <1>4 DEF DInv, RecordOK, BookStays
<1>6. PastStays BY <1>4 DEF PastStays, Past, BookStays
<1>7. Past(tasks[t].life, tasks[t].attempt)' BY <1>4 DEF Past, BookStays
<1>8. Known'
  <2>1. p = <<p[1], p[2]>> /\ Past(p[1], p[2]) BY <1>1
  <2>2. \A q \in wire'.sent : q \in wire.sent \/ (q = <<q[1], q[2]>> /\ Past(q[1], q[2]))
    BY <1>3, <2>1
  <2> QED BY <1>6, <1>7, <2>2, KnownStays DEF EnvelopesOK
<1>9. Unique'
  <2>1. \A s \in Tasks : tasks[s].pc \in InFlight => tasks[s].attempt >= 2
    BY DEF DInv, TasksOK, Coherent, Retrying, InFlight
  <2>2. \A s \in Tasks : s # t /\ tasks[s].pc \in InFlight =>
          <<tasks[s].life, tasks[s].attempt>> # p
    <3> SUFFICES ASSUME NEW s \in Tasks, s # t, tasks[s].pc \in InFlight,
                        tasks[s].life = tasks[t].life, tasks[s].attempt = tasks[t].attempt
        PROVE FALSE
      OBVIOUS
    <3>1. tasks[t].pc \in InFlight BY <1>1, <2>1 DEF InFlight
    <3> QED BY <3>1 DEF DInv, Unique, SameToken
  <2>3. \A s \in Tasks : s # t /\ tasks[s].pc \in First => <<tasks[s].life, 1>> # p
    <3> SUFFICES ASSUME NEW s \in Tasks, s # t, tasks[s].pc \in First,
                        tasks[s].life = tasks[t].life, tasks[t].attempt = 1
        PROVE FALSE
      OBVIOUS
    <3>1. tasks[t].pc \in First BY <1>1 DEF First
    <3> QED BY <3>1 DEF DInv, Unique
  <2> QED BY <1>3, <2>2, <2>3 DEF DInv, Unique, Moved, SameToken
<1>10. Marked'
  <2>1. \A s \in Tasks : tasks'[s].pc \in InFlight /\ Current(s, record)' => record'.dispatched
    BY DEF DInv, Marked, Moved, Current
  <2>2. record.stage = "ack" /\ record.claimed /\ <<record.life, record.attempt>> = p
          => record.dispatched
    <3> SUFFICES ASSUME record.stage = "ack", record.claimed, record.life = tasks[t].life,
                        record.attempt = tasks[t].attempt
        PROVE record.dispatched
      OBVIOUS
    <3>1. record.attempt >= 2 BY DEF DInv, RecordOK
    <3>2. tasks[t].pc \in InFlight BY <1>1, <3>1 DEF InFlight
    <3> QED BY <3>2 DEF DInv, Marked, Current
  <2> QED BY <1>3, <2>1, <2>2 DEF DInv, Marked
<1> QED BY <1>3, <1>4, <1>5, <1>8, <1>9, <1>10, Steps DEF DInv, Shapes, BookStays

LEMMA SendKeeps ==
  ASSUME DInv, NEW t \in Tasks, Send(t)
  PROVE  DInv'
<1>1. tasks[t].pc = "send" /\ record' = record /\ envelopes' = envelopes /\ EnvelopesOK
  BY DEF Send, At, EnvelopesOK
<1>2. CASE Sends(t) /\ End(t)
  <2>1. Moved(t) /\ tasks'[t] = Idle BY <1>2, EndMoves DEF DInv
  <2>2. Past(tasks'[t].life, tasks'[t].attempt) BY <2>1, ZeroIsPast, IdleCoherent
  <2>3. tasks'[t].pc \notin InFlight \cup First BY <2>1, IdleCoherent DEF InFlight, First
  <2> QED BY <1>1, <1>2, <2>1, <2>2, <2>3, IdleCoherent, SendsKeeps
<1>3. CASE /\ SendFails(t)
           /\ tasks' = [tasks EXCEPT ![t] = [Idle EXCEPT !.pc = "rollback",
                                               !.kind = "push", !.node = Node(t)]]
  <2> DEFINE r == [Idle EXCEPT !.pc = "rollback", !.kind = "push", !.node = Node(t)]
  <2>1. tasks' = [tasks EXCEPT ![t] = r] BY <1>3
  <2>2. /\ DOMAIN r = DOMAIN Idle /\ r.pc = "rollback" /\ Coherent(r)
        /\ r.life = 0 /\ r.attempt = 0
    BY DEF Idle, Coherent, Retrying, Pushing, Unrecorded, Recovering, Retiring
  <2> HIDE DEF r
  <2>3. wire' = wire /\ BookStays BY <1>3, BookMoves DEF SendFails, DInv
  <2>4. Past(r.life, r.attempt) BY <2>2, ZeroIsPast
  <2>5. r.pc \notin InFlight \cup First BY <2>2 DEF InFlight, First
  <2> QED BY <1>1, <2>1, <2>2, <2>3, <2>4, <2>5, Starts
<1> QED BY <1>2, <1>3 DEF Send

LEMMA RollbackKeeps ==
  ASSUME DInv, NEW t \in Tasks, Rollback(t)
  PROVE  DInv'
<1>1. tasks[t].pc = "rollback" /\ record' = record /\ wire' = wire /\ EnvelopesOK
  BY DEF Rollback, At, EnvelopesOK
<1>2. tasks[t].kind = "push" BY <1>1, MineIs DEF Coherent, Pushing
<1>3. CASE End(t) /\ book' = PushFailed(t)
  BY <1>1, <1>3, Ends, BookMoves DEF DInv
<1>4. CASE /\ tasks' = [tasks EXCEPT ![t].pc = "rollbackDelete", ![t].id = Mine(t).id,
                                     ![t].exp = Mine(t)]
           /\ UNCHANGED book
  <2>1. Moved(t) /\ Kept(t) /\ tasks'[t].pc = "rollbackDelete"
    BY <1>4 DEF DInv, Shapes, Moved, Kept, Idle
  <2>2. Coherent(tasks'[t])
    BY <1>2, <2>1, MineIs
    DEF Coherent, Kept, Retrying, Pushing, Unrecorded, Recovering, Retiring
  <2>3. BookStays BY <1>4, BookMoves DEF DInv
  <2> QED BY <1>1, <2>1, <2>2, <2>3, GoesOn DEF InFlight, First
<1> QED BY <1>3, <1>4 DEF Rollback

\* A record is deleted by a goroutine that has no part in sending.
LEMMA Deletes ==
  ASSUME DInv, NEW t \in Tasks, Moved(t), Coherent(tasks'[t]), TakesNoPacket(t),
         record' = NoRecord, wire' = wire, BookStays, EnvelopesOK,
         Kept(t) \/ tasks'[t] = Idle
  PROVE  DInv'
<1>1. /\ record'.stage = "none" /\ record'.version = 0 /\ record'.attempt = 0
      /\ record'.life = 0 /\ record'.claimed = FALSE /\ record'.dispatched = FALSE
  BY DEF NoRecord
<1>2. RecordOK' BY <1>1 DEF RecordOK, Stages
<1>3. DOMAIN book' = BookFields /\ book'.lives \in Nat /\ book'.lives = book.lives
      /\ book'.lives >= book.lives
  BY DEF DInv, Shapes, BookStays
<1>4. PastStays BY <1>1, <1>3, PastKept
<1>5. Past(tasks[t].life, tasks[t].attempt)'
  <2>1. Past(tasks'[t].life, tasks'[t].attempt)
    BY MineIs, ZeroIsPast, IdleCoherent DEF Kept
  <2> QED BY <1>1, <1>3, <2>1 DEF Past
<1>6. Known' BY <1>4, <1>5, KnownStays
<1>7. Unique' BY UniqueStays
<1>8. Marked' BY <1>1 DEF Marked, Current
<1> QED BY <1>1, <1>2, <1>3, <1>6, <1>7, <1>8, Steps DEF DInv, Shapes

LEMMA RollbackDeleteKeeps ==
  ASSUME DInv, NEW t \in Tasks, RollbackDelete(t)
  PROVE  DInv'
<1>1. tasks[t].pc = "rollbackDelete" /\ wire' = wire /\ EnvelopesOK /\ UNCHANGED book
  BY DEF RollbackDelete, At, EnvelopesOK
<1>2. tasks[t].kind = "push" /\ BookStays
  BY <1>1, MineIs, BookMoves DEF Coherent, Pushing, DInv
<1>3. CASE record' = NoRecord /\ Goto(t, "unindex")
  <2>1. Moved(t) /\ Kept(t) /\ tasks'[t].pc = "unindex" BY <1>3, GotoMoves DEF DInv
  <2>2. Coherent(tasks'[t])
    BY <1>2, <2>1, MineIs
    DEF Coherent, Kept, Retrying, Pushing, Unrecorded, Recovering, Retiring
  <2>3. TakesNoPacket(t) BY <2>1 DEF TakesNoPacket, InFlight, First
  <2> QED BY <1>1, <1>2, <1>3, <2>1, <2>2, <2>3, Deletes
<1>4. CASE LoadThen(t, "sync") /\ UNCHANGED record
  BY <1>1, <1>2, <1>4, LoadsAgain
<1> QED BY <1>3, <1>4 DEF RollbackDelete

LEMMA UnindexKeeps ==
  ASSUME DInv, NEW t \in Tasks, Unindex(t)
  PROVE  DInv'
<1>1. /\ tasks[t].pc = "unindex" /\ record' = record /\ wire' = wire /\ EnvelopesOK
      /\ UNCHANGED book
  BY DEF Unindex, At, EnvelopesOK
<1>2. BookStays /\ tasks[t].kind \in {"push", "retire"}
  BY <1>1, BookMoves, MineIs DEF DInv, Coherent
<1>3. CASE tasks' = [tasks EXCEPT ![t].pc = "deleteSeed", ![t].gen = tasks[t].exp.gen]
  <2>1. Moved(t) /\ Kept(t) /\ tasks'[t].pc = "deleteSeed"
    BY <1>3 DEF DInv, Shapes, Moved, Kept, Idle
  <2>2. Coherent(tasks'[t])
    BY <2>1, MineIs DEF Coherent, Kept, Retrying, Pushing, Unrecorded, Recovering, Retiring
  <2> QED BY <1>1, <1>2, <2>1, <2>2, GoesOn DEF InFlight, First
<1>4. CASE tasks[t].kind # "retire" /\ Goto(t, "rollbackDrop")
  BY <1>1, <1>2, <1>4, GoesTo DEF InFlight, First, Pushing, Unrecorded
<1> QED BY <1>3, <1>4 DEF Unindex

LEMMA RollbackDropKeeps ==
  ASSUME DInv, NEW t \in Tasks, RollbackDrop(t)
  PROVE  DInv'
<1>1. tasks[t].pc = "rollbackDrop" /\ record' = record /\ wire' = wire /\ EnvelopesOK
  BY DEF RollbackDrop, At, EnvelopesOK
<1>2. tasks[t].kind = "push" BY <1>1, MineIs DEF Coherent, Pushing
<1>3. BookStays BY BookMoves DEF DInv, RollbackDrop
<1>4. CASE tasks' = [tasks EXCEPT ![t].pc = "deleteSeed", ![t].gen = Mine(t).gen]
  <2>1. Moved(t) /\ Kept(t) /\ tasks'[t].pc = "deleteSeed"
    BY <1>4 DEF DInv, Shapes, Moved, Kept, Idle
  <2>2. Coherent(tasks'[t])
    BY <2>1, MineIs DEF Coherent, Kept, Retrying, Pushing, Unrecorded, Recovering, Retiring
  <2> QED BY <1>1, <1>3, <2>1, <2>2, GoesOn DEF InFlight, First
<1>5. CASE End(t) BY <1>1, <1>3, <1>5, Ends
<1>6. CASE LoadThen(t, "sync") BY <1>1, <1>2, <1>3, <1>6, LoadsAgain
<1> QED BY <1>4, <1>5, <1>6 DEF RollbackDrop

LEMMA DeleteSeedKeeps ==
  ASSUME DInv, NEW t \in Tasks, DeleteSeed(t)
  PROVE  DInv'
<1>1. record' = record /\ wire' = wire /\ EnvelopesOK /\ End(t) /\ book' = PushFailed(t)
  BY DEF DeleteSeed, EnvelopesOK
<1> QED BY <1>1, Ends, BookMoves DEF DInv

-----------------------------------------------------------------------------
(* Reading the record back                                                   *)

LEMMA LoadKeeps ==
  ASSUME DInv, NEW t \in Tasks, Load(t)
  PROVE  DInv'
<1>1. tasks[t].pc = "load" /\ record' = record /\ wire' = wire /\ EnvelopesOK
  BY DEF Load, At, EnvelopesOK
<1>2. PICK r : /\ Loads(r)
               /\ tasks' = [tasks EXCEPT ![t].pc = tasks[t].then, ![t].then = "idle",
                                         ![t].rec = Mirrored(r)]
  BY DEF Load
<1>3. BookStays BY <1>2, LoadsKeepsBook DEF DInv
<1>4. Moved(t) /\ Kept(t) /\ tasks'[t].pc = tasks[t].then
  BY <1>2 DEF DInv, Shapes, Moved, Kept, Idle
<1>5. tasks[t].then \in {"recover", "sync", "retireCheck"}
  BY <1>1, MineIs DEF Coherent
<1>6. Coherent(tasks'[t])
  BY <1>1, <1>4, <1>5, MineIs
  DEF Coherent, Kept, Retrying, Pushing, Unrecorded, Recovering, Retiring
<1> QED BY <1>1, <1>3, <1>4, <1>5, <1>6, GoesOn DEF InFlight, First

LEMMA SyncKeeps ==
  ASSUME DInv, NEW t \in Tasks, Sync(t)
  PROVE  DInv'
<1>1. record' = record /\ wire' = wire /\ EnvelopesOK /\ End(t) /\ book' = PushFailed(t)
  BY DEF Sync, EnvelopesOK
<1> QED BY <1>1, Ends, BookMoves DEF DInv

LEMMA RecoverKeeps ==
  ASSUME DInv, NEW t \in Tasks, Recover(t)
  PROVE  DInv'
<1>1. /\ tasks[t].pc = "recover" /\ record' = record /\ wire' = wire /\ EnvelopesOK
      /\ UNCHANGED book
  BY DEF Recover, At, EnvelopesOK
<1>2. BookStays BY <1>1, BookMoves DEF DInv
<1>3. CASE tasks[t].kind = "drain" /\ GoOn(t, "claim")
  BY <1>1, <1>2, <1>3, GoesTo DEF InFlight, First, Pushing, Unrecorded
<1>4. CASE tasks[t].kind = "resume" /\ GoOn(t, "mark")
  <2>1. tasks[t].attempt >= 2 BY <1>1, <1>4, MineIs DEF Coherent, Recovering
  <2> QED BY <1>1, <1>2, <1>4, <2>1, GoesTo DEF InFlight, First, Pushing, Unrecorded
<1>5. CASE End(t) BY <1>1, <1>2, <1>5, Ends
<1> QED BY <1>3, <1>4, <1>5 DEF Recover

\* The goroutines that start without a token.
LEMMA PlainStart ==
  ASSUME DInv, NEW t \in Tasks, NEW r, DOMAIN r = DOMAIN Idle,
         tasks' = [tasks EXCEPT ![t] = r],
         r.life = 0, r.attempt = 0,
         r.pc \in {"claim", "advance", "sweepCheck", "drainDelete", "load"},
         r.pc = "load" => r.then = "retireCheck" /\ r.kind = "retire",
         record' = record, wire' = wire, book' = book, envelopes' = envelopes
  PROVE  DInv'
<1>1. Coherent(r) BY DEF Coherent, Retrying, Pushing, Unrecorded, Recovering, Retiring
<1>2. r.pc \notin InFlight \cup First BY DEF InFlight, First
<1>3. Past(r.life, r.attempt) BY ZeroIsPast
<1>4. BookStays /\ EnvelopesOK BY BookMoves DEF DInv, EnvelopesOK
<1> QED BY <1>1, <1>2, <1>3, <1>4, Starts

LEMMA StartTimeoutKeeps ==
  ASSUME DInv, NEW t \in Tasks, NEW n \in Nodes, StartTimeout(t, n)
  PROVE  DInv'
<1> DEFINE r == [Idle EXCEPT !.pc = "claim", !.kind = "timeout",
                             !.node = n, !.id = pending[n].id]
<1>1. tasks' = [tasks EXCEPT ![t] = r] BY DEF StartTimeout
<1>2. DOMAIN r = DOMAIN Idle /\ r.life = 0 /\ r.attempt = 0
      /\ r.pc = "claim"
  BY DEF Idle
<1> HIDE DEF r
<1>3. record' = record /\ wire' = wire /\ book' = book /\ envelopes' = envelopes
  BY DEF StartTimeout
<1> QED BY <1>1, <1>2, <1>3, PlainStart

LEMMA StartAckKeeps ==
  ASSUME DInv, NEW t \in Tasks, NEW n \in Nodes, StartAck(t, n)
  PROVE  DInv'
<1> DEFINE r == [Idle EXCEPT !.pc = "advance", !.kind = "ack",
                             !.node = n, !.id = pending[n].id]
<1>1. tasks' = [tasks EXCEPT ![t] = r] BY DEF StartAck
<1>2. DOMAIN r = DOMAIN Idle /\ r.life = 0 /\ r.attempt = 0
      /\ r.pc = "advance"
  BY DEF Idle
<1> HIDE DEF r
<1>3. record' = record /\ wire' = wire /\ book' = book /\ envelopes' = envelopes
  BY DEF StartAck
<1> QED BY <1>1, <1>2, <1>3, PlainStart

LEMMA StartRetireKeeps ==
  ASSUME DInv, NEW t \in Tasks, NEW n \in Nodes, StartRetire(t, n)
  PROVE  DInv'
<1> DEFINE r == [Idle EXCEPT !.pc = "load", !.then = "retireCheck", !.kind = "retire",
                             !.node = n, !.id = pending[n].id, !.exp = pending[n]]
<1>1. tasks' = [tasks EXCEPT ![t] = r] BY DEF StartRetire
<1>2. DOMAIN r = DOMAIN Idle /\ r.life = 0 /\ r.attempt = 0
      /\ r.pc = "load" /\ r.then = "retireCheck" /\ r.kind = "retire"
  BY DEF Idle
<1> HIDE DEF r
<1>3. record' = record /\ wire' = wire /\ book' = book /\ envelopes' = envelopes
  BY DEF StartRetire
<1> QED BY <1>1, <1>2, <1>3, PlainStart

LEMMA StartSweepKeeps ==
  ASSUME DInv, NEW t \in Tasks, NEW n \in Nodes, StartSweep(t, n)
  PROVE  DInv'
<1> DEFINE r == [Idle EXCEPT !.pc = "sweepCheck", !.kind = "sweep",
                             !.node = n, !.gen = seed.gen]
<1>1. tasks' = [tasks EXCEPT ![t] = r] BY DEF StartSweep
<1>2. DOMAIN r = DOMAIN Idle /\ r.life = 0 /\ r.attempt = 0
      /\ r.pc = "sweepCheck"
  BY DEF Idle
<1> HIDE DEF r
<1>3. record' = record /\ wire' = wire /\ book' = book /\ envelopes' = envelopes
  BY DEF StartSweep
<1> QED BY <1>1, <1>2, <1>3, PlainStart

LEMMA StartForwardedKeeps ==
  ASSUME DInv, NEW t \in Tasks, NEW env \in envelopes, StartForwarded(t, env)
  PROVE  DInv'
<1> DEFINE r == [Idle EXCEPT !.pc = "mark", !.kind = "forwarded", !.node = env.node,
                             !.life = env.life, !.attempt = env.attempt]
<1>1. tasks' = [tasks EXCEPT ![t] = r] BY DEF StartForwarded
<1>2. /\ DOMAIN r = DOMAIN Idle /\ r.pc = "mark" /\ r.kind = "forwarded"
      /\ r.life = env.life /\ r.attempt = env.attempt
  BY DEF Idle
<1> HIDE DEF r
<1>3. Past(r.life, r.attempt) /\ r.attempt >= 2 BY <1>2 DEF DInv, Known
<1>4. Coherent(r)
  BY <1>2, <1>3 DEF Coherent, Past, Retrying, Pushing, Unrecorded, Recovering, Retiring
<1>5. r.pc \notin InFlight \cup First BY <1>2 DEF InFlight, First
<1>6. record' = record /\ wire' = wire /\ UNCHANGED book /\ EnvelopesOK
  BY DEF StartForwarded, EnvelopesOK
<1> QED BY <1>1, <1>2, <1>3, <1>4, <1>5, <1>6, Starts, BookMoves DEF DInv

\* A drain that resumes a retry has its token from the record.
LEMMA StartDrainKeeps ==
  ASSUME DInv, NEW t \in Tasks, NEW n \in Nodes, StartDrain(t, n)
  PROVE  DInv'
<1>1. record' = record /\ wire' = wire /\ EnvelopesOK
  BY DEF StartDrain, EnvelopesOK
<1>2. PICK r \in {record, NoRecord} :
       LET kind == DrainKind(r)
           tracked == pending[n].id # 0
           drain == [Idle EXCEPT !.kind = kind, !.node = n]
       IN
       /\ Loads(r)
       /\ \/ /\ r.stage = "none"
             /\ tasks' = [tasks EXCEPT ![t] = [drain EXCEPT !.pc = "drainDelete"]]
          \/ /\ r.stage # "none" /\ ~Leaves(r, tracked) /\ ~tracked
             /\ tasks' = [tasks EXCEPT ![t] = [Resumed(drain, r) EXCEPT
                                                  !.pc = "load", !.then = "recover"]]
          \/ /\ r.stage # "none" /\ ~Leaves(r, tracked) /\ tracked
             /\ tasks' = [tasks EXCEPT ![t] = [Resumed(drain, r) EXCEPT
                            !.pc = IF kind = "resume" THEN "mark" ELSE "claim"]]
  BY DEF StartDrain
<1>3. BookStays BY <1>2, LoadsKeepsBook DEF DInv
<1> DEFINE kind == DrainKind(r)
           drain == [Idle EXCEPT !.kind = kind, !.node = n]
           q == Resumed(drain, r)
<1>4. CASE /\ r.stage = "none"
           /\ tasks' = [tasks EXCEPT ![t] = [drain EXCEPT !.pc = "drainDelete"]]
  <2> DEFINE d == [drain EXCEPT !.pc = "drainDelete"]
  <2>1. DOMAIN d = DOMAIN Idle /\ d.life = 0 /\ d.attempt = 0 /\ d.pc = "drainDelete"
    BY DEF Idle
  <2>2. tasks' = [tasks EXCEPT ![t] = d] BY <1>4
  <2> HIDE DEF d
  <2>3. Coherent(d)
    BY <2>1 DEF Coherent, Retrying, Pushing, Unrecorded, Recovering, Retiring
  <2>4. Past(d.life, d.attempt) BY <2>1, ZeroIsPast
  <2>5. d.pc \notin InFlight \cup First BY <2>1 DEF InFlight, First
  <2> QED BY <1>1, <1>3, <2>1, <2>2, <2>3, <2>4, <2>5, Starts
<1>5. ASSUME r.stage # "none"
      PROVE /\ DOMAIN q = DOMAIN Idle /\ q.kind = kind
            /\ q.life \in Nat /\ q.attempt \in Nat /\ Past(q.life, q.attempt)
            /\ kind = "resume" => q.attempt >= 2
            /\ kind # "resume" => q.attempt = 0
            /\ kind \in {"drain", "hold", "resume"}
  <2>1. r = record BY <1>5 DEF NoRecord
  <2>2. kind \in {"drain", "hold", "resume"} BY DEF DrainKind
  <2>3. CASE kind = "resume"
    <3>1. /\ DOMAIN q = DOMAIN Idle /\ q.kind = kind
          /\ q.life = r.life /\ q.attempt = r.attempt
      BY <2>3 DEF Resumed, Idle
    <3>2. record.claimed BY <2>1, <2>3 DEF DrainKind
    <3>3. record.attempt >= 2 /\ Past(record.life, record.attempt)
      BY <1>5, <2>1, <3>2 DEF DInv, RecordOK, Past
    <3> QED BY <2>1, <2>2, <2>3, <3>1, <3>3 DEF DInv, RecordOK
  <2>4. CASE kind # "resume"
    <3>1. DOMAIN q = DOMAIN Idle /\ q.kind = kind /\ q.life = 0 /\ q.attempt = 0
      BY <2>4 DEF Resumed, Idle
    <3> QED BY <2>2, <2>4, <3>1, ZeroIsPast
  <2> QED BY <2>3, <2>4
<1>6. CASE /\ r.stage # "none"
           /\ tasks' = [tasks EXCEPT ![t] = [q EXCEPT !.pc = "load", !.then = "recover"]]
  <2> DEFINE d == [q EXCEPT !.pc = "load", !.then = "recover"]
  <2> HIDE DEF q, kind
  <2>1. /\ DOMAIN d = DOMAIN Idle /\ d.pc = "load" /\ d.then = "recover" /\ d.kind = kind
        /\ d.life = q.life /\ d.attempt = q.attempt
    BY <1>5, <1>6 DEF Idle
  <2>2. tasks' = [tasks EXCEPT ![t] = d] BY <1>6
  <2> HIDE DEF d
  <2>3. Coherent(d)
    BY <1>5, <1>6, <2>1 DEF Coherent, Retrying, Pushing, Unrecorded, Recovering, Retiring
  <2>4. Past(d.life, d.attempt) BY <1>5, <1>6, <2>1
  <2>5. d.pc \notin InFlight \cup First BY <2>1 DEF InFlight, First
  <2> QED BY <1>1, <1>3, <2>1, <2>2, <2>3, <2>4, <2>5, Starts
<1>7. CASE /\ r.stage # "none"
           /\ tasks' = [tasks EXCEPT ![t] = [q EXCEPT
                          !.pc = IF kind = "resume" THEN "mark" ELSE "claim"]]
  <2> DEFINE d == [q EXCEPT !.pc = IF kind = "resume" THEN "mark" ELSE "claim"]
  <2> HIDE DEF q, kind
  <2>1. /\ DOMAIN d = DOMAIN Idle /\ d.pc = (IF kind = "resume" THEN "mark" ELSE "claim")
        /\ d.kind = kind /\ d.life = q.life /\ d.attempt = q.attempt
    BY <1>5, <1>7 DEF Idle
  <2>2. tasks' = [tasks EXCEPT ![t] = d] BY <1>7
  <2> HIDE DEF d
  <2>3. Coherent(d)
    BY <1>5, <1>7, <2>1 DEF Coherent, Retrying, Pushing, Unrecorded, Recovering, Retiring
  <2>4. Past(d.life, d.attempt) BY <1>5, <1>7, <2>1
  <2>5. d.pc \notin InFlight \cup First BY <2>1 DEF InFlight, First
  <2> QED BY <1>1, <1>3, <2>1, <2>2, <2>3, <2>4, <2>5, Starts
<1> QED BY <1>2, <1>4, <1>6, <1>7

LEMMA DrainDeleteKeeps ==
  ASSUME DInv, NEW t \in Tasks, DrainDelete(t)
  PROVE  DInv'
<1>1. record' = NoRecord /\ wire' = wire /\ EnvelopesOK /\ End(t)
  BY DEF DrainDelete, EnvelopesOK
<1>2. BookStays BY DEF DrainDelete, BookStays, BookFields, DInv, Shapes
<1>3. Moved(t) /\ tasks'[t] = Idle BY <1>1, EndMoves DEF DInv
<1>4. TakesNoPacket(t) BY <1>3, IdleCoherent DEF TakesNoPacket, InFlight, First
<1> QED BY <1>1, <1>2, <1>3, <1>4, IdleCoherent, Deletes

-----------------------------------------------------------------------------
(* Retries                                                                   *)

\* The attempt that a claim takes was never given out before.
LEMMA ClaimKeeps ==
  ASSUME DInv, NEW t \in Tasks, Claim(t)
  PROVE  DInv'
<1>1. /\ tasks[t].pc = "claim" /\ wire' = wire /\ UNCHANGED book /\ envelopes' = envelopes
      /\ EnvelopesOK
  BY DEF Claim, At, EnvelopesOK
<1>2. /\ BookStays /\ DOMAIN book' = BookFields /\ book'.lives \in Nat
      /\ book'.lives = book.lives /\ book'.lives >= book.lives
  BY <1>1, BookMoves DEF DInv, Shapes, BookStays
<1>3. CASE /\ Claimable
           /\ record' = [record EXCEPT !.attempt = @ + 1, !.version = @ + 1,
                                       !.claimed = TRUE, !.leased = TRUE,
                                       !.dispatched = FALSE]
           /\ tasks' = [tasks EXCEPT ![t].pc = "bump", ![t].life = record.life,
                                     ![t].attempt = record.attempt + 1]
  <2>1. /\ record.stage = "ack" /\ record.version \in Nat /\ record.attempt \in Nat
        /\ record.life \in Nat /\ record.attempt >= 1 /\ record.life <= book.lives
    BY <1>3 DEF DInv, RecordOK, Claimable
  <2>2. /\ DOMAIN record' = DOMAIN NoRecord /\ record'.stage = "ack"
        /\ record'.version = record.version + 1 /\ record'.attempt = record.attempt + 1
        /\ record'.life = record.life /\ record'.claimed = TRUE
    BY <1>3, <2>1 DEF DInv, Shapes, NoRecord
  <2>3. /\ Moved(t) /\ tasks'[t].pc = "bump" /\ tasks'[t].kind = tasks[t].kind
        /\ tasks'[t].life = record.life /\ tasks'[t].attempt = record.attempt + 1
    BY <1>3 DEF DInv, Shapes, Moved, Idle
  <2>4. Coherent(tasks'[t])
    BY <2>1, <2>3, MineIs
    DEF Coherent, Retrying, Pushing, Unrecorded, Recovering, Retiring
  <2>5. RecordOK' BY <1>2, <2>1, <2>2 DEF RecordOK, Stages
  <2>6. PastStays BY <1>2, <2>1, <2>2, PastKept
  <2>7. Past(tasks[t].life, tasks[t].attempt)' BY <1>2, <2>1, <2>2, <2>3 DEF Past
  <2>8. Known' BY <1>1, <2>3, <2>6, <2>7, KnownStays DEF DInv, Known
  <2>9. TakesNoPacket(t) BY <2>3 DEF TakesNoPacket, InFlight, First
  <2>10. Unique' BY <1>1, <2>3, <2>9, UniqueStays
  <2>11. \A l, a : Past(l, a) => ~(l = record'.life /\ a = record'.attempt)
    BY <2>1, <2>2 DEF Past
  <2>12. Marked'
    <3>1. \A s \in Tasks : tasks'[s].pc \in InFlight => ~Current(s, record)'
      <4> SUFFICES ASSUME NEW s \in Tasks, tasks'[s].pc \in InFlight
          PROVE ~Current(s, record)'
        OBVIOUS
      <4>1. tasks'[s] = tasks[s] BY <2>3 DEF Moved, InFlight
      <4>2. Past(tasks[s].life, tasks[s].attempt) BY MineIs
      <4> QED BY <2>11, <4>1, <4>2 DEF Current
    <3>2. <<record'.life, record'.attempt>> \notin wire'.sent
      <4> SUFFICES ASSUME <<record'.life, record'.attempt>> \in wire.sent PROVE FALSE
        BY <1>1
      <4>1. Past(<<record'.life, record'.attempt>>[1], <<record'.life, record'.attempt>>[2])
        BY DEF DInv, Known
      <4> QED BY <2>11, <4>1
    <3> QED BY <3>1, <3>2 DEF Marked
  <2> QED BY <1>1, <1>2, <2>2, <2>3, <2>4, <2>5, <2>8, <2>10, <2>12, Steps DEF DInv, Shapes
<1>4. CASE /\ tasks' = [tasks EXCEPT ![t].pc = "sync", ![t].rec = Mirrored(record),
                          ![t].id = IF tasks[t].kind = "drain" THEN Mine(t).id ELSE @]
           /\ UNCHANGED record
  <2>1. Moved(t) /\ Kept(t) /\ tasks'[t].pc = "sync"
    BY <1>4 DEF DInv, Shapes, Moved, Kept, Idle
  <2>2. Coherent(tasks'[t])
    BY <2>1, MineIs DEF Coherent, Kept, Retrying, Pushing, Unrecorded, Recovering, Retiring
  <2> QED BY <1>1, <1>2, <1>4, <2>1, <2>2, GoesOn DEF InFlight, First
<1> QED BY <1>3, <1>4 DEF Claim

LEMMA BumpKeeps ==
  ASSUME DInv, NEW t \in Tasks, Bump(t)
  PROVE  DInv'
<1>1. /\ tasks[t].pc = "bump" /\ record' = record /\ wire' = wire /\ EnvelopesOK
      /\ UNCHANGED book
  BY DEF Bump, At, EnvelopesOK
<1>2. BookStays /\ tasks[t].attempt >= 2
  BY <1>1, BookMoves, MineIs DEF DInv, Coherent, Retrying
<1>3. CASE End(t) BY <1>1, <1>2, <1>3, Ends
<1>4. CASE Goto(t, "mark")
  BY <1>1, <1>2, <1>4, GoesTo DEF InFlight, First, Pushing, Unrecorded
<1> QED BY <1>3, <1>4 DEF Bump

\* A retry that was not sent leaves its token to another node.
LEMMA UnsentIs ==
  ASSUME DInv, NEW t \in Tasks, Unsent(t), tasks[t].pc \in {"mark", "release"}
  PROVE  /\ EnvelopesOK /\ Moved(t) /\ Coherent(tasks'[t]) /\ TakesNoPacket(t)
         /\ Past(tasks'[t].life, tasks'[t].attempt)
         /\ tasks'[t].life = 0 /\ tasks'[t].attempt = 0
         /\ tasks'[t].pc \in {"load", "idle"}
<1>1. Past(tasks[t].life, tasks[t].attempt) /\ tasks[t].attempt >= 2
  BY MineIs DEF Coherent, Retrying
<1>2. EnvelopesOK
  <2> SUFFICES ASSUME NEW env \in envelopes', env \notin envelopes
      PROVE env.attempt >= 2 /\ Past(env.life, env.attempt)
    BY DEF EnvelopesOK
  <2>1. env = [node |-> conn, life |-> tasks[t].life, attempt |-> tasks[t].attempt]
    BY DEF Unsent
  <2> QED BY <1>1, <2>1
<1>3. CASE tasks[t].kind = "timeout" /\ LoadThen(t, "sync")
  <2>1. /\ Moved(t) /\ tasks'[t].pc = "load" /\ tasks'[t].then = "sync"
        /\ tasks'[t].kind = tasks[t].kind /\ tasks'[t].life = 0 /\ tasks'[t].attempt = 0
    BY <1>3, LoadThenMoves DEF DInv
  <2>2. Coherent(tasks'[t])
    BY <1>3, <2>1 DEF Coherent, Retrying, Pushing, Unrecorded, Recovering, Retiring
  <2> QED BY <1>2, <2>1, <2>2, ZeroIsPast DEF TakesNoPacket, InFlight, First
<1>4. CASE End(t)
  <2>1. Moved(t) /\ tasks'[t] = Idle BY <1>4, EndMoves DEF DInv
  <2> QED BY <1>2, <2>1, IdleCoherent, ZeroIsPast DEF TakesNoPacket, InFlight, First
<1> QED BY <1>3, <1>4 DEF Unsent

\* The claim that is marked was neither sent nor is another goroutine sending it.
LEMMA MarkKeeps ==
  ASSUME DInv, NEW t \in Tasks, Mark(t)
  PROVE  DInv'
<1>1. tasks[t].pc = "mark" /\ wire' = wire BY DEF Mark, At
<1>2. CASE /\ Markable(t)
           /\ record' = [record EXCEPT !.dispatched = TRUE, !.version = @ + 1]
           /\ Goto(t, "recheck")
           /\ UNCHANGED <<envelopes, book>>
  <2>1. /\ record.stage = "ack" /\ record.claimed /\ ~record.dispatched
        /\ record.life = tasks[t].life /\ record.attempt = tasks[t].attempt
        /\ record.version \in Nat /\ record.attempt \in Nat /\ record.life \in Nat
        /\ record.attempt >= 2 /\ record.life <= book.lives
    BY <1>2 DEF DInv, RecordOK, Markable, Current
  <2>2. /\ DOMAIN record' = DOMAIN NoRecord /\ record'.stage = "ack"
        /\ record'.version = record.version + 1 /\ record'.attempt = record.attempt
        /\ record'.life = record.life /\ record'.claimed = record.claimed
        /\ record'.dispatched = TRUE
    BY <1>2, <2>1 DEF DInv, Shapes, NoRecord
  <2>3. Moved(t) /\ Kept(t) /\ tasks'[t].pc = "recheck" BY <1>2, GotoMoves DEF DInv
  <2>4. Coherent(tasks'[t])
    BY <1>1, <2>3, MineIs
    DEF Coherent, Kept, Retrying, Pushing, Unrecorded, Recovering, Retiring
  <2>5. /\ BookStays /\ DOMAIN book' = BookFields /\ book'.lives \in Nat
        /\ book'.lives = book.lives /\ book'.lives >= book.lives
    BY <1>2, BookMoves DEF DInv, Shapes, BookStays
  <2>6. RecordOK' BY <2>1, <2>2, <2>5 DEF RecordOK, Stages
  <2>7. PastStays BY <2>1, <2>2, <2>5, PastKept
  <2>8. Past(tasks[t].life, tasks[t].attempt)' BY <2>1, <2>2, <2>3, <2>5 DEF Past, Kept
  <2>9. Known' BY <1>1, <1>2, <2>3, <2>7, <2>8, KnownStays DEF EnvelopesOK
  <2>10. <<tasks[t].life, tasks[t].attempt>> \notin wire.sent
    BY <2>1 DEF DInv, Marked
  <2>11. \A s \in Tasks : tasks[s].pc \in InFlight => ~SameToken(tasks[s], tasks[t])
    BY <2>1 DEF DInv, Marked, Current, SameToken
  <2>12. Unique'
    <3>1. tasks'[t].pc \notin First BY <2>3 DEF First
    <3>2. /\ tasks'[t].life = tasks[t].life /\ tasks'[t].attempt = tasks[t].attempt
          /\ \A s \in Tasks : s # t => tasks'[s] = tasks[s]
      BY <2>3 DEF Kept, Moved
    <3>3. \A s \in Tasks : tasks[s].pc \in InFlight => ~SameToken(tasks[t], tasks[s])
      BY <2>11 DEF SameToken
    <3> QED BY <1>1, <2>10, <2>11, <3>1, <3>2, <3>3 DEF DInv, Unique, SameToken
  <2>13. Marked' BY <2>2 DEF Marked
  <2> QED BY <1>1, <2>2, <2>3, <2>4, <2>5, <2>6, <2>9, <2>12, <2>13, Steps DEF DInv, Shapes
<1>3. CASE /\ IF conn = Node(t) /\ Markable(t) THEN Fault ELSE UNCHANGED book
           /\ Unsent(t)
           /\ UNCHANGED record
  <2>1. BookStays BY <1>3, BookMoves DEF DInv
  <2> QED BY <1>1, <1>3, <2>1, UnsentIs, Moves
<1> QED BY <1>2, <1>3 DEF Mark

LEMMA RecheckKeeps ==
  ASSUME DInv, NEW t \in Tasks, Recheck(t)
  PROVE  DInv'
<1>1. tasks[t].pc = "recheck" /\ record' = record /\ wire' = wire /\ EnvelopesOK
  BY DEF Recheck, At, EnvelopesOK
<1>2. PICK r : Loads(r) /\ Goto(t, IF Current(t, r) THEN "retrySend" ELSE "release")
  BY DEF Recheck
<1>3. BookStays BY <1>2, LoadsKeepsBook DEF DInv
<1>4. Moved(t) /\ Kept(t) /\ tasks'[t].pc \in {"retrySend", "release"}
  BY <1>2, GotoMoves DEF DInv
<1>5. Coherent(tasks'[t])
  BY <1>1, <1>4, MineIs
  DEF Coherent, Kept, Retrying, Pushing, Unrecorded, Recovering, Retiring
<1> QED BY <1>1, <1>3, <1>4, <1>5, GoesOn DEF InFlight, First

LEMMA RetrySendKeeps ==
  ASSUME DInv, NEW t \in Tasks, RetrySend(t)
  PROVE  DInv'
<1>1. /\ tasks[t].pc = "retrySend" /\ record' = record /\ envelopes' = envelopes
      /\ EnvelopesOK /\ tasks[t].attempt >= 2
  BY MineIs DEF RetrySend, At, EnvelopesOK, Coherent, Retrying
<1>2. CASE Sends(t) /\ tasks[t].kind = "timeout" /\ LoadThen(t, "sync")
  <2>1. /\ Moved(t) /\ tasks'[t].pc = "load" /\ tasks'[t].then = "sync"
        /\ tasks'[t].kind = tasks[t].kind /\ tasks'[t].life = 0 /\ tasks'[t].attempt = 0
    BY <1>2, LoadThenMoves DEF DInv
  <2>2. Coherent(tasks'[t])
    BY <1>2, <2>1 DEF Coherent, Retrying, Pushing, Unrecorded, Recovering, Retiring
  <2>3. Past(tasks'[t].life, tasks'[t].attempt) BY <2>1, ZeroIsPast
  <2> QED BY <1>1, <1>2, <2>1, <2>2, <2>3, SendsKeeps DEF InFlight, First
<1>3. CASE Sends(t) /\ Goto(t, "bump")
  <2>1. Moved(t) /\ Kept(t) /\ tasks'[t].pc = "bump" BY <1>3, GotoMoves DEF DInv
  <2>2. Coherent(tasks'[t])
    BY <1>1, <2>1, MineIs
    DEF Coherent, Kept, Retrying, Pushing, Unrecorded, Recovering, Retiring
  <2>3. Past(tasks'[t].life, tasks'[t].attempt) BY <2>1, MineIs DEF Kept
  <2> QED BY <1>1, <1>3, <2>1, <2>2, <2>3, SendsKeeps DEF InFlight, First
<1>4. CASE Sends(t) /\ End(t)
  <2>1. Moved(t) /\ tasks'[t] = Idle BY <1>4, EndMoves DEF DInv
  <2>2. Past(tasks'[t].life, tasks'[t].attempt) BY <2>1, ZeroIsPast, IdleCoherent
  <2>3. tasks'[t].pc \notin InFlight \cup First BY <2>1, IdleCoherent DEF InFlight, First
  <2> QED BY <1>1, <1>4, <2>1, <2>2, <2>3, IdleCoherent, SendsKeeps
<1>5. CASE SendFails(t) /\ Goto(t, "release")
  <2>1. wire' = wire /\ BookStays BY <1>5, BookMoves DEF SendFails, DInv
  <2>2. Moved(t) /\ Kept(t) /\ tasks'[t].pc = "release" BY <1>5, GotoMoves DEF DInv
  <2>3. Coherent(tasks'[t])
    BY <1>1, <2>2, MineIs
    DEF Coherent, Kept, Retrying, Pushing, Unrecorded, Recovering, Retiring
  <2> QED BY <1>1, <2>1, <2>2, <2>3, GoesOn DEF InFlight, First
<1> QED BY <1>2, <1>3, <1>4, <1>5 DEF RetrySend

\* The mark of a claim is taken back only by the goroutine that was to send it.
LEMMA ReleaseKeeps ==
  ASSUME DInv, NEW t \in Tasks, Release(t)
  PROVE  DInv'
<1>1. tasks[t].pc = "release" /\ wire' = wire /\ UNCHANGED book /\ Unsent(t)
  BY DEF Release, At
<1>2. /\ BookStays /\ DOMAIN book' = BookFields /\ book'.lives \in Nat
      /\ book'.lives = book.lives /\ book'.lives >= book.lives
  BY <1>1, BookMoves DEF DInv, Shapes, BookStays
<1>3. /\ EnvelopesOK /\ Moved(t) /\ Coherent(tasks'[t]) /\ TakesNoPacket(t)
      /\ Past(tasks'[t].life, tasks'[t].attempt)
      /\ tasks'[t].life = 0 /\ tasks'[t].attempt = 0 /\ tasks'[t].pc \in {"load", "idle"}
  BY <1>1, UnsentIs
<1>4. CASE ~Current(t, record)
  <2>1. record' = record BY <1>4 DEF Release
  <2> QED BY <1>1, <1>2, <1>3, <2>1, Moves
<1>5. CASE Current(t, record)
  <2>1. /\ record.stage = "ack" /\ record.claimed
        /\ record.life = tasks[t].life /\ record.attempt = tasks[t].attempt
        /\ record.version \in Nat /\ record.attempt \in Nat /\ record.life \in Nat
        /\ record.attempt >= 2 /\ record.life <= book.lives
    BY <1>5 DEF DInv, RecordOK, Current
  <2>2. record' = [record EXCEPT !.dispatched = FALSE, !.leased = FALSE, !.version = @ + 1]
    BY <1>5 DEF Release
  <2>3. /\ DOMAIN record' = DOMAIN NoRecord /\ record'.stage = "ack"
        /\ record'.version = record.version + 1 /\ record'.attempt = record.attempt
        /\ record'.life = record.life /\ record'.claimed = record.claimed
    BY <2>1, <2>2 DEF DInv, Shapes, NoRecord
  <2>4. RecordOK' BY <1>2, <2>1, <2>3 DEF RecordOK, Stages
  <2>5. PastStays BY <1>2, <2>1, <2>3, PastKept
  <2>6. Past(tasks[t].life, tasks[t].attempt)'
    BY <1>2, <1>3, <2>1, <2>3 DEF Past, DInv, Shapes
  <2>7. Known' BY <1>1, <1>3, <2>5, <2>6, KnownStays
  <2>8. Unique' BY <1>1, <1>3, UniqueStays
  <2>9. Marked'
    <3>1. tasks[t].pc \in InFlight BY <1>1 DEF InFlight
    <3>2. <<record'.life, record'.attempt>> \notin wire'.sent
      BY <1>1, <2>1, <2>3, <3>1 DEF DInv, Unique
    <3>3. \A s \in Tasks : tasks'[s].pc \in InFlight => ~Current(s, record)'
      <4> SUFFICES ASSUME NEW s \in Tasks, tasks'[s].pc \in InFlight, Current(s, record)'
          PROVE FALSE
        OBVIOUS
      <4>1. s # t BY <1>3 DEF InFlight
      <4>2. tasks'[s] = tasks[s] BY <1>3, <4>1 DEF Moved
      <4>3. SameToken(tasks[s], tasks[t]) /\ tasks[s].pc \in InFlight
        BY <2>1, <2>3, <4>2 DEF SameToken, Current
      <4> QED BY <3>1, <4>1, <4>3 DEF DInv, Unique
    <3> QED BY <3>2, <3>3 DEF Marked
  <2> QED BY <1>1, <1>2, <1>3, <2>3, <2>4, <2>7, <2>8, <2>9, Steps DEF DInv, Shapes
<1> QED BY <1>4, <1>5

-----------------------------------------------------------------------------
(* Acknowledgement, retirement and faults                                    *)

\* A record whose claim is gone, or whose lease or stage alone has changed.
LEMMA RecordAlone ==
  ASSUME DInv, wire' = wire, tasks' = tasks, envelopes' = envelopes, book' = book,
         DOMAIN record' = DOMAIN NoRecord, record.stage # "none",
         record'.stage \in Stages, record'.version \in Nat,
         record'.life = record.life, record'.attempt = record.attempt,
         \/ record'.claimed = FALSE
         \/ /\ record'.claimed = record.claimed /\ record'.dispatched = record.dispatched
            /\ record'.stage = record.stage
  PROVE  DInv'
<1>1. Shapes' /\ TasksOK' /\ Unique' BY DEF DInv, Shapes, TasksOK, Unique
<1>2. RecordOK' BY DEF DInv, RecordOK
<1>3. Known'
  <2>1. \A l, a : Past(l, a) => Past(l, a)' BY DEF Past
  <2>2. \A s \in Tasks : Past(tasks[s].life, tasks[s].attempt)' BY DEF DInv, Known, Past
  <2>3. \A env \in envelopes : env.attempt >= 2 /\ Past(env.life, env.attempt)'
    BY DEF DInv, Known, Past
  <2>4. \A p \in wire.sent : p = <<p[1], p[2]>> /\ Past(p[1], p[2])'
    BY DEF DInv, Known, Past
  <2> QED BY <2>2, <2>3, <2>4 DEF Known
<1>4. Marked' BY DEF DInv, Marked, Current
<1> QED BY <1>1, <1>2, <1>3, <1>4 DEF DInv

LEMMA AdvanceKeeps ==
  ASSUME DInv, NEW t \in Tasks, Advance(t)
  PROVE  DInv'
<1> DEFINE received == [record EXCEPT !.stage = "result", !.version = @ + 1,
                          !.claimed = FALSE, !.leased = FALSE, !.dispatched = FALSE]
<1>1. tasks[t].pc = "advance" /\ UNCHANGED book /\ EnvelopesOK
  BY DEF Advance, At, EnvelopesOK
<1>2. /\ BookStays /\ DOMAIN book' = BookFields /\ book'.lives \in Nat
      /\ book'.lives = book.lives /\ book'.lives >= book.lives
  BY <1>1, BookMoves DEF DInv, Shapes, BookStays
<1>3. CASE /\ record.stage = "ack" /\ record' = received
           /\ \E life : wire' = [wire EXCEPT !.received = life]
           /\ tasks' = [tasks EXCEPT ![t].pc = "received", ![t].rec = received]
  <2>1. /\ record.version \in Nat /\ record.attempt \in Nat /\ record.life \in Nat
        /\ record.attempt >= 1 /\ record.life <= book.lives
    BY <1>3 DEF DInv, RecordOK
  <2>2. /\ DOMAIN record' = DOMAIN NoRecord /\ record'.stage = "result"
        /\ record'.version = record.version + 1 /\ record'.attempt = record.attempt
        /\ record'.life = record.life /\ record'.claimed = FALSE
    BY <1>3 DEF DInv, Shapes, NoRecord
  <2> HIDE DEF received
  <2>3. Moved(t) /\ Kept(t) /\ tasks'[t].pc = "received"
    BY <1>3 DEF DInv, Shapes, Moved, Kept, Idle
  <2>4. /\ DOMAIN wire' = {"sent", "twice", "received"}
        /\ wire'.sent = wire.sent /\ wire'.twice = wire.twice
    BY <1>3 DEF DInv, Shapes
  <2>5. Coherent(tasks'[t])
    BY <2>3, MineIs DEF Coherent, Kept, Retrying, Pushing, Unrecorded, Recovering, Retiring
  <2>6. TakesNoPacket(t) BY <2>3 DEF TakesNoPacket, InFlight, First
  <2>7. RecordOK' BY <1>2, <2>1, <2>2 DEF RecordOK, Stages
  <2>8. PastStays BY <1>2, <1>3, <2>1, <2>2, PastKept
  <2>9. Past(tasks[t].life, tasks[t].attempt)'
    BY <1>2, <1>3, <2>2, <2>3, MineIs DEF Past, Kept
  <2>10. Known' BY <1>1, <2>3, <2>4, <2>8, <2>9, KnownStays
  <2>11. Unique' BY <2>3, <2>4, <2>6 DEF DInv, Unique, Moved, SameToken, TakesNoPacket
  <2>12. Marked' BY <2>2 DEF Marked, Current
  <2> QED BY <1>2, <2>2, <2>3, <2>4, <2>5, <2>7, <2>10, <2>11, <2>12, Steps
<1>4. CASE /\ tasks' = [tasks EXCEPT ![t].pc = "sync", ![t].rec = Mirrored(record)]
           /\ UNCHANGED <<record, wire>>
  <2>1. Moved(t) /\ Kept(t) /\ tasks'[t].pc = "sync"
    BY <1>4 DEF DInv, Shapes, Moved, Kept, Idle
  <2>2. Coherent(tasks'[t])
    BY <2>1, MineIs DEF Coherent, Kept, Retrying, Pushing, Unrecorded, Recovering, Retiring
  <2> QED BY <1>1, <1>2, <1>4, <2>1, <2>2, GoesOn DEF InFlight, First
<1> QED BY <1>3, <1>4 DEF Advance

LEMMA ReceivedKeeps ==
  ASSUME DInv, NEW t \in Tasks, Received(t)
  PROVE  DInv'
<1>1. record' = record /\ wire' = wire /\ EnvelopesOK /\ End(t) /\ UNCHANGED book
  BY DEF Received, EnvelopesOK
<1> QED BY <1>1, Ends, BookMoves DEF DInv

LEMMA RetireCheckKeeps ==
  ASSUME DInv, NEW t \in Tasks, RetireCheck(t)
  PROVE  DInv'
<1>1. /\ tasks[t].pc = "retireCheck" /\ record' = record /\ wire' = wire /\ EnvelopesOK
      /\ UNCHANGED book
  BY DEF RetireCheck, At, EnvelopesOK
<1>2. BookStays /\ tasks[t].kind = "retire"
  BY <1>1, BookMoves, MineIs DEF DInv, Coherent, Retiring
<1>3. CASE Goto(t, "sync")
  BY <1>1, <1>2, <1>3, GoesTo DEF InFlight, First, Pushing, Unrecorded
<1>4. CASE GoOn(t, "retireDelete")
  BY <1>1, <1>2, <1>4, GoesTo DEF InFlight, First, Pushing, Unrecorded
<1>5. CASE End(t) BY <1>1, <1>2, <1>5, Ends
<1> QED BY <1>3, <1>4, <1>5 DEF RetireCheck

LEMMA RetireDeleteKeeps ==
  ASSUME DInv, NEW t \in Tasks, RetireDelete(t)
  PROVE  DInv'
<1>1. tasks[t].pc = "retireDelete" /\ wire' = wire /\ EnvelopesOK /\ UNCHANGED book
  BY DEF RetireDelete, At, EnvelopesOK
<1>2. tasks[t].kind = "retire" /\ BookStays
  BY <1>1, MineIs, BookMoves DEF Coherent, Retiring, DInv
<1>3. CASE record' = NoRecord /\ Goto(t, "unindex")
  <2>1. Moved(t) /\ Kept(t) /\ tasks'[t].pc = "unindex" BY <1>3, GotoMoves DEF DInv
  <2>2. Coherent(tasks'[t])
    BY <1>2, <2>1, MineIs
    DEF Coherent, Kept, Retrying, Pushing, Unrecorded, Recovering, Retiring
  <2>3. TakesNoPacket(t) BY <2>1 DEF TakesNoPacket, InFlight, First
  <2> QED BY <1>1, <1>2, <1>3, <2>1, <2>2, <2>3, Deletes
<1>4. CASE LoadThen(t, "recover") /\ UNCHANGED record
  BY <1>1, <1>2, <1>4, LoadsAgain
<1> QED BY <1>3, <1>4 DEF RetireDelete

LEMMA SweepCheckKeeps ==
  ASSUME DInv, NEW t \in Tasks, SweepCheck(t)
  PROVE  DInv'
<1>1. record' = record /\ wire' = wire /\ EnvelopesOK /\ UNCHANGED book
  BY DEF SweepCheck, EnvelopesOK
<1>2. BookStays BY <1>1, BookMoves DEF DInv
<1>3. CASE Goto(t, "deleteSeed")
  BY <1>1, <1>2, <1>3, GoesTo DEF InFlight, First, Pushing, Unrecorded
<1>4. CASE End(t) BY <1>1, <1>2, <1>4, Ends
<1> QED BY <1>3, <1>4 DEF SweepCheck

LEMMA StoreFailsKeeps ==
  ASSUME DInv, NEW t \in Tasks, StoreFails(t)
  PROVE  DInv'
<1>1. record' = record /\ wire' = wire /\ EnvelopesOK /\ CallFails(t) /\ End(t)
  BY DEF StoreFails, EnvelopesOK
<1> QED BY <1>1, Ends, BookMoves DEF DInv

LEMMA CloseKeeps == ASSUME DInv, Close PROVE DInv'
<1>1. /\ record.stage \in {"ack", "result"} /\ wire' = wire /\ tasks' = tasks
      /\ envelopes' = envelopes /\ book' = book
  BY DEF Close
<1>2. /\ DOMAIN record' = DOMAIN NoRecord /\ record'.stage = "closed"
      /\ record'.version = record.version + 1 /\ record'.life = record.life
      /\ record'.attempt = record.attempt /\ record'.claimed = FALSE
  BY DEF Close, DInv, Shapes, NoRecord
<1>3. record'.version \in Nat /\ record'.stage \in Stages
  BY <1>2 DEF DInv, RecordOK, Stages
<1> QED BY <1>1, <1>2, <1>3, RecordAlone

LEMMA LeaseExpiresKeeps == ASSUME DInv, LeaseExpires PROVE DInv'
<1>1. /\ wire' = wire /\ tasks' = tasks /\ envelopes' = envelopes /\ book' = book
      /\ record' = [record EXCEPT !.leased = FALSE]
  BY DEF LeaseExpires
<1>2. /\ DOMAIN record' = DOMAIN NoRecord /\ record'.stage = record.stage
      /\ record'.version = record.version /\ record'.life = record.life
      /\ record'.attempt = record.attempt /\ record'.claimed = record.claimed
      /\ record'.dispatched = record.dispatched
  BY <1>1 DEF DInv, Shapes, NoRecord
<1>3. record'.version \in Nat /\ record'.stage \in Stages
  BY <1>2 DEF DInv, RecordOK
<1>4. CASE record.stage # "none" BY <1>1, <1>2, <1>3, <1>4, RecordAlone
<1>5. CASE record.stage = "none"
  <2>1. Shapes' /\ TasksOK' /\ Unique'
    BY <1>1, <1>2 DEF DInv, Shapes, TasksOK, Unique
  <2>2. RecordOK' BY <1>1, <1>2, <1>5 DEF DInv, RecordOK
  <2>3. Known' BY <1>1, <1>2, <1>5 DEF DInv, Known, Past
  <2>4. Marked' BY <1>2, <1>5 DEF Marked, Current
  <2> QED BY <2>1, <2>2, <2>3, <2>4 DEF DInv
<1> QED BY <1>4, <1>5

LEMMA EnvironmentKeeps ==
  ASSUME DInv, NEW n \in Nodes, Freeze(n) \/ Expire(n) \/ Reconnect(n) \/ SeedAges
  PROVE  DInv'
<1>1. record' = record /\ wire' = wire /\ tasks' = tasks /\ envelopes' = envelopes
  BY DEF Freeze, Expire, Reconnect, SeedAges
<1>2. BookStays
  BY DEF Freeze, Expire, Reconnect, SeedAges, Fault, DInv, Shapes, BookStays, BookFields
<1> QED BY <1>1, <1>2, Untouched

\* The goroutines of a node that dies do no more.
LEMMA CrashKeeps ==
  ASSUME DInv, NEW n \in Nodes, Crash(n)
  PROVE  DInv'
<1>1. /\ record' = record /\ wire' = wire /\ envelopes' \subseteq envelopes
      /\ DOMAIN tasks' = Tasks
      /\ \A t \in Tasks : tasks'[t] = Idle \/ tasks'[t] = tasks[t]
  BY DEF Crash
<1>2. BookStays BY DEF Crash, DInv, Shapes, BookStays, BookFields
<1>3. Shapes' BY <1>1, <1>2 DEF DInv, Shapes, BookStays
<1>4. TasksOK' BY <1>1, IdleCoherent DEF DInv, TasksOK
<1>5. RecordOK' BY <1>1, <1>2 DEF DInv, RecordOK, BookStays
<1>6. Known'
  <2>1. \A t \in Tasks : Past(tasks'[t].life, tasks'[t].attempt)
    BY <1>1, ZeroIsPast, IdleCoherent DEF DInv, Known
  <2>2. \A t \in Tasks : Past(tasks[t].life, tasks[t].attempt)'
    BY <1>1, <1>2, <2>1 DEF Past, BookStays
  <2>3. \A env \in envelopes' : env.attempt >= 2 /\ Past(env.life, env.attempt)'
    BY <1>1, <1>2 DEF DInv, Known, Past, BookStays
  <2>4. \A p \in wire'.sent : p = <<p[1], p[2]>> /\ Past(p[1], p[2])'
    BY <1>1, <1>2 DEF DInv, Known, Past, BookStays
  <2> QED BY <2>2, <2>3, <2>4 DEF Known
<1>7. \A t \in Tasks : tasks'[t].pc \in InFlight \cup First => tasks'[t] = tasks[t]
  BY <1>1, IdleCoherent DEF InFlight, First
<1>8. Unique' BY <1>1, <1>7 DEF DInv, Unique, SameToken
<1>9. Marked' BY <1>1, <1>7 DEF DInv, Marked, Current
<1> QED BY <1>3, <1>4, <1>5, <1>6, <1>8, <1>9 DEF DInv

-----------------------------------------------------------------------------
(* The invariant and what follows from it at once                            *)

LEMMA DInvInit == ASSUME Init PROVE DInv
<1>1. Shapes BY DEF Init, Shapes, BookFields
<1>2. \A t \in Tasks : tasks[t] = Idle BY DEF Init
<1>3. TasksOK BY <1>2, IdleCoherent DEF TasksOK
<1>4. /\ record.stage = "none" /\ record.version = 0 /\ record.attempt = 0
      /\ record.life = 0 /\ book.lives = 0 /\ wire.sent = {} /\ wire.twice = FALSE
      /\ envelopes = {}
  BY DEF Init, NoRecord
<1>5. RecordOK BY <1>4 DEF RecordOK, Stages
<1>6. Known BY <1>2, <1>4, IdleCoherent DEF Known, Past
<1>7. Unique BY <1>2, <1>4, IdleCoherent DEF Unique, InFlight, First
<1>8. Marked BY <1>4 DEF Marked, Current
<1> QED BY <1>1, <1>3, <1>5, <1>6, <1>7, <1>8 DEF DInv

LEMMA DInvStep == ASSUME DInv, [Next]_vars PROVE DInv'
<1>1. CASE \E t \in Tasks : TaskStep(t) \/ StoreFails(t)
  <2> PICK t \in Tasks : TaskStep(t) \/ StoreFails(t) BY <1>1
  <2>1. CASE Seed(t) \/ Adopt(t) \/ Create(t) \/ Track(t) \/ Send(t) \/ Rollback(t)
             \/ RollbackDelete(t) \/ RollbackDrop(t) \/ DeleteSeed(t) \/ Unindex(t)
    BY <2>1, SeedKeeps, AdoptKeeps, CreateKeeps, TrackKeeps, SendKeeps, RollbackKeeps,
       RollbackDeleteKeeps, RollbackDropKeeps, DeleteSeedKeeps, UnindexKeeps
  <2>2. CASE Load(t) \/ Sync(t) \/ Recover(t) \/ Claim(t) \/ Bump(t) \/ Mark(t)
             \/ Recheck(t) \/ RetrySend(t) \/ Release(t) \/ DrainDelete(t)
    BY <2>2, LoadKeeps, SyncKeeps, RecoverKeeps, ClaimKeeps, BumpKeeps, MarkKeeps,
       RecheckKeeps, RetrySendKeeps, ReleaseKeeps, DrainDeleteKeeps
  <2>3. CASE Advance(t) \/ Received(t) \/ RetireCheck(t) \/ RetireDelete(t)
             \/ SweepCheck(t) \/ StoreFails(t)
    BY <2>3, AdvanceKeeps, ReceivedKeeps, RetireCheckKeeps, RetireDeleteKeeps,
       SweepCheckKeeps, StoreFailsKeeps
  <2> QED BY <2>1, <2>2, <2>3 DEF TaskStep
<1>2. CASE \E t \in Tasks, n \in Nodes :
             \/ StartPush(t, n) \/ StartTimeout(t, n) \/ StartDrain(t, n) \/ StartAck(t, n)
             \/ StartRetire(t, n) \/ StartSweep(t, n)
  BY <1>2, StartPushKeeps, StartTimeoutKeeps, StartDrainKeeps, StartAckKeeps,
     StartRetireKeeps, StartSweepKeeps
<1>3. CASE \E t \in Tasks, env \in envelopes : StartForwarded(t, env)
  BY <1>3, StartForwardedKeeps
<1>4. CASE \E n \in Nodes : Freeze(n) \/ Expire(n) \/ Reconnect(n) \/ Crash(n)
  BY <1>4, EnvironmentKeeps, CrashKeeps
<1>5. CASE Close BY <1>5, CloseKeeps
<1>6. CASE LeaseExpires BY <1>6, LeaseExpiresKeeps
<1>7. CASE SeedAges
  <2>1. /\ record' = record /\ wire' = wire /\ tasks' = tasks /\ envelopes' = envelopes
        /\ book' = book
    BY <1>7 DEF SeedAges
  <2> QED BY <2>1, Untouched DEF DInv, Shapes, BookStays
<1>8. CASE UNCHANGED vars
  <2>1. /\ record' = record /\ wire' = wire /\ tasks' = tasks /\ envelopes' = envelopes
        /\ book' = book
    BY <1>8 DEF vars
  <2> QED BY <2>1, Untouched DEF DInv, Shapes, BookStays
<1> QED BY <1>1, <1>2, <1>3, <1>4, <1>5, <1>6, <1>7, <1>8 DEF Next

\* The inductive invariant: tokens given out never come back, what a goroutine is about to
\* send was never sent, and a marked claim is that of one goroutine
\* (dispatchClaimedDelegateRetry, claimDurableRetryScript).
THEOREM InvariantHolds == Spec => []DInv
<1>1. Init => DInv BY DInvInit
<1>2. DInv /\ [Next]_vars => DInv' BY DInvStep
<1> QED BY <1>1, <1>2, PTL DEF Spec

\* Timers, drains, forwarded retries and dispatches never write an attempt of a record to
\* the connector twice.
THEOREM SentOnce == Spec => []SentOncePerAttempt
<1>1. DInv => SentOncePerAttempt BY DEF DInv, Unique, SentOncePerAttempt
<1> QED BY <1>1, InvariantHolds, PTL

-----------------------------------------------------------------------------
(* What a step does to the record                                            *)

\* The record stays, moves on, or is deleted by a goroutine that took it for missing or
\* compared it.
RecordStep ==
  /\ record'.stage # "none" /\ record.stage # "none" =>
       /\ record'.life = record.life /\ record'.version >= record.version
       /\ StageRank(record'.stage) >= StageRank(record.stage)
  /\ record'.stage = "none" /\ record.stage \in {"result", "closed"} =>
       \E t \in Tasks : /\ tasks'[t] # tasks[t]
                        /\ At(t, "drainDelete") \/ tasks[t].exp.stage = record.stage

LEMMA RecordStays == ASSUME DInv, record' = record PROVE RecordStep
<1>1. record.version \in Nat /\ record.stage \in Stages BY DEF DInv, RecordOK
<1> QED BY <1>1 DEF RecordStep, StageRank, Stages

LEMMA RecordCompared ==
  ASSUME DInv, NEW t \in Tasks, NEW label, label # tasks[t].pc,
         Unchanged(tasks[t].exp), record' = NoRecord, Goto(t, label)
  PROVE  RecordStep
<1>1. record'.stage = "none" BY DEF NoRecord
<1>2. tasks'[t].pc = label BY GotoMoves DEF DInv
<1>3. tasks'[t] # tasks[t] BY <1>2
<1>4. record.stage # "none" => tasks[t].exp.stage = record.stage
  BY DEF Unchanged, SameVersion
<1> QED BY <1>1, <1>3, <1>4 DEF RecordStep

LEMMA RecordAdvances ==
  ASSUME DInv, record'.life = record.life, record'.version \in {record.version,
         record.version + 1}, record'.stage = record.stage \/
         (record.stage = "ack" /\ record'.stage = "result") \/
         (record.stage \in {"ack", "result"} /\ record'.stage = "closed")
  PROVE  RecordStep
<1>1. record.version \in Nat /\ record.stage \in Stages BY DEF DInv, RecordOK
<1> QED BY <1>1 DEF RecordStep, StageRank, Stages

\* A step that begins a goroutine, or at which a store call fails, writes to no store.
Begins ==
  \/ \E t \in Tasks : StoreFails(t)
  \/ \E t \in Tasks, n \in Nodes :
       \/ StartPush(t, n) \/ StartTimeout(t, n) \/ StartDrain(t, n)
       \/ StartAck(t, n) \/ StartRetire(t, n) \/ StartSweep(t, n)
  \/ \E t \in Tasks, env \in envelopes : StartForwarded(t, env)

LEMMA BeginsAlone ==
  ASSUME Begins
  PROVE  UNCHANGED <<seed, record, pending>>
<1>1. ASSUME NEW t \in Tasks, StoreFails(t) PROVE UNCHANGED <<seed, record, pending>>
  BY <1>1 DEF StoreFails
<1>2. ASSUME NEW t \in Tasks, NEW n \in Nodes,
             StartPush(t, n) \/ StartTimeout(t, n) \/ StartDrain(t, n)
      PROVE  UNCHANGED <<seed, record, pending>>
  BY <1>2 DEF StartPush, StartTimeout, StartDrain
<1>3. ASSUME NEW t \in Tasks, NEW n \in Nodes,
             StartAck(t, n) \/ StartRetire(t, n) \/ StartSweep(t, n)
      PROVE  UNCHANGED <<seed, record, pending>>
  BY <1>3 DEF StartAck, StartRetire, StartSweep
<1>4. ASSUME NEW t \in Tasks, NEW env \in envelopes, StartForwarded(t, env)
      PROVE  UNCHANGED <<seed, record, pending>>
  BY <1>4 DEF StartForwarded
<1> QED BY <1>1, <1>2, <1>3, <1>4 DEF Begins

LEMMA RecordSteps == ASSUME DInv, [Next]_vars PROVE RecordStep
<1>0. DOMAIN record = DOMAIN NoRecord BY DEF DInv, Shapes
<1>1. ASSUME NEW t \in Tasks, TaskStep(t) PROVE RecordStep
  <2>1. CASE Seed(t) \/ Adopt(t) \/ Track(t) \/ Send(t) \/ Rollback(t) \/ RollbackDrop(t)
             \/ DeleteSeed(t) \/ Unindex(t) \/ Load(t) \/ Sync(t) \/ Recover(t) \/ Bump(t)
             \/ Recheck(t) \/ RetrySend(t) \/ Received(t) \/ RetireCheck(t) \/ SweepCheck(t)
    <3>1. record' = record
      BY <2>1 DEF Seed, Adopt, Track, Send, Rollback, RollbackDrop, DeleteSeed, Unindex,
                  Load, Sync, Recover, Bump, Recheck, RetrySend, Received, RetireCheck,
                  SweepCheck
    <3> QED BY <3>1, RecordStays
  <2>2. CASE Create(t)
    <3>1. record.stage = "none" \/ record' = record BY <2>2 DEF Create
    <3>2. CASE record.stage = "none" BY <3>2 DEF RecordStep
    <3> QED BY <3>1, <3>2, RecordStays
  <2>3. CASE RollbackDelete(t)
    <3>1. tasks[t].pc = "rollbackDelete" BY <2>3 DEF RollbackDelete, At
    <3>2. \/ record' = record
          \/ Unchanged(tasks[t].exp) /\ record' = NoRecord /\ Goto(t, "unindex")
      BY <2>3 DEF RollbackDelete
    <3> QED BY <3>1, <3>2, RecordStays, RecordCompared
  <2>4. CASE RetireDelete(t)
    <3>1. tasks[t].pc = "retireDelete" BY <2>4 DEF RetireDelete, At
    <3>2. \/ record' = record
          \/ Unchanged(tasks[t].exp) /\ record' = NoRecord /\ Goto(t, "unindex")
      BY <2>4 DEF RetireDelete
    <3> QED BY <3>1, <3>2, RecordStays, RecordCompared
  <2>5. CASE DrainDelete(t)
    <3>1. At(t, "drainDelete") /\ record' = NoRecord /\ End(t) BY <2>5 DEF DrainDelete
    <3>2. tasks'[t] = Idle BY <3>1, EndMoves DEF DInv
    <3>3. tasks'[t] # tasks[t] BY <3>1, <3>2 DEF At, Idle
    <3>4. record'.stage = "none" BY <3>1 DEF NoRecord
    <3> QED BY <3>1, <3>3, <3>4 DEF RecordStep
  <2>6. CASE Claim(t)
    <3>1. \/ record' = record
          \/ /\ record'.life = record.life /\ record'.version = record.version + 1
             /\ record'.stage = record.stage
      BY <1>0, <2>6 DEF Claim, NoRecord
    <3> QED BY <3>1, RecordStays, RecordAdvances
  <2>7. CASE Mark(t)
    <3>1. \/ record' = record
          \/ /\ record'.life = record.life /\ record'.version = record.version + 1
             /\ record'.stage = record.stage
      BY <1>0, <2>7 DEF Mark, NoRecord
    <3> QED BY <3>1, RecordStays, RecordAdvances
  <2>8. CASE Release(t)
    <3>1. \/ record' = record
          \/ /\ record'.life = record.life /\ record'.version = record.version + 1
             /\ record'.stage = record.stage
      BY <1>0, <2>8 DEF Release, NoRecord
    <3> QED BY <3>1, RecordStays, RecordAdvances
  <2>9. CASE Advance(t)
    <3>1. \/ record' = record
          \/ /\ record'.life = record.life /\ record'.version = record.version + 1
             /\ record.stage = "ack" /\ record'.stage = "result"
      BY <1>0, <2>9 DEF Advance, NoRecord
    <3> QED BY <3>1, RecordStays, RecordAdvances
  <2> QED BY <1>1, <2>1, <2>2, <2>3, <2>4, <2>5, <2>6, <2>7, <2>8, <2>9 DEF TaskStep
<1>2. CASE Close
  <2>1. /\ record'.life = record.life /\ record'.version = record.version + 1
        /\ record.stage \in {"ack", "result"} /\ record'.stage = "closed"
    BY <1>0, <1>2 DEF Close, NoRecord
  <2> QED BY <2>1, RecordAdvances
<1>3. CASE LeaseExpires
  <2>1. /\ record'.life = record.life /\ record'.version = record.version
        /\ record'.stage = record.stage
    BY <1>0, <1>3 DEF LeaseExpires, NoRecord
  <2> QED BY <2>1, RecordAdvances
<1>4. CASE \/ SeedAges \/ UNCHANGED vars
           \/ \E n \in Nodes : Freeze(n) \/ Expire(n) \/ Reconnect(n) \/ Crash(n)
  <2>1. record' = record
    BY <1>4 DEF SeedAges, vars, Freeze, Expire, Reconnect, Crash
  <2> QED BY <2>1, RecordStays
<1>5. CASE Begins
  BY <1>5, BeginsAlone, RecordStays
<1> QED BY <1>1, <1>2, <1>3, <1>4, <1>5 DEF Next, Begins

\* No retry, drain or dispatch takes a record back to an earlier stage or version, and an
\* acknowledged one is removed only by who knew of the acknowledgement, or by a drain.
THEOREM RecordsMoveForward == Spec => RecordMovesForward
<1>1. DInv /\ [Next]_vars => RecordStep BY RecordSteps
<1> QED BY <1>1, InvariantHolds, PTL DEF Spec, RecordMovesForward, RecordStep

-----------------------------------------------------------------------------
(* No event is forgotten                                                     *)

\* Nothing but a goroutine can still answer for the event.
Lost ==
  /\ ~book.owed /\ ~book.erased /\ wire.sent = {}
  /\ record.stage = "none" /\ seed.status # "frozen"

\* A push answers for the event until it finds the record of another.
Answers(r) == r.kind = "push" /\ ~Recovering(r)

Fits(r) ==
  /\ r.kind # "retire"
  /\ r.kind = "push" => r.pc \in Pushing \cup {"load", "recover", "sync", "unindex", "deleteSeed"}

EntryFits(e) == DOMAIN e = DOMAIN NoEntry /\ e.expired = FALSE

Around ==
  /\ DOMAIN seed = {"status", "gen", "old"}
  /\ DOMAIN pending = Nodes /\ \A n \in Nodes : EntryFits(pending[n])

AInv ==
  /\ Around
  /\ \A t \in Tasks : Fits(tasks[t])
  /\ Lost => \E t \in Tasks : Answers(tasks[t])

LEMMA Tracks ==
  ASSUME AInv, NEW t \in Tasks, Moved(t), Fits(tasks'[t]), Around',
         Answers(tasks'[t]) \/ ~Lost' \/ (Lost /\ ~Answers(tasks[t]))
  PROVE  AInv'
<1>1. \A s \in Tasks : Fits(tasks'[s]) BY DEF AInv, Moved
<1>2. CASE Answers(tasks'[t]) BY <1>1, <1>2 DEF AInv
<1>3. CASE ~Lost' BY <1>1, <1>3 DEF AInv
<1>4. CASE Lost /\ ~Answers(tasks[t])
  <2>1. PICK s \in Tasks : Answers(tasks[s]) BY <1>4 DEF AInv
  <2>2. tasks'[s] = tasks[s] BY <1>4, <2>1 DEF Moved
  <2> QED BY <1>1, <2>1, <2>2 DEF AInv
<1> QED BY <1>2, <1>3, <1>4

\* A goroutine that is no push, and takes nothing that answers for the event away.
LEMMA TracksApart ==
  ASSUME AInv, NEW t \in Tasks, Moved(t), tasks[t].kind # "push",
         tasks'[t].kind \notin {"push", "retire"}, Around', Lost' => Lost
  PROVE  AInv'
BY Tracks DEF Answers, Fits

\* What a step may do to the bookkeeping, but for a new push.
Owes ==
  /\ DOMAIN book' = BookFields
  /\ (book.owed => book'.owed) /\ (book.erased => book'.erased)

LEMMA StillOwes ==
  ASSUME DInv, NEW t \in Tasks, NEW r,
         UNCHANGED book \/ Fault \/ CallFails(t) \/ book' = PushFailed(t) \/ Loads(r)
  PROVE  Owes
BY DEF DInv, Shapes, BookFields, Owes, Fault, CallFails, PushFailed, Loads

LEMMA LostBefore ==
  ASSUME Owes, wire.sent \subseteq wire'.sent, seed'.status = seed.status,
         record.stage # "none" => record'.stage # "none"
  PROVE  Lost' => Lost
BY DEF Owes, Lost

LEMMA PendingStays ==
  ASSUME Around, NEW n, NEW e, seed' = seed, n \in Nodes => EntryFits(e),
         pending' = pending \/ pending' = [pending EXCEPT ![n] = e]
  PROVE  Around'
BY DEF Around

LEMMA NoEntryFits == EntryFits(NoEntry)
BY DEF EntryFits, NoEntry

LEMMA SyncedFits ==
  ASSUME NEW e, EntryFits(e), NEW i, NEW r
  PROVE  EntryFits(Synced(e, i, r))
BY NoEntryFits DEF EntryFits, Synced, NoEntry

LEMMA RecoveredFits ==
  ASSUME NEW e, EntryFits(e), NEW r
  PROVE  EntryFits(Recovered(e, r))
BY DEF EntryFits, Recovered, NoEntry

\* Who is at a place that pushes share with others, or have for themselves.
LEMMA WhoIsWhere ==
  ASSUME DInv, AInv, NEW t \in Tasks
  PROVE  /\ tasks[t].kind # "retire"
         /\ tasks[t].pc \in Pushing => tasks[t].kind = "push"
         /\ tasks[t].kind = "push" =>
              tasks[t].pc \in Pushing \cup {"load", "recover", "sync", "unindex", "deleteSeed"}
         /\ tasks[t].pc = "unindex" => tasks[t].kind = "push"
         /\ tasks[t].pc \notin {"retireCheck", "retireDelete"}
         /\ tasks[t].pc = "idle" => tasks[t].kind = "none"
         /\ tasks[t].pc = "load" => tasks[t].then \in {"recover", "sync"}
BY MineIs DEF AInv, Fits, Coherent, Retiring

-----------------------------------------------------------------------------
(* The steps of a push                                                       *)

\* A push that goes on answers for the event.
LEMMA GoesOnAnswering ==
  ASSUME DInv, AInv, NEW t \in Tasks, NEW label, Goto(t, label),
         tasks[t].kind = "push", label \in Pushing \cup {"unindex", "deleteSeed"}, Around'
  PROVE  AInv'
<1>1. Moved(t) /\ Kept(t) /\ tasks'[t].pc = label BY GotoMoves DEF DInv
<1>2. Answers(tasks'[t]) /\ Fits(tasks'[t])
  BY <1>1 DEF Answers, Fits, Kept, Recovering, Pushing
<1> QED BY <1>1, <1>2, Tracks

\* A push that ends, or goes on to recover a record, leaves the event to another.
LEMMA LeavesEvent ==
  ASSUME DInv, AInv, NEW t \in Tasks, End(t) \/ LoadThen(t, "recover"), Around', ~Lost',
         tasks[t].kind = "push"
  PROVE  AInv'
<1>1. CASE End(t)
  <2>1. Moved(t) /\ tasks'[t] = Idle BY <1>1, EndMoves DEF DInv
  <2>2. Fits(tasks'[t]) BY <2>1, IdleCoherent DEF Fits
  <2> QED BY <2>1, <2>2, Tracks
<1>2. CASE LoadThen(t, "recover")
  <2>1. Moved(t) /\ tasks'[t].pc = "load" /\ tasks'[t].kind = tasks[t].kind
    BY <1>2, LoadThenMoves DEF DInv
  <2>2. Fits(tasks'[t]) BY <2>1 DEF Fits
  <2> QED BY <2>1, <2>2, Tracks
<1> QED BY <1>1, <1>2

\* A push that reads the record to mirror it still answers for the event.
LEMMA LoadsToSync ==
  ASSUME DInv, AInv, NEW t \in Tasks, LoadThen(t, "sync"), Around',
         tasks[t].kind = "push"
  PROVE  AInv'
<1>1. /\ Moved(t) /\ tasks'[t].pc = "load" /\ tasks'[t].then = "sync"
      /\ tasks'[t].kind = tasks[t].kind
  BY LoadThenMoves DEF DInv
<1>2. Fits(tasks'[t]) /\ Answers(tasks'[t]) BY <1>1 DEF Fits, Answers, Recovering
<1> QED BY <1>1, <1>2, Tracks

\* A push that fails hands the event back to its caller.
LEMMA HandsBack ==
  ASSUME DInv, AInv, NEW t \in Tasks, End(t), Around', tasks[t].kind = "push",
         book' = PushFailed(t) \/ CallFails(t)
  PROVE  AInv'
<1>1. book'.owed BY DEF DInv, Shapes, BookFields, PushFailed, CallFails
<1> QED BY <1>1, LeavesEvent DEF Lost

LEMMA AroundAlone ==
  ASSUME Around, pending' = pending, seed' = seed PROVE Around'
BY DEF Around

LEMMA StartPushTracks ==
  ASSUME DInv, AInv, NEW t \in Tasks, NEW n \in Nodes, StartPush(t, n)
  PROVE  AInv'
<1> DEFINE r == [Idle EXCEPT !.pc = "seed", !.kind = "push", !.node = n]
<1>1. tasks' = [tasks EXCEPT ![t] = r] BY DEF StartPush, Start
<1>2. DOMAIN r = DOMAIN Idle /\ r.pc = "seed" /\ r.kind = "push" BY DEF Idle
<1>3. Fits(r) /\ Answers(r) BY <1>2 DEF Fits, Answers, Recovering, Pushing
<1> HIDE DEF r
<1>4. Moved(t) /\ tasks'[t] = r BY <1>1, <1>2, StartMoves DEF DInv
<1>5. Around' BY AroundAlone DEF StartPush, AInv
<1> QED BY <1>3, <1>4, <1>5, Tracks

LEMMA SeedTracks ==
  ASSUME DInv, AInv, SharedToken, NEW t \in Tasks, Seed(t)
  PROVE  AInv'
<1>1. tasks[t].pc = "seed" /\ tasks[t].kind = "push"
  BY WhoIsWhere DEF Seed, At, Pushing
<1>2. pending' = pending BY DEF Seed
<1>3. CASE seed.status = "frozen" /\ End(t) /\ UNCHANGED seed
  BY <1>1, <1>2, <1>3, AroundAlone, LeavesEvent DEF Lost, AInv
<1>4. CASE tasks' = [tasks EXCEPT ![t].pc = "adopt", ![t].gen = seed.gen]
           /\ UNCHANGED seed
  <2>1. Moved(t) /\ tasks'[t].pc = "adopt" /\ tasks'[t].kind = "push"
    BY <1>1, <1>4 DEF DInv, Shapes, Moved, Idle
  <2>2. Fits(tasks'[t]) /\ Answers(tasks'[t]) BY <2>1 DEF Fits, Answers, Recovering, Pushing
  <2> QED BY <1>2, <1>4, <2>1, <2>2, AroundAlone, Tracks DEF AInv
<1>5. CASE /\ seed' = [status |-> "pending", gen |-> book.gens + 1, old |-> FALSE]
           /\ tasks' = [tasks EXCEPT ![t].pc = "create", ![t].gen = book.gens + 1,
                                     ![t].created = TRUE]
  <2>1. Moved(t) /\ tasks'[t].pc = "create" /\ tasks'[t].kind = "push"
    BY <1>1, <1>5 DEF DInv, Shapes, Moved, Idle
  <2>2. Fits(tasks'[t]) /\ Answers(tasks'[t]) BY <2>1 DEF Fits, Answers, Recovering, Pushing
  <2>3. Around' BY <1>2, <1>5 DEF AInv, Around
  <2> QED BY <2>1, <2>2, <2>3, Tracks
<1> QED BY <1>3, <1>4, <1>5 DEF Seed

LEMMA AdoptTracks ==
  ASSUME DInv, AInv, NEW t \in Tasks, Adopt(t)
  PROVE  AInv'
<1>1. tasks[t].kind = "push" /\ record' = record /\ Around'
  BY WhoIsWhere, AroundAlone DEF Adopt, At, Pushing, AInv
<1>2. CASE record.stage # "none" /\ LoadThen(t, "recover")
  BY <1>1, <1>2, LeavesEvent DEF Lost
<1>3. CASE Goto(t, "create")
  BY <1>1, <1>3, GoesOnAnswering DEF Pushing
<1>4. NoRecord.stage = "none" BY DEF NoRecord
<1> QED BY <1>2, <1>3, <1>4 DEF Adopt, Loads

LEMMA CreateTracks ==
  ASSUME DInv, AInv, NEW t \in Tasks, Create(t)
  PROVE  AInv'
<1>1. tasks[t].kind = "push" /\ pending' = pending
  BY WhoIsWhere DEF Create, At, Pushing
<1>2. CASE /\ tasks' = [tasks EXCEPT ![t].pc = "track", ![t].life = book.lives + 1]
           /\ UNCHANGED seed
  <2>1. Moved(t) /\ tasks'[t].pc = "track" /\ tasks'[t].kind = "push"
    BY <1>1, <1>2 DEF DInv, Shapes, Moved, Idle
  <2>2. Fits(tasks'[t]) /\ Answers(tasks'[t]) BY <2>1 DEF Fits, Answers, Recovering, Pushing
  <2> QED BY <1>1, <1>2, <2>1, <2>2, AroundAlone, Tracks DEF AInv
<1>3. CASE /\ record.stage # "none"
           /\ seed' = IF record.stage = "closed" /\ tasks[t].created /\ seed.status = "pending"
                      THEN [seed EXCEPT !.status = "frozen"] ELSE seed
           /\ LoadThen(t, "recover")
           /\ UNCHANGED <<record, index, book>>
  <2>1. Around' BY <1>1, <1>3 DEF AInv, Around
  <2> QED BY <1>1, <1>3, <2>1, LeavesEvent DEF Lost
<1>4. CASE /\ CallFails(t)
           /\ IF tasks[t].created THEN Goto(t, "deleteSeed") ELSE End(t)
           /\ UNCHANGED <<seed, record, index>>
  <2>1. Around' BY <1>1, <1>4, AroundAlone DEF AInv
  <2> QED BY <1>1, <1>4, <2>1, HandsBack, GoesOnAnswering
<1> QED BY <1>2, <1>3, <1>4 DEF Create

LEMMA TrackTracks ==
  ASSUME DInv, AInv, NEW t \in Tasks, Track(t)
  PROVE  AInv'
<1>1. tasks[t].kind = "push" /\ seed' = seed BY WhoIsWhere DEF Track, At, Pushing
<1>2. Around'
  <2> DEFINE e == [id |-> FreshId, stage |-> "ack", version |-> 1, attempt |-> 1,
                   gen |-> tasks[t].gen, life |-> tasks[t].life,
                   created |-> tasks[t].created, expired |-> FALSE]
  <2>1. EntryFits(e) BY DEF EntryFits, NoEntry
  <2>2. pending' = [pending EXCEPT ![Node(t)] = e] BY DEF Track
  <2> HIDE DEF e
  <2> QED BY <1>1, <2>1, <2>2, PendingStays DEF AInv
<1>3. Moved(t) /\ tasks'[t].pc = "send" /\ tasks'[t].kind = "push"
  BY <1>1 DEF Track, DInv, Shapes, Moved, Idle
<1>4. Fits(tasks'[t]) /\ Answers(tasks'[t]) BY <1>3 DEF Fits, Answers, Recovering, Pushing
<1> QED BY <1>2, <1>3, <1>4, Tracks

LEMMA SendTracks ==
  ASSUME DInv, AInv, NEW t \in Tasks, Send(t)
  PROVE  AInv'
<1>1. tasks[t].kind = "push" /\ Around'
  BY WhoIsWhere, AroundAlone DEF Send, At, Pushing, AInv
<1>2. CASE Sends(t) /\ End(t)
  <2>1. wire'.sent # {} BY <1>2 DEF Sends, DInv, Shapes
  <2> QED BY <1>1, <1>2, <2>1, LeavesEvent DEF Lost
<1>3. CASE tasks' = [tasks EXCEPT ![t] = [Idle EXCEPT !.pc = "rollback",
                                            !.kind = "push", !.node = Node(t)]]
  <2> DEFINE r == [Idle EXCEPT !.pc = "rollback", !.kind = "push", !.node = Node(t)]
  <2>1. tasks' = [tasks EXCEPT ![t] = r] BY <1>3
  <2>2. DOMAIN r = DOMAIN Idle /\ r.pc = "rollback" /\ r.kind = "push" BY DEF Idle
  <2>3. Fits(r) /\ Answers(r) BY <2>2 DEF Fits, Answers, Recovering, Pushing
  <2> HIDE DEF r
  <2>4. Moved(t) /\ tasks'[t] = r BY <2>1, <2>2, StartMoves DEF DInv
  <2> QED BY <1>1, <2>3, <2>4, Tracks
<1> QED BY <1>2, <1>3 DEF Send

LEMMA RollbackTracks ==
  ASSUME DInv, AInv, NEW t \in Tasks, Rollback(t)
  PROVE  AInv'
<1>1. tasks[t].kind = "push" /\ Around'
  BY WhoIsWhere, AroundAlone DEF Rollback, At, Pushing, AInv
<1>2. CASE End(t) /\ book' = PushFailed(t) BY <1>1, <1>2, HandsBack
<1>3. CASE tasks' = [tasks EXCEPT ![t].pc = "rollbackDelete", ![t].id = Mine(t).id,
                                  ![t].exp = Mine(t)]
  <2>1. Moved(t) /\ tasks'[t].pc = "rollbackDelete" /\ tasks'[t].kind = "push"
    BY <1>1, <1>3 DEF DInv, Shapes, Moved, Idle
  <2>2. Fits(tasks'[t]) /\ Answers(tasks'[t]) BY <2>1 DEF Fits, Answers, Recovering, Pushing
  <2> QED BY <1>1, <2>1, <2>2, Tracks
<1> QED BY <1>2, <1>3 DEF Rollback

LEMMA RollbackDeleteTracks ==
  ASSUME DInv, AInv, NEW t \in Tasks, RollbackDelete(t)
  PROVE  AInv'
<1>1. tasks[t].kind = "push" /\ Around'
  BY WhoIsWhere, AroundAlone DEF RollbackDelete, At, Pushing, AInv
<1> QED BY <1>1, GoesOnAnswering, LoadsToSync DEF RollbackDelete

LEMMA UnindexTracks ==
  ASSUME DInv, AInv, NEW t \in Tasks, Unindex(t)
  PROVE  AInv'
<1>1. tasks[t].kind = "push" /\ Around'
  BY WhoIsWhere, AroundAlone DEF Unindex, At, AInv
<1> QED BY <1>1, GoesOnAnswering DEF Unindex, Pushing

LEMMA RollbackDropTracks ==
  ASSUME DInv, AInv, NEW t \in Tasks, RollbackDrop(t)
  PROVE  AInv'
<1>1. tasks[t].kind = "push" /\ seed' = seed
  BY WhoIsWhere DEF RollbackDrop, At, Pushing
<1>2. Around'
  <2>1. pending' = pending \/ pending' = [pending EXCEPT ![Node(t)] = NoEntry]
    BY DEF RollbackDrop
  <2> QED BY <1>1, <2>1, NoEntryFits, PendingStays DEF AInv
<1>3. CASE tasks' = [tasks EXCEPT ![t].pc = "deleteSeed", ![t].gen = Mine(t).gen]
  <2>1. Moved(t) /\ tasks'[t].pc = "deleteSeed" /\ tasks'[t].kind = "push"
    BY <1>1, <1>3 DEF DInv, Shapes, Moved, Idle
  <2>2. Fits(tasks'[t]) /\ Answers(tasks'[t]) BY <2>1 DEF Fits, Answers, Recovering
  <2> QED BY <1>2, <2>1, <2>2, Tracks
<1>4. CASE End(t) /\ book' = PushFailed(t) BY <1>1, <1>2, <1>4, HandsBack
<1>5. CASE LoadThen(t, "sync") BY <1>1, <1>2, <1>5, LoadsToSync
<1> QED BY <1>3, <1>4, <1>5 DEF RollbackDrop

\* The goroutine that ends, for a push as for any other.
LEMMA EndsTracking ==
  ASSUME DInv, AInv, NEW t \in Tasks, End(t), Around', seed'.status = seed.status,
         book' = PushFailed(t) \/ CallFails(t),
         record.stage # "none" => record'.stage # "none", wire.sent \subseteq wire'.sent
  PROVE  AInv'
<1>1. CASE tasks[t].kind = "push" BY <1>1, HandsBack
<1>2. CASE tasks[t].kind # "push"
  <2>1. Moved(t) /\ tasks'[t] = Idle BY EndMoves DEF DInv
  <2>2. Lost' => Lost BY StillOwes, LostBefore
  <2> QED BY <1>2, <2>1, <2>2, TracksApart, IdleCoherent
<1> QED BY <1>1, <1>2

LEMMA DeleteSeedTracks ==
  ASSUME DInv, AInv, NEW t \in Tasks, DeleteSeed(t)
  PROVE  AInv'
<1>1. Around' BY DEF DeleteSeed, AInv, Around
<1>2. CASE tasks[t].kind = "push" BY <1>1, <1>2, HandsBack DEF DeleteSeed
<1>3. CASE tasks[t].kind # "push"
  <2>1. End(t) /\ Owes BY StillOwes DEF DeleteSeed
  <2>2. seed'.status # "frozen" => seed.status # "frozen" BY DEF DeleteSeed
  <2>3. Lost' => Lost BY <2>1, <2>2 DEF DeleteSeed, Owes, Lost
  <2>4. Moved(t) /\ tasks'[t] = Idle BY <2>1, EndMoves DEF DInv
  <2> QED BY <1>1, <1>3, <2>3, <2>4, TracksApart, IdleCoherent
<1> QED BY <1>2, <1>3

LEMMA StoreFailsTracks ==
  ASSUME DInv, AInv, NEW t \in Tasks, StoreFails(t)
  PROVE  AInv'
<1>1. /\ record' = record /\ wire' = wire /\ pending' = pending /\ seed' = seed
      /\ CallFails(t) /\ End(t)
  BY DEF StoreFails
<1> QED BY <1>1, AroundAlone, EndsTracking DEF AInv

LEMMA LoadTracks ==
  ASSUME DInv, AInv, NEW t \in Tasks, Load(t)
  PROVE  AInv'
<1>1. /\ record' = record /\ wire' = wire /\ pending' = pending /\ seed' = seed
      /\ Around' /\ tasks[t].pc = "load" /\ tasks[t].then \in {"recover", "sync"}
      /\ tasks[t].kind # "retire"
  BY AroundAlone, WhoIsWhere DEF Load, At, AInv
<1>2. PICK r : Loads(r) /\ tasks' = [tasks EXCEPT ![t].pc = tasks[t].then,
                                      ![t].then = "idle", ![t].rec = Mirrored(r)]
  BY DEF Load
<1>3. Moved(t) /\ tasks'[t].pc = tasks[t].then /\ tasks'[t].kind = tasks[t].kind
  BY <1>2 DEF DInv, Shapes, Moved, Idle
<1>4. Fits(tasks'[t]) BY <1>1, <1>3 DEF Fits
<1>5. Lost' => Lost BY <1>1, <1>2, StillOwes, LostBefore
<1>6. Answers(tasks[t]) => Answers(tasks'[t]) BY <1>1, <1>3 DEF Answers, Recovering
<1> QED BY <1>1, <1>3, <1>4, <1>5, <1>6, Tracks

LEMMA SyncTracks ==
  ASSUME DInv, AInv, NEW t \in Tasks, Sync(t)
  PROVE  AInv'
<1>1. record' = record /\ wire' = wire /\ seed' = seed /\ End(t) /\ book' = PushFailed(t)
  BY DEF Sync
<1>2. Around'
  <2> DEFINE e == Synced(Mine(t), tasks[t].id, tasks[t].rec)
  <2>1. Node(t) \in Nodes => EntryFits(e) BY SyncedFits DEF AInv, Around, Mine
  <2>2. pending' = [pending EXCEPT ![Node(t)] = e] BY DEF Sync, Mine
  <2> HIDE DEF e
  <2> QED BY <1>1, <2>1, <2>2, PendingStays DEF AInv
<1> QED BY <1>1, <1>2, EndsTracking

LEMMA RecoverTracks ==
  ASSUME DInv, AInv, NEW t \in Tasks, Recover(t)
  PROVE  AInv'
<1>1. /\ record' = record /\ wire' = wire /\ seed' = seed /\ book' = book
      /\ tasks[t].pc = "recover"
  BY DEF Recover, At
<1>2. Around'
  <2> DEFINE e == Recovered(Mine(t), tasks[t].rec)
  <2>1. Node(t) \in Nodes => EntryFits(e) BY RecoveredFits DEF AInv, Around, Mine
  <2>2. pending' = [pending EXCEPT ![Node(t)] = e] BY DEF Recover, Mine
  <2> HIDE DEF e
  <2> QED BY <1>1, <2>1, <2>2, PendingStays DEF AInv
<1>3. Moved(t) /\ tasks'[t].kind \notin {"push", "retire"}
  <2>1. CASE End(t) BY <2>1, EndMoves, IdleCoherent DEF DInv
  <2>2. CASE tasks[t].kind \in {"drain", "resume"} /\ \E label : GoOn(t, label)
    BY <2>2, GoOnMoves DEF DInv, Kept
  <2> QED BY <2>1, <2>2 DEF Recover
<1>4. ~Answers(tasks[t]) BY <1>1 DEF Answers, Recovering
<1>5. Lost' => Lost BY <1>1 DEF Lost
<1> QED BY <1>2, <1>3, <1>4, <1>5, Tracks DEF Fits

-----------------------------------------------------------------------------
(* The other steps                                                           *)

\* A goroutine that is no push goes on, starts a read, or ends.
LEMMA GoesApart ==
  ASSUME DInv, AInv, NEW t \in Tasks, NEW label,
         Goto(t, label) \/ GoOn(t, label) \/ LoadThen(t, label) \/ End(t),
         tasks[t].kind # "push", Around', Lost' => Lost
  PROVE  AInv'
<1>1. Moved(t) /\ (tasks'[t].kind = tasks[t].kind \/ tasks'[t] = Idle)
  BY GotoMoves, GoOnMoves, LoadThenMoves, EndMoves DEF DInv, Kept
<1>2. tasks'[t].kind \notin {"push", "retire"} BY <1>1, WhoIsWhere, IdleCoherent
<1> QED BY <1>1, <1>2, TracksApart

\* A goroutine of another kind starts.
LEMMA StartsApart ==
  ASSUME DInv, AInv, NEW t \in Tasks, At(t, "idle"), NEW r, DOMAIN r = DOMAIN Idle,
         tasks' = [tasks EXCEPT ![t] = r], r.kind \notin {"push", "retire"}, Around',
         Lost' => Lost
  PROVE  AInv'
<1>1. Moved(t) /\ tasks'[t] = r BY StartMoves DEF DInv
<1>2. tasks[t].kind # "push" BY WhoIsWhere DEF At
<1> QED BY <1>1, <1>2, TracksApart

LEMMA RetriesTrack ==
  ASSUME DInv, AInv, NEW t \in Tasks,
         Claim(t) \/ Bump(t) \/ Mark(t) \/ Recheck(t) \/ RetrySend(t) \/ Release(t)
  PROVE  AInv'
<1>1. seed' = seed /\ tasks[t].kind # "push"
  BY WhoIsWhere
  DEF Claim, Bump, Mark, Recheck, RetrySend, Release, At, Pushing
<1>2. CASE Claim(t)
  <2>1. pending' = pending /\ wire' = wire /\ book' = book BY <1>2 DEF Claim
  <2>2. record.stage # "none" => record'.stage # "none"
    BY <1>2 DEF Claim, DInv, Shapes, NoRecord
  <2>3. Around' /\ (Lost' => Lost)
    BY <1>1, <2>1, <2>2, AroundAlone, StillOwes, LostBefore DEF AInv
  <2>4. Moved(t) /\ tasks'[t].kind = tasks[t].kind
    BY <1>2 DEF Claim, DInv, Shapes, Moved, Idle
  <2> QED BY <1>1, <2>3, <2>4, WhoIsWhere, TracksApart
<1>3. CASE Bump(t)
  <2>1. record' = record /\ wire' = wire /\ book' = book BY <1>3 DEF Bump
  <2>2. Around'
    BY <1>1, <1>3 DEF Bump, AInv, Around, EntryFits, NoEntry
  <2>3. Lost' => Lost BY <1>1, <2>1, StillOwes, LostBefore
  <2> QED BY <1>1, <1>3, <2>2, <2>3, GoesApart DEF Bump
<1>4. CASE Mark(t)
  <2>1. pending' = pending /\ wire' = wire /\ Owes BY <1>4, StillOwes DEF Mark
  <2>2. record.stage # "none" => record'.stage # "none"
    BY <1>4 DEF Mark, DInv, Shapes, NoRecord
  <2>3. Around' /\ (Lost' => Lost) BY <1>1, <2>1, <2>2, AroundAlone, LostBefore DEF AInv
  <2>4. \E label : Goto(t, label) \/ LoadThen(t, label) \/ End(t) BY <1>4 DEF Mark, Unsent
  <2> QED BY <1>1, <2>3, <2>4, GoesApart
<1>5. CASE Recheck(t)
  <2>1. pending' = pending /\ wire' = wire /\ record' = record /\ Owes
    BY <1>5, StillOwes DEF Recheck
  <2>2. Around' /\ (Lost' => Lost) BY <1>1, <2>1, AroundAlone, LostBefore DEF AInv
  <2>3. \E label : Goto(t, label) BY <1>5 DEF Recheck
  <2> QED BY <1>1, <2>2, <2>3, GoesApart
<1>6. CASE RetrySend(t)
  <2>1. pending' = pending /\ record' = record BY <1>6 DEF RetrySend
  <2>2. wire.sent \subseteq wire'.sent /\ Owes
    BY <1>6, StillOwes DEF RetrySend, Sends, SendFails, DInv, Shapes
  <2>3. Around' /\ (Lost' => Lost) BY <1>1, <2>1, <2>2, AroundAlone, LostBefore DEF AInv
  <2>4. \E label : Goto(t, label) \/ LoadThen(t, label) \/ End(t)
    BY <1>6 DEF RetrySend
  <2> QED BY <1>1, <2>3, <2>4, GoesApart
<1>7. CASE Release(t)
  <2>1. pending' = pending /\ wire' = wire /\ book' = book BY <1>7 DEF Release
  <2>2. record.stage # "none" => record'.stage # "none"
    BY <1>7 DEF Release, DInv, Shapes, NoRecord
  <2>3. Around' /\ (Lost' => Lost)
    BY <1>1, <2>1, <2>2, AroundAlone, StillOwes, LostBefore DEF AInv
  <2>4. \E label : LoadThen(t, label) \/ End(t) BY <1>7 DEF Release, Unsent
  <2> QED BY <1>1, <2>3, <2>4, GoesApart
<1> QED BY <1>2, <1>3, <1>4, <1>5, <1>6, <1>7

LEMMA SettlementTracks ==
  ASSUME DInv, AInv, NEW t \in Tasks,
         Advance(t) \/ Received(t) \/ SweepCheck(t) \/ DrainDelete(t)
         \/ RetireCheck(t) \/ RetireDelete(t)
  PROVE  AInv'
<1>1. ~RetireCheck(t) /\ ~RetireDelete(t)
  BY WhoIsWhere DEF RetireCheck, RetireDelete, At
<1>2. seed' = seed /\ tasks[t].kind # "push"
  BY <1>1, WhoIsWhere DEF Advance, Received, SweepCheck, DrainDelete, At, Pushing
<1>3. CASE Advance(t)
  <2>1. pending' = pending /\ wire'.sent = wire.sent /\ Owes
    BY <1>3, StillOwes DEF Advance, DInv, Shapes
  <2>2. record.stage # "none" => record'.stage # "none"
    BY <1>3 DEF Advance, DInv, Shapes, NoRecord
  <2>3. Around' /\ (Lost' => Lost) BY <1>2, <2>1, <2>2, AroundAlone, LostBefore DEF AInv
  <2>4. Moved(t) /\ tasks'[t].kind = tasks[t].kind
    BY <1>3 DEF Advance, DInv, Shapes, Moved, Idle
  <2> QED BY <1>2, <2>3, <2>4, WhoIsWhere, TracksApart
<1>4. CASE Received(t)
  <2>1. record' = record /\ wire' = wire /\ Owes /\ End(t)
    BY <1>4, StillOwes DEF Received
  <2>2. Around' BY <1>2, <1>4 DEF Received, AInv, Around, EntryFits, NoEntry
  <2>3. Lost' => Lost BY <1>2, <2>1, LostBefore
  <2> QED BY <1>2, <2>1, <2>2, <2>3, GoesApart
<1>5. CASE SweepCheck(t)
  <2>1. record' = record /\ wire' = wire /\ pending' = pending /\ Owes
    BY <1>5, StillOwes DEF SweepCheck
  <2>2. Around' /\ (Lost' => Lost) BY <1>2, <2>1, AroundAlone, LostBefore DEF AInv
  <2>3. \E label : Goto(t, label) \/ End(t) BY <1>5 DEF SweepCheck
  <2> QED BY <1>2, <2>2, <2>3, GoesApart
<1>6. CASE DrainDelete(t)
  <2>1. wire' = wire /\ pending' = pending /\ End(t)
        /\ book' = [book EXCEPT !.erased = @ \/ record.stage # "none"]
    BY <1>6 DEF DrainDelete
  <2>2. Around' BY <1>2, <2>1, AroundAlone DEF AInv
  <2>3. /\ book'.owed = book.owed
        /\ book'.erased = (book.erased \/ record.stage # "none")
    BY <2>1 DEF DInv, Shapes, BookFields
  <2>4. Lost' => Lost BY <1>2, <2>1, <2>3 DEF Lost
  <2> QED BY <1>2, <2>1, <2>2, <2>4, GoesApart
<1> QED BY <1>1, <1>3, <1>4, <1>5, <1>6

LEMMA StartsTrack ==
  ASSUME DInv, AInv, NEW t \in Tasks, NEW n \in Nodes,
         \/ StartTimeout(t, n) \/ StartDrain(t, n) \/ StartAck(t, n)
         \/ StartRetire(t, n) \/ StartSweep(t, n)
  PROVE  AInv'
<1>1. /\ record' = record /\ wire' = wire /\ pending' = pending /\ seed' = seed /\ Owes
      /\ At(t, "idle")
  BY StillOwes DEF StartTimeout, StartDrain, StartAck, StartRetire, StartSweep
<1>2. Around' /\ (Lost' => Lost) BY <1>1, AroundAlone, LostBefore DEF AInv
<1>3. CASE StartTimeout(t, n)
  <2> DEFINE r == [Idle EXCEPT !.pc = "claim", !.kind = "timeout",
                               !.node = n, !.id = pending[n].id]
  <2>1. tasks' = [tasks EXCEPT ![t] = r] BY <1>3 DEF StartTimeout
  <2>2. DOMAIN r = DOMAIN Idle /\ r.kind = "timeout" BY DEF Idle
  <2> HIDE DEF r
  <2> QED BY <1>1, <1>2, <2>1, <2>2, StartsApart
<1>4. CASE StartDrain(t, n)
  <2> DEFINE drain(r) == [Idle EXCEPT !.kind = DrainKind(r), !.node = n]
  <2>1. PICK r \in {record, NoRecord} :
          \/ tasks' = [tasks EXCEPT ![t] = [drain(r) EXCEPT !.pc = "drainDelete"]]
          \/ tasks' = [tasks EXCEPT ![t] = [Resumed(drain(r), r) EXCEPT
                                              !.pc = "load", !.then = "recover"]]
          \/ tasks' = [tasks EXCEPT ![t] = [Resumed(drain(r), r) EXCEPT
                         !.pc = IF DrainKind(r) = "resume" THEN "mark" ELSE "claim"]]
    BY <1>4 DEF StartDrain
  <2>2. DOMAIN drain(r) = DOMAIN Idle /\ drain(r).kind \in {"drain", "hold", "resume"}
    BY DEF Idle, DrainKind
  <2>3. /\ DOMAIN Resumed(drain(r), r) = DOMAIN Idle
        /\ Resumed(drain(r), r).kind \in {"drain", "hold", "resume"}
    BY <2>2 DEF Resumed, Idle
  <2> HIDE DEF drain
  <2>4. ASSUME NEW d, tasks' = [tasks EXCEPT ![t] = d], DOMAIN d = DOMAIN Idle,
               d.kind \in {"drain", "hold", "resume"}
        PROVE  AInv'
    BY <1>1, <1>2, <2>4, StartsApart
  <2>5. CASE tasks' = [tasks EXCEPT ![t] = [drain(r) EXCEPT !.pc = "drainDelete"]]
    <3> DEFINE d == [drain(r) EXCEPT !.pc = "drainDelete"]
    <3>1. DOMAIN d = DOMAIN Idle /\ d.kind \in {"drain", "hold", "resume"} BY <2>2 DEF Idle
    <3> HIDE DEF d
    <3> QED BY <2>4, <2>5, <3>1 DEF d
  <2>6. ASSUME NEW pc, NEW then,
               tasks' = [tasks EXCEPT ![t] =
                           [Resumed(drain(r), r) EXCEPT !.pc = pc, !.then = then]]
        PROVE  AInv'
    <3> DEFINE d == [Resumed(drain(r), r) EXCEPT !.pc = pc, !.then = then]
    <3>1. DOMAIN d = DOMAIN Idle /\ d.kind \in {"drain", "hold", "resume"} BY <2>3 DEF Idle
    <3>2. tasks' = [tasks EXCEPT ![t] = d] BY <2>6
    <3> HIDE DEF d
    <3> QED BY <2>4, <3>1, <3>2
  <2>7. ASSUME NEW pc, tasks' = [tasks EXCEPT ![t] = [Resumed(drain(r), r) EXCEPT !.pc = pc]]
        PROVE  AInv'
    <3> DEFINE d == [Resumed(drain(r), r) EXCEPT !.pc = pc]
    <3>1. DOMAIN d = DOMAIN Idle /\ d.kind \in {"drain", "hold", "resume"} BY <2>3 DEF Idle
    <3>2. tasks' = [tasks EXCEPT ![t] = d] BY <2>7
    <3> HIDE DEF d
    <3> QED BY <2>4, <3>1, <3>2
  <2> QED BY <2>1, <2>5, <2>6, <2>7
<1>5. CASE StartAck(t, n)
  <2> DEFINE r == [Idle EXCEPT !.pc = "advance", !.kind = "ack",
                               !.node = n, !.id = pending[n].id]
  <2>1. tasks' = [tasks EXCEPT ![t] = r] BY <1>5 DEF StartAck
  <2>2. DOMAIN r = DOMAIN Idle /\ r.kind = "ack" BY DEF Idle
  <2> HIDE DEF r
  <2> QED BY <1>1, <1>2, <2>1, <2>2, StartsApart
<1>6. CASE StartRetire(t, n)
  <2>1. pending[n].expired = FALSE BY DEF AInv, Around, EntryFits
  <2> QED BY <1>6, <2>1 DEF StartRetire
<1>7. CASE StartSweep(t, n)
  <2> DEFINE r == [Idle EXCEPT !.pc = "sweepCheck", !.kind = "sweep",
                               !.node = n, !.gen = seed.gen]
  <2>1. tasks' = [tasks EXCEPT ![t] = r] BY <1>7 DEF StartSweep
  <2>2. DOMAIN r = DOMAIN Idle /\ r.kind = "sweep" BY DEF Idle
  <2> HIDE DEF r
  <2> QED BY <1>1, <1>2, <2>1, <2>2, StartsApart
<1> QED BY <1>3, <1>4, <1>5, <1>6, <1>7

LEMMA StartForwardedTracks ==
  ASSUME DInv, AInv, NEW t \in Tasks, NEW env \in envelopes, StartForwarded(t, env)
  PROVE  AInv'
<1> DEFINE r == [Idle EXCEPT !.pc = "mark", !.kind = "forwarded",
                   !.node = env.node, !.life = env.life, !.attempt = env.attempt]
<1>1. tasks' = [tasks EXCEPT ![t] = r] BY DEF StartForwarded
<1>2. DOMAIN r = DOMAIN Idle /\ r.kind = "forwarded" BY DEF Idle
<1> HIDE DEF r
<1>3. /\ record' = record /\ wire' = wire /\ pending' = pending /\ seed' = seed /\ Owes
      /\ At(t, "idle")
  BY StillOwes DEF StartForwarded
<1>4. Around' /\ (Lost' => Lost) BY <1>3, AroundAlone, LostBefore DEF AInv
<1> QED BY <1>1, <1>2, <1>3, <1>4, StartsApart

\* A push whose node dies is owed again.
LEMMA CrashTracks ==
  ASSUME DInv, AInv, NEW n \in Nodes, Crash(n)
  PROVE  AInv'
<1>1. /\ record' = record /\ wire' = wire /\ seed' = seed
      /\ \A t \in Tasks : tasks'[t] = IF Node(t) = n THEN Idle ELSE tasks[t]
  BY DEF Crash
<1>2. Around'
  <2>1. pending' = [pending EXCEPT ![n] = NoEntry] BY DEF Crash
  <2> QED BY <1>1, <2>1, NoEntryFits, PendingStays DEF AInv
<1>3. \A t \in Tasks : Fits(tasks'[t])
  <2>1. Fits(Idle) BY IdleCoherent DEF Fits
  <2> QED BY <1>1, <2>1 DEF AInv
<1>4. ASSUME Lost' PROVE \E t \in Tasks : Answers(tasks'[t])
  <2>1. /\ book'.owed = (book.owed \/ \E t \in {s \in Tasks : Node(s) = n} :
                                       tasks[t].kind = "push")
        /\ book'.erased = book.erased
    BY DEF Crash, DInv, Shapes, BookFields
  <2>2. Lost /\ \A t \in Tasks : Node(t) = n => tasks[t].kind # "push"
    BY <1>1, <1>4, <2>1 DEF Lost
  <2>3. PICK t \in Tasks : Answers(tasks[t]) BY <2>2 DEF AInv
  <2>4. tasks'[t] = tasks[t] BY <1>1, <2>2, <2>3 DEF Answers
  <2> QED BY <2>3, <2>4
<1> QED BY <1>2, <1>3, <1>4 DEF AInv

LEMMA EnvironmentTracks ==
  ASSUME DInv, AInv, ~MayExpire,
         \/ Close \/ SeedAges \/ LeaseExpires \/ UNCHANGED vars
         \/ \E n \in Nodes : Freeze(n) \/ Expire(n) \/ Reconnect(n)
  PROVE  AInv'
<1>1. tasks' = tasks /\ wire' = wire
  BY DEF Close, SeedAges, LeaseExpires, vars, Freeze, Expire, Reconnect
<1>2. ~SeedAges /\ \A n \in Nodes : ~Expire(n) BY DEF SeedAges, Expire
<1>3. CASE \E n \in Nodes : Freeze(n)
  <2> PICK n \in Nodes : Freeze(n) BY <1>3
  <2>1. seed'.status = "frozen" /\ DOMAIN seed' = {"status", "gen", "old"}
        /\ pending' = [pending EXCEPT ![n] = NoEntry]
    BY DEF Freeze, AInv, Around
  <2>2. Around' BY <2>1, NoEntryFits DEF AInv, Around
  <2> QED BY <1>1, <2>1, <2>2 DEF AInv, Lost
<1>4. CASE Close \/ LeaseExpires \/ UNCHANGED vars \/ \E n \in Nodes : Reconnect(n)
  <2>1. pending' = pending /\ seed' = seed
    BY <1>4 DEF Close, LeaseExpires, vars, Reconnect
  <2>2. Owes
    BY <1>4 DEF Close, LeaseExpires, vars, Reconnect, Fault, Owes, DInv, Shapes, BookFields
  <2>3. record.stage # "none" => record'.stage # "none"
    BY <1>4 DEF Close, LeaseExpires, vars, Reconnect, DInv, Shapes, NoRecord
  <2>4. Around' /\ (Lost' => Lost) BY <1>1, <2>1, <2>2, <2>3, AroundAlone, LostBefore DEF AInv
  <2> QED BY <1>1, <2>4 DEF AInv
<1> QED BY <1>2, <1>3, <1>4

LEMMA AInvStep ==
  ASSUME DInv, AInv, SharedToken, ~MayExpire, [Next]_vars
  PROVE  AInv'
<1>1. CASE \E t \in Tasks : TaskStep(t) \/ StoreFails(t)
  <2> PICK t \in Tasks : TaskStep(t) \/ StoreFails(t) BY <1>1
  <2>1. CASE Seed(t) \/ Adopt(t) \/ Create(t) \/ Track(t) \/ Send(t) \/ Rollback(t)
             \/ RollbackDelete(t) \/ RollbackDrop(t) \/ DeleteSeed(t) \/ Unindex(t)
    BY <2>1, SeedTracks, AdoptTracks, CreateTracks, TrackTracks, SendTracks,
       RollbackTracks, RollbackDeleteTracks, RollbackDropTracks, DeleteSeedTracks,
       UnindexTracks
  <2>2. CASE Load(t) \/ Sync(t) \/ Recover(t) \/ StoreFails(t)
    BY <2>2, LoadTracks, SyncTracks, RecoverTracks, StoreFailsTracks
  <2>3. CASE Claim(t) \/ Bump(t) \/ Mark(t) \/ Recheck(t) \/ RetrySend(t) \/ Release(t)
    BY <2>3, RetriesTrack
  <2>4. CASE Advance(t) \/ Received(t) \/ SweepCheck(t) \/ DrainDelete(t)
             \/ RetireCheck(t) \/ RetireDelete(t)
    BY <2>4, SettlementTracks
  <2> QED BY <2>1, <2>2, <2>3, <2>4 DEF TaskStep
<1>2. CASE \E t \in Tasks, n \in Nodes :
             \/ StartPush(t, n) \/ StartTimeout(t, n) \/ StartDrain(t, n) \/ StartAck(t, n)
             \/ StartRetire(t, n) \/ StartSweep(t, n)
  BY <1>2, StartPushTracks, StartsTrack
<1>3. CASE \E t \in Tasks, env \in envelopes : StartForwarded(t, env)
  BY <1>3, StartForwardedTracks
<1>4. CASE \E n \in Nodes : Crash(n) BY <1>4, CrashTracks
<1>5. CASE \/ Close \/ SeedAges \/ LeaseExpires \/ UNCHANGED vars
           \/ \E n \in Nodes : Freeze(n) \/ Expire(n) \/ Reconnect(n)
  BY <1>5, EnvironmentTracks
<1> QED BY <1>1, <1>2, <1>3, <1>4, <1>5 DEF Next

LEMMA AInvInit == ASSUME Init PROVE AInv
<1>1. Around BY NoEntryFits DEF Init, Around
<1>2. \A t \in Tasks : tasks[t] = Idle BY DEF Init
<1>3. \A t \in Tasks : Fits(tasks[t]) BY <1>2, IdleCoherent DEF Fits
<1>4. book.owed BY DEF Init
<1> QED BY <1>1, <1>3, <1>4 DEF AInv, Lost

\* Within tracking retention, and while dispatches carry one commit token, an event that
\* its callers have let go of was sent, is recorded or settled, or a push still has it;
\* but for a record that a drain took for missing.
THEOREM AcceptedStaysTracked ==
  ASSUME SharedToken, ~MayExpire
  PROVE  Spec => []AcceptedIsTracked
<1>1. Init => AInv BY AInvInit
<1>2. DInv /\ AInv /\ [Next]_vars => AInv' BY AInvStep
<1>3. AInv => AcceptedIsTracked
  <2> SUFFICES ASSUME AInv PROVE AcceptedIsTracked OBVIOUS
  <2>1. (\E t \in Tasks : Answers(tasks[t])) => \E t \in Tasks : tasks[t].kind = "push"
    BY DEF Answers
  <2> QED BY <2>1 DEF AInv, Lost, AcceptedIsTracked, Delivered
<1> QED BY <1>1, <1>2, <1>3, InvariantHolds, PTL DEF Spec

-----------------------------------------------------------------------------
(* A generation is that of one record                                        *)

\* Records of this generation and life are, or were, known somewhere.
Pair(g, l) ==
  \/ g = 0 /\ l = 0
  \/ g = record.gen /\ l = record.life
  \/ \E n \in Nodes : g = pending[n].gen /\ l = pending[n].life
  \/ \E t \in Tasks :
       \/ g = tasks[t].exp.gen /\ l = tasks[t].exp.life
       \/ g = tasks[t].rec.gen /\ l = tasks[t].rec.life
       \/ tasks[t].pc = "track" /\ g = tasks[t].gen /\ l = tasks[t].life

EntryShape(e) == DOMAIN e = DOMAIN NoEntry
PendingShape == DOMAIN pending = Nodes /\ \A n \in Nodes : EntryShape(pending[n])

\* The generation of a goroutine that is about to create its record is new.
GInv ==
  /\ PendingShape /\ book.gens \in Nat
  /\ \A t \in Tasks : tasks[t].kind = "push" => tasks[t].node \in Nodes
  /\ \A t \in Tasks : DOMAIN tasks[t].rec = DOMAIN NoRecord /\ tasks[t].pc # "adopt"
  /\ \A g, l : Pair(g, l) => g \in Nat /\ g <= book.gens
  /\ \A g, l, m : Pair(g, l) /\ Pair(g, m) => l = m
  /\ \A t \in Tasks : tasks[t].pc = "create" =>
       /\ tasks[t].gen \in 1 .. book.gens
       /\ \A g, l : Pair(g, l) => g # tasks[t].gen
       /\ \A s \in Tasks : tasks[s].pc = "create" /\ tasks[s].gen = tasks[t].gen => s = t

GensStay == DOMAIN book' = BookFields /\ book'.gens = book.gens

\* What the step of a goroutine takes up was known.
Learns(t) ==
  /\ DOMAIN tasks'[t].rec = DOMAIN NoRecord
  /\ Pair(tasks'[t].exp.gen, tasks'[t].exp.life)
  /\ Pair(tasks'[t].rec.gen, tasks'[t].rec.life)
  /\ tasks'[t].pc \notin {"adopt", "create"}
  /\ tasks'[t].pc = "track" => Pair(tasks'[t].gen, tasks'[t].life)
  /\ tasks'[t].kind = "push" => tasks'[t].node \in Nodes

PendingKnown ==
  /\ PendingShape'
  /\ \A n \in Nodes : Pair(pending'[n].gen, pending'[n].life)

LEMMA NothingNew ==
  ASSUME GInv, GensStay, \A g, l : Pair(g, l)' => Pair(g, l), PendingShape',
         \A t \in Tasks : tasks'[t].kind = "push" => tasks'[t].node \in Nodes,
         \A t \in Tasks : DOMAIN tasks'[t].rec = DOMAIN NoRecord /\ tasks'[t].pc # "adopt",
         \A t \in Tasks : tasks'[t].pc = "create" =>
           tasks[t].pc = "create" /\ tasks'[t].gen = tasks[t].gen
  PROVE  GInv'
BY DEF GInv, GensStay

LEMMA LearnsKnown ==
  ASSUME GInv, NEW t \in Tasks, Moved(t), Learns(t), PendingKnown, GensStay,
         Pair(record'.gen, record'.life)
  PROVE  GInv'
<1>1. \A g, l : Pair(g, l)' => Pair(g, l)
  <2> SUFFICES ASSUME NEW g, NEW l, Pair(g, l)' PROVE Pair(g, l) OBVIOUS
  <2>1. CASE g = 0 /\ l = 0 BY <2>1 DEF Pair
  <2>2. CASE g = record'.gen /\ l = record'.life BY <2>2
  <2>3. CASE \E n \in Nodes : g = pending'[n].gen /\ l = pending'[n].life
    BY <2>3 DEF PendingKnown
  <2>4. ASSUME NEW s \in Tasks,
               \/ g = tasks'[s].exp.gen /\ l = tasks'[s].exp.life
               \/ g = tasks'[s].rec.gen /\ l = tasks'[s].rec.life
               \/ tasks'[s].pc = "track" /\ g = tasks'[s].gen /\ l = tasks'[s].life
        PROVE  Pair(g, l)
    <3>1. CASE s = t BY <2>4, <3>1 DEF Learns
    <3>2. CASE s # t
      <4>1. tasks'[s] = tasks[s] BY <3>2 DEF Moved
      <4> QED BY <2>4, <4>1 DEF Pair
    <3> QED BY <3>1, <3>2
  <2> QED BY <2>1, <2>2, <2>3, <2>4 DEF Pair
<1>2. \A s \in Tasks : tasks'[s].kind = "push" => tasks'[s].node \in Nodes
  BY DEF GInv, Moved, Learns
<1>3. \A s \in Tasks : DOMAIN tasks'[s].rec = DOMAIN NoRecord /\ tasks'[s].pc # "adopt"
  BY DEF GInv, Moved, Learns
<1>4. \A s \in Tasks : tasks'[s].pc = "create" =>
        tasks[s].pc = "create" /\ tasks'[s].gen = tasks[s].gen
  BY DEF Moved, Learns
<1> QED BY <1>1, <1>2, <1>3, <1>4, NothingNew DEF PendingKnown

\* Who is at a place that only pushes reach.
LEMMA WhoPushes ==
  ASSUME DInv, NEW t \in Tasks
  PROVE  tasks[t].pc \in Pushing => tasks[t].kind = "push"
BY MineIs DEF Coherent

LEMMA GensKept ==
  ASSUME DInv, NEW t \in Tasks, NEW r,
         UNCHANGED book \/ Fault \/ CallFails(t) \/ book' = PushFailed(t) \/ Loads(r)
  PROVE  GensStay
BY DEF DInv, Shapes, BookFields, GensStay, Fault, CallFails, PushFailed, Loads

LEMMA NothingPairs ==
  /\ Pair(0, 0) /\ NoEntry.gen = 0 /\ NoEntry.life = 0 /\ EntryShape(NoEntry)
  /\ NoRecord.gen = 0 /\ NoRecord.life = 0
  /\ Idle.exp = NoEntry /\ Idle.rec = NoRecord /\ Idle.pc = "idle" /\ Idle.kind = "none"
BY DEF Pair, NoEntry, NoRecord, Idle, EntryShape

LEMMA PendingPut ==
  ASSUME GInv, NEW n, NEW e, n \in Nodes => EntryShape(e) /\ Pair(e.gen, e.life),
         pending' = pending \/ pending' = [pending EXCEPT ![n] = e]
  PROVE  PendingKnown
<1>1. \A m \in Nodes : Pair(pending[m].gen, pending[m].life) BY DEF Pair
<1>2. DOMAIN pending' = Nodes BY DEF GInv, PendingShape
<1>3. \A m \in Nodes : pending'[m] = pending[m] \/ (m = n /\ pending'[m] = e)
  BY DEF GInv, PendingShape
<1> QED BY <1>1, <1>2, <1>3 DEF GInv, PendingShape, PendingKnown

LEMMA RecordPairs ==
  ASSUME \/ record' = record \/ record' = NoRecord
         \/ record'.gen = record.gen /\ record'.life = record.life
  PROVE  Pair(record'.gen, record'.life)
BY NothingPairs DEF Pair

\* What a goroutine keeps or gives up is known.
LEMMA LearnsNothing ==
  ASSUME DInv, GInv, NEW t \in Tasks, NEW label,
         \/ Goto(t, label) \/ GoOn(t, label) \/ LoadThen(t, label) \/ End(t),
         label \notin {"adopt", "create", "track"}
  PROVE  Moved(t) /\ Learns(t)
<1>1. Pair(tasks[t].exp.gen, tasks[t].exp.life) /\ Pair(tasks[t].rec.gen, tasks[t].rec.life)
  BY DEF Pair
<1>2. DOMAIN tasks = Tasks /\ DOMAIN tasks[t] = DOMAIN Idle BY DEF DInv, Shapes
<1>3. CASE Goto(t, label) \/ GoOn(t, label)
  <2>1. /\ Moved(t) /\ tasks'[t].pc = label /\ tasks'[t].exp = tasks[t].exp
        /\ tasks'[t].rec \in {tasks[t].rec, NoRecord}
        /\ tasks'[t].kind = tasks[t].kind /\ tasks'[t].node = tasks[t].node
    BY <1>2, <1>3 DEF Goto, GoOn, Moved, Idle
  <2> QED BY <1>1, <2>1, NothingPairs DEF Learns, GInv
<1>4. CASE LoadThen(t, label)
  <2>1. /\ Moved(t) /\ tasks'[t].pc = "load" /\ tasks'[t].exp = NoEntry
        /\ tasks'[t].rec = NoRecord
        /\ tasks'[t].kind = tasks[t].kind /\ tasks'[t].node = tasks[t].node
    BY <1>2, <1>4 DEF LoadThen, Moved, Idle
  <2> QED BY <2>1, NothingPairs DEF Learns, GInv
<1>5. CASE End(t)
  <2>1. Moved(t) /\ tasks'[t] = Idle BY <1>5, EndMoves DEF DInv
  <2> QED BY <2>1, NothingPairs DEF Learns
<1> QED BY <1>3, <1>4, <1>5

\* The step of a goroutine that learns nothing and changes at most one entry.
LEMMA Forgets ==
  ASSUME DInv, GInv, NEW t \in Tasks, NEW label,
         \/ Goto(t, label) \/ GoOn(t, label) \/ LoadThen(t, label) \/ End(t),
         label \notin {"adopt", "create", "track"}, GensStay, PendingKnown,
         Pair(record'.gen, record'.life)
  PROVE  GInv'
BY LearnsNothing, LearnsKnown

\* The goroutine that starts, and may take an entry in hand.
LEMMA StartsKnowing ==
  ASSUME DInv, GInv, NEW t \in Tasks, NEW d, DOMAIN d = DOMAIN Idle,
         tasks' = [tasks EXCEPT ![t] = d], d.pc \notin {"adopt", "create", "track"},
         d.rec = NoRecord, Pair(d.exp.gen, d.exp.life),
         d.kind = "push" => d.node \in Nodes,
         GensStay, pending' = pending, record' = record
  PROVE  GInv'
<1>1. Moved(t) /\ tasks'[t] = d BY StartMoves DEF DInv
<1>2. Learns(t) BY <1>1, NothingPairs DEF Learns
<1>3. PendingKnown BY DEF PendingKnown, GInv, PendingShape, Pair
<1> QED BY <1>1, <1>2, <1>3, RecordPairs, LearnsKnown

LEMMA PendingAlone == ASSUME GInv, pending' = pending PROVE PendingKnown
BY DEF PendingKnown, GInv, PendingShape, Pair

-----------------------------------------------------------------------------
LEMMA SeedNew ==
  ASSUME DInv, GInv, ~SharedToken, NEW t \in Tasks, Seed(t)
  PROVE  GInv'
<1>1. record' = record /\ pending' = pending /\ tasks[t].pc = "seed" /\ tasks[t].kind = "push"
  BY WhoPushes DEF Seed, At, Pushing
<1>2. CASE End(t) /\ UNCHANGED book
  BY <1>1, <1>2, GensKept, PendingAlone, RecordPairs, Forgets
<1>3. CASE /\ book' = [book EXCEPT !.gens = @ + 1]
           /\ tasks' = [tasks EXCEPT ![t].pc = "create", ![t].gen = book.gens + 1,
                                     ![t].created = TRUE]
  <2>1. book.gens \in Nat /\ book'.gens = book.gens + 1
    BY <1>3 DEF DInv, Shapes, BookFields, GInv
  <2>2. /\ Moved(t) /\ tasks'[t].pc = "create" /\ tasks'[t].gen = book.gens + 1
        /\ tasks'[t].exp = tasks[t].exp /\ tasks'[t].rec = tasks[t].rec
        /\ tasks'[t].kind = tasks[t].kind /\ tasks'[t].node = tasks[t].node
    BY <1>3 DEF DInv, Shapes, Moved, Idle
  <2>3. \A g, l : Pair(g, l)' => Pair(g, l)
    <3>1. \A s \in Tasks : /\ tasks'[s].exp = tasks[s].exp /\ tasks'[s].rec = tasks[s].rec
                           /\ tasks'[s].pc = "track" => tasks'[s] = tasks[s]
      BY <2>2 DEF Moved
    <3> QED BY <1>1, <3>1 DEF Pair
  <2>4. \A g, l : Pair(g, l) => g # book.gens + 1 BY <2>1 DEF GInv
  <2>5. \A s \in Tasks : s # t => tasks'[s] = tasks[s] BY <2>2 DEF Moved
  <2>6. PendingShape' BY <1>1 DEF GInv, PendingShape
  <2>7. \A s \in Tasks : /\ tasks'[s].kind = "push" => tasks'[s].node \in Nodes
                         /\ DOMAIN tasks'[s].rec = DOMAIN NoRecord /\ tasks'[s].pc # "adopt"
    BY <2>2, <2>5 DEF GInv
  <2>8. \A g, l : Pair(g, l)' => g \in Nat /\ g <= book'.gens
    BY <2>1, <2>3 DEF GInv
  <2>9. \A s \in Tasks : tasks'[s].pc = "create" =>
          /\ tasks'[s].gen \in 1 .. book'.gens
          /\ \A g, l : Pair(g, l)' => g # tasks'[s].gen
          /\ \A q \in Tasks : tasks'[q].pc = "create" /\ tasks'[q].gen = tasks'[s].gen => q = s
    <3>1. \A s \in Tasks : s # t /\ tasks'[s].pc = "create" =>
            tasks'[s].gen = tasks[s].gen /\ tasks[s].gen \in 1 .. book.gens
      BY <2>5 DEF GInv
    <3>2. \A s \in Tasks : tasks'[s].pc = "create" => tasks'[s].gen \in 1 .. book'.gens
      BY <2>1, <2>2, <3>1
    <3>3. \A s \in Tasks : s # t /\ tasks'[s].pc = "create" =>
            tasks[s].pc = "create" /\ tasks'[s].gen # book.gens + 1
      BY <2>1, <2>5, <3>1
    <3>5. \A s \in Tasks : tasks'[s].pc = "create" =>
            \A g, l : Pair(g, l)' => g # tasks'[s].gen
      BY <2>2, <2>3, <2>4, <2>5 DEF GInv
    <3>6. \A s, q \in Tasks :
            tasks'[s].pc = "create" /\ tasks'[q].pc = "create" /\ tasks'[q].gen = tasks'[s].gen
              => q = s
      <4>1. ASSUME NEW s \in Tasks, NEW q \in Tasks, tasks'[s].pc = "create",
                   tasks'[q].pc = "create", tasks'[q].gen = tasks'[s].gen
            PROVE  q = s
        <5>1. CASE s = t \/ q = t BY <2>2, <3>3, <4>1, <5>1
        <5>2. CASE s # t /\ q # t
          <6>1. tasks'[s] = tasks[s] /\ tasks'[q] = tasks[q] BY <2>5, <5>2
          <6> QED BY <4>1, <6>1 DEF GInv
        <5> QED BY <5>1, <5>2
      <4> QED BY <4>1
    <3> QED BY <3>2, <3>5, <3>6
  <2> QED BY <2>1, <2>3, <2>6, <2>7, <2>8, <2>9 DEF GInv
<1> QED BY <1>2, <1>3 DEF Seed

LEMMA CreateNew ==
  ASSUME DInv, GInv, NEW t \in Tasks, Create(t)
  PROVE  GInv'
<1>1. pending' = pending /\ tasks[t].pc = "create" /\ PendingKnown
  BY PendingAlone DEF Create, At
<1>2. CASE /\ record' = [NoRecord EXCEPT !.stage = "ack", !.version = 1, !.attempt = 1,
                                        !.gen = tasks[t].gen, !.life = book.lives + 1]
           /\ book' = [book EXCEPT !.lives = @ + 1]
           /\ tasks' = [tasks EXCEPT ![t].pc = "track", ![t].life = book.lives + 1]
  <2> DEFINE new == tasks[t].gen
             life == book.lives + 1
  <2>1. GensStay BY <1>2 DEF DInv, Shapes, BookFields, GensStay
  <2>2. record'.gen = new /\ record'.life = life BY <1>2 DEF NoRecord
  <2>3. /\ Moved(t) /\ tasks'[t].pc = "track" /\ tasks'[t].gen = new /\ tasks'[t].life = life
        /\ tasks'[t].exp = tasks[t].exp /\ tasks'[t].rec = tasks[t].rec
        /\ tasks'[t].kind = tasks[t].kind /\ tasks'[t].node = tasks[t].node
    BY <1>2 DEF DInv, Shapes, Moved, Idle
  <2>4. \A s \in Tasks : s # t => tasks'[s] = tasks[s] BY <2>3 DEF Moved
  <2>5. \A g, l : Pair(g, l)' => Pair(g, l) \/ (g = new /\ l = life)
    <3> HIDE DEF new, life
    <3>1. \A s \in Tasks : tasks'[s].exp = tasks[s].exp /\ tasks'[s].rec = tasks[s].rec
      BY <2>3, <2>4
    <3>2. \A s \in Tasks : tasks'[s].pc = "track" => s = t \/ tasks'[s] = tasks[s]
      BY <2>4
    <3> QED BY <1>1, <2>2, <2>3, <3>1, <3>2 DEF Pair
  <2>6. new \in 1 .. book.gens /\ \A g, l : Pair(g, l) => g # new BY <1>1 DEF GInv
  <2>7. \A s \in Tasks : s # t /\ tasks[s].pc = "create" => tasks[s].gen # new
    BY <1>1 DEF GInv
  <2> HIDE DEF new, life
  <2>8. PendingShape' /\ book'.gens = book.gens /\ book.gens \in Nat
    BY <1>1, <2>1 DEF PendingKnown, GensStay, GInv
  <2>9. \A s \in Tasks : /\ tasks'[s].kind = "push" => tasks'[s].node \in Nodes
                         /\ DOMAIN tasks'[s].rec = DOMAIN NoRecord /\ tasks'[s].pc # "adopt"
    BY <2>3, <2>4 DEF GInv
  <2>10. \A g, l : Pair(g, l)' => g \in Nat /\ g <= book'.gens
    BY <2>5, <2>6, <2>8 DEF GInv
  <2>11. \A g, l, m : Pair(g, l)' /\ Pair(g, m)' => l = m
    BY <2>5, <2>6 DEF GInv
  <2>12. \A s \in Tasks : tasks'[s].pc = "create" =>
           /\ s # t /\ tasks'[s] = tasks[s] /\ tasks[s].pc = "create" /\ tasks[s].gen # new
    BY <2>3, <2>4, <2>7
  <2>13. \A s \in Tasks : tasks'[s].pc = "create" =>
           /\ tasks'[s].gen \in 1 .. book'.gens
           /\ \A g, l : Pair(g, l)' => g # tasks'[s].gen
           /\ \A q \in Tasks : tasks'[q].pc = "create" /\ tasks'[q].gen = tasks'[s].gen => q = s
    BY <2>5, <2>8, <2>12 DEF GInv
  <2> QED BY <2>8, <2>9, <2>10, <2>11, <2>13 DEF GInv
<1>3. CASE LoadThen(t, "recover") /\ UNCHANGED <<record, index, book>>
  BY <1>1, <1>3, GensKept, RecordPairs, Forgets
<1>4. CASE /\ CallFails(t)
           /\ IF tasks[t].created THEN Goto(t, "deleteSeed") ELSE End(t)
           /\ UNCHANGED <<seed, record, index>>
  BY <1>1, <1>4, GensKept, RecordPairs, Forgets
<1> QED BY <1>2, <1>3, <1>4 DEF Create

LEMMA TrackKnows ==
  ASSUME DInv, GInv, NEW t \in Tasks, Track(t)
  PROVE  GInv'
<1> DEFINE e == [id |-> FreshId, stage |-> "ack", version |-> 1, attempt |-> 1,
                 gen |-> tasks[t].gen, life |-> tasks[t].life,
                 created |-> tasks[t].created, expired |-> FALSE]
<1>1. tasks[t].pc = "track" /\ record' = record /\ book' = book
      /\ pending' = [pending EXCEPT ![Node(t)] = e]
  BY DEF Track, At
<1>2. EntryShape(e) /\ e.gen = tasks[t].gen /\ e.life = tasks[t].life
  BY DEF EntryShape, NoEntry
<1> HIDE DEF e
<1>3. Pair(e.gen, e.life) BY <1>1, <1>2 DEF Pair
<1>4. PendingKnown BY <1>1, <1>2, <1>3, PendingPut
<1>5. /\ Moved(t) /\ tasks'[t].pc = "send"
      /\ tasks'[t].exp = tasks[t].exp /\ tasks'[t].rec = tasks[t].rec
      /\ tasks'[t].kind = tasks[t].kind /\ tasks'[t].node = tasks[t].node
  BY DEF Track, DInv, Shapes, Moved, Idle
<1>6. Learns(t) BY <1>5 DEF Learns, Pair, GInv
<1> QED BY <1>1, <1>4, <1>5, <1>6, GensKept, RecordPairs, LearnsKnown

LEMMA RollbackKnows ==
  ASSUME DInv, GInv, NEW t \in Tasks, Rollback(t)
  PROVE  GInv'
<1>1. record' = record /\ PendingKnown /\ tasks[t].kind = "push"
  BY PendingAlone, WhoPushes DEF Rollback, At, Pushing
<1>2. GensStay BY GensKept DEF Rollback
<1>3. CASE End(t) BY <1>1, <1>2, <1>3, RecordPairs, Forgets
<1>4. CASE tasks' = [tasks EXCEPT ![t].pc = "rollbackDelete", ![t].id = Mine(t).id,
                                  ![t].exp = Mine(t)]
  <2>1. /\ Moved(t) /\ tasks'[t].pc = "rollbackDelete"
        /\ tasks'[t].exp = pending[Node(t)] /\ tasks'[t].rec = tasks[t].rec
        /\ tasks'[t].kind = tasks[t].kind /\ tasks'[t].node = tasks[t].node
    BY <1>4 DEF DInv, Shapes, Moved, Idle, Mine
  <2>2. Node(t) \in Nodes BY <1>1 DEF GInv, Node
  <2>3. Learns(t) BY <2>1, <2>2 DEF Learns, Pair, GInv
  <2> QED BY <1>1, <1>2, <2>1, <2>3, RecordPairs, LearnsKnown
<1> QED BY <1>3, <1>4 DEF Rollback

LEMMA UndoKnows ==
  ASSUME DInv, GInv, NEW t \in Tasks,
         \/ RollbackDelete(t) \/ Unindex(t) \/ RollbackDrop(t) \/ DeleteSeed(t)
         \/ RetireDelete(t) \/ DrainDelete(t) \/ StoreFails(t) \/ SweepCheck(t)
         \/ RetireCheck(t) \/ Send(t)
  PROVE  GInv'
<1>1. Pair(record'.gen, record'.life)
  <2>1. record' = record \/ record' = NoRecord
    BY DEF RollbackDelete, Unindex, RollbackDrop, DeleteSeed, RetireDelete, DrainDelete,
           StoreFails, SweepCheck, RetireCheck, Send
  <2> QED BY <2>1, RecordPairs
<1>2. PendingKnown
  <2>1. pending' = pending \/ pending' = [pending EXCEPT ![Node(t)] = NoEntry]
    BY DEF RollbackDelete, Unindex, RollbackDrop, DeleteSeed, RetireDelete, DrainDelete,
           StoreFails, SweepCheck, RetireCheck, Send
  <2> QED BY <2>1, NothingPairs, PendingPut
<1>3. GensStay
  <2>1. CASE DrainDelete(t) BY <2>1 DEF DrainDelete, DInv, Shapes, BookFields, GensStay
  <2>2. CASE ~DrainDelete(t)
    <3>1. UNCHANGED book \/ Fault \/ CallFails(t) \/ book' = PushFailed(t)
      BY <2>2
      DEF RollbackDelete, Unindex, RollbackDrop, DeleteSeed, RetireDelete, StoreFails,
          SweepCheck, RetireCheck, Send, Sends, SendFails
    <3> QED BY <3>1, GensKept
  <2> QED BY <2>1, <2>2
<1>4. CASE tasks' = [tasks EXCEPT ![t].pc = "deleteSeed", ![t].gen = tasks[t].exp.gen]
           \/ tasks' = [tasks EXCEPT ![t].pc = "deleteSeed", ![t].gen = Mine(t).gen]
  <2>1. /\ Moved(t) /\ tasks'[t].pc = "deleteSeed"
        /\ tasks'[t].exp = tasks[t].exp /\ tasks'[t].rec = tasks[t].rec
        /\ tasks'[t].kind = tasks[t].kind /\ tasks'[t].node = tasks[t].node
    BY <1>4 DEF DInv, Shapes, Moved, Idle
  <2>2. Learns(t) BY <2>1 DEF Learns, Pair, GInv
  <2> QED BY <1>1, <1>2, <1>3, <2>1, <2>2, LearnsKnown
<1>5. CASE tasks' = [tasks EXCEPT ![t] = [Idle EXCEPT !.pc = "rollback",
                                            !.kind = "push", !.node = Node(t)]] /\ Send(t)
  <2> DEFINE d == [Idle EXCEPT !.pc = "rollback", !.kind = "push", !.node = Node(t)]
  <2>1. tasks' = [tasks EXCEPT ![t] = d] BY <1>5
  <2>2. DOMAIN d = DOMAIN Idle /\ d.pc = "rollback" /\ d.exp = Idle.exp /\ d.rec = Idle.rec
        /\ d.node = Node(t)
    BY DEF Idle
  <2> HIDE DEF d
  <2>3. Node(t) \in Nodes
    BY <1>5, WhoPushes DEF Send, At, Pushing, GInv, Node
  <2>4. pending' = pending /\ record' = record BY <1>5 DEF Send
  <2>5. d.rec = NoRecord /\ Pair(d.exp.gen, d.exp.life) BY <2>2, NothingPairs
  <2>6. d.pc \notin {"adopt", "create", "track"} BY <2>2
  <2> QED BY <1>3, <2>1, <2>2, <2>3, <2>4, <2>5, <2>6, StartsKnowing
<1>6. CASE End(t) BY <1>1, <1>2, <1>3, <1>6, Forgets
<1>7. ASSUME NEW label \in {"unindex", "sync", "rollbackDrop", "recover", "retireDelete",
                            "deleteSeed"},
             Goto(t, label) \/ GoOn(t, label) \/ LoadThen(t, label)
      PROVE  GInv'
  BY <1>1, <1>2, <1>3, <1>7, Forgets
<1>8. CASE Send(t) BY <1>5, <1>6, <1>8 DEF Send
<1>9. CASE Unindex(t) \/ RollbackDrop(t) BY <1>4, <1>6, <1>7, <1>9 DEF Unindex, RollbackDrop
<1>10. CASE \/ RollbackDelete(t) \/ DeleteSeed(t) \/ RetireDelete(t) \/ DrainDelete(t)
            \/ StoreFails(t) \/ SweepCheck(t) \/ RetireCheck(t)
  BY <1>6, <1>7, <1>10
  DEF RollbackDelete, DeleteSeed, RetireDelete, DrainDelete, StoreFails, SweepCheck, RetireCheck
<1> QED BY <1>8, <1>9, <1>10

\* What a goroutine takes up from the record that it reads.
LEMMA LearnsRecord ==
  ASSUME DInv, GInv, NEW t \in Tasks, Moved(t), tasks'[t].exp = tasks[t].exp,
         DOMAIN tasks'[t].rec = DOMAIN NoRecord, Pair(tasks'[t].rec.gen, tasks'[t].rec.life),
         tasks'[t].kind = tasks[t].kind, tasks'[t].node = tasks[t].node,
         tasks'[t].pc \notin {"adopt", "create", "track"},
         GensStay, PendingKnown, Pair(record'.gen, record'.life)
  PROVE  GInv'
<1>1. Learns(t) BY DEF Learns, Pair, GInv
<1> QED BY <1>1, LearnsKnown

LEMMA ReadsKnow ==
  ASSUME DInv, GInv, NEW t \in Tasks, Load(t) \/ Claim(t) \/ Advance(t)
  PROVE  GInv'
<1>1. DOMAIN tasks = Tasks /\ DOMAIN tasks[t] = DOMAIN Idle /\ DOMAIN record = DOMAIN NoRecord
  BY DEF DInv, Shapes
<1>2. \A r : DOMAIN r = DOMAIN NoRecord =>
        /\ DOMAIN Mirrored(r) = DOMAIN NoRecord
        /\ Mirrored(r).gen = r.gen /\ Mirrored(r).life = r.life
  BY DEF Mirrored, NoRecord
<1>3. PendingKnown BY PendingAlone DEF Load, Claim, Advance
<1>4. CASE Load(t)
  <2>1. PICK r \in {record, NoRecord} :
          /\ Loads(r)
          /\ tasks' = [tasks EXCEPT ![t].pc = tasks[t].then, ![t].then = "idle",
                                    ![t].rec = Mirrored(r)]
    BY <1>4 DEF Load
  <2>2. tasks[t].then \in {"recover", "sync", "retireCheck"}
    BY <1>4, MineIs DEF Load, At, Coherent
  <2>3. /\ Moved(t) /\ tasks'[t].pc = tasks[t].then /\ tasks'[t].rec = Mirrored(r)
        /\ tasks'[t].exp = tasks[t].exp
        /\ tasks'[t].kind = tasks[t].kind /\ tasks'[t].node = tasks[t].node
    BY <1>1, <2>1 DEF Moved, Idle
  <2>4. DOMAIN Mirrored(r) = DOMAIN NoRecord /\ Pair(Mirrored(r).gen, Mirrored(r).life)
    BY <1>1, <1>2, NothingPairs DEF Pair
  <2>5. record' = record /\ GensStay BY <1>4, <2>1, GensKept DEF Load
  <2> QED BY <1>3, <2>2, <2>3, <2>4, <2>5, RecordPairs, LearnsRecord
<1>5. CASE Claim(t)
  <2>1. GensStay BY <1>5, GensKept DEF Claim
  <2>2. record' = record \/ (record'.gen = record.gen /\ record'.life = record.life)
    BY <1>1, <1>5 DEF Claim, NoRecord
  <2>3. /\ Moved(t) /\ tasks'[t].pc \in {"bump", "sync"}
        /\ tasks'[t].exp = tasks[t].exp
        /\ tasks'[t].rec \in {tasks[t].rec, Mirrored(record)}
        /\ tasks'[t].kind = tasks[t].kind /\ tasks'[t].node = tasks[t].node
    BY <1>1, <1>5 DEF Claim, Moved, Idle
  <2>4. DOMAIN Mirrored(record) = DOMAIN NoRecord
        /\ Pair(Mirrored(record).gen, Mirrored(record).life)
    BY <1>1, <1>2 DEF Pair
  <2>5. DOMAIN tasks[t].rec = DOMAIN NoRecord /\ Pair(tasks[t].rec.gen, tasks[t].rec.life)
    BY DEF GInv, Pair
  <2> QED BY <1>3, <2>1, <2>2, <2>3, <2>4, <2>5, RecordPairs, LearnsRecord
<1>6. CASE Advance(t)
  <2> DEFINE received == [record EXCEPT !.stage = "result", !.version = @ + 1,
                            !.claimed = FALSE, !.leased = FALSE, !.dispatched = FALSE]
  <2>1. GensStay BY <1>6, GensKept DEF Advance
  <2>2. DOMAIN received = DOMAIN NoRecord /\ received.gen = record.gen
        /\ received.life = record.life
    BY <1>1 DEF NoRecord
  <2>3. record' = record \/ record' = received BY <1>6 DEF Advance
  <2>4. /\ Moved(t) /\ tasks'[t].pc \in {"received", "sync"}
        /\ tasks'[t].exp = tasks[t].exp
        /\ tasks'[t].rec \in {received, Mirrored(record)}
        /\ tasks'[t].kind = tasks[t].kind /\ tasks'[t].node = tasks[t].node
    BY <1>1, <1>6 DEF Advance, Moved, Idle
  <2> HIDE DEF received
  <2>5. DOMAIN Mirrored(record) = DOMAIN NoRecord
        /\ Pair(Mirrored(record).gen, Mirrored(record).life)
    BY <1>1, <1>2 DEF Pair
  <2>6. Pair(received.gen, received.life) BY <2>2 DEF Pair
  <2> QED BY <1>3, <2>1, <2>2, <2>3, <2>4, <2>5, <2>6, RecordPairs, LearnsRecord
<1> QED BY <1>4, <1>5, <1>6

\* What the trackers take up: nothing but generations that were known.
LEMMA TrackersKnow ==
  ASSUME DInv, GInv, NEW t \in Tasks, Sync(t) \/ Recover(t) \/ Bump(t) \/ Received(t)
  PROVE  GInv'
<1>1. record' = record BY DEF Sync, Recover, Bump, Received
<1>2. GensStay BY GensKept DEF Sync, Recover, Bump, Received
<1>3. /\ Node(t) \in Nodes => EntryShape(Mine(t)) /\ Pair(Mine(t).gen, Mine(t).life)
      /\ Pair(tasks[t].rec.gen, tasks[t].rec.life)
  BY DEF GInv, PendingShape, Pair, Mine
<1>4. CASE Sync(t)
  <2> DEFINE e == Synced(Mine(t), tasks[t].id, tasks[t].rec)
  <2>1. Node(t) \in Nodes => EntryShape(e) /\ Pair(e.gen, e.life)
    BY <1>3, NothingPairs DEF Synced, EntryShape, NoEntry
  <2>2. pending' = [pending EXCEPT ![Node(t)] = e] BY <1>4 DEF Sync, Mine
  <2> HIDE DEF e
  <2>3. PendingKnown BY <2>1, <2>2, PendingPut
  <2> QED BY <1>1, <1>2, <1>4, <2>3, RecordPairs, Forgets DEF Sync
<1>5. CASE Recover(t)
  <2> DEFINE e == Recovered(Mine(t), tasks[t].rec)
  <2>1. Node(t) \in Nodes => EntryShape(e) /\ Pair(e.gen, e.life)
    BY <1>3 DEF Recovered, EntryShape, NoEntry
  <2>2. pending' = [pending EXCEPT ![Node(t)] = e] BY <1>5 DEF Recover, Mine
  <2> HIDE DEF e
  <2>3. PendingKnown BY <2>1, <2>2, PendingPut
  <2>4. GoOn(t, "claim") \/ GoOn(t, "mark") \/ End(t) BY <1>5 DEF Recover
  <2> QED BY <1>1, <1>2, <2>3, <2>4, RecordPairs, Forgets
<1>6. CASE Bump(t)
  <2> DEFINE e == [Mine(t) EXCEPT !.attempt = tasks[t].attempt]
  <2>1. Node(t) \in Nodes => EntryShape(e) /\ Pair(e.gen, e.life)
    BY <1>3 DEF EntryShape, NoEntry
  <2>2. pending' = pending \/ pending' = [pending EXCEPT ![Node(t)] = e]
    BY <1>6 DEF Bump, Mine
  <2> HIDE DEF e
  <2>3. PendingKnown BY <2>1, <2>2, PendingPut
  <2>4. Goto(t, "mark") \/ End(t) BY <1>6 DEF Bump
  <2> QED BY <1>1, <1>2, <2>3, <2>4, RecordPairs, Forgets
<1>7. CASE Received(t)
  <2> DEFINE e == [Mine(t) EXCEPT !.stage = "result", !.version = tasks[t].rec.version,
                                  !.attempt = tasks[t].rec.attempt, !.expired = FALSE]
  <2>1. Node(t) \in Nodes => EntryShape(e) /\ Pair(e.gen, e.life)
    BY <1>3 DEF EntryShape, NoEntry
  <2>2. pending' = pending \/ pending' = [pending EXCEPT ![Node(t)] = e]
    BY <1>7 DEF Received, Mine
  <2> HIDE DEF e
  <2>3. PendingKnown BY <2>1, <2>2, PendingPut
  <2> QED BY <1>1, <1>2, <1>7, <2>3, RecordPairs, Forgets DEF Received
<1> QED BY <1>4, <1>5, <1>6, <1>7

LEMMA RetriesKnow ==
  ASSUME DInv, GInv, NEW t \in Tasks,
         Mark(t) \/ Recheck(t) \/ RetrySend(t) \/ Release(t)
  PROVE  GInv'
<1>1. PendingKnown BY PendingAlone DEF Mark, Recheck, RetrySend, Release
<1>2. GensStay BY GensKept DEF Mark, Recheck, RetrySend, Release, Sends, SendFails
<1>3. record' = record \/ (record'.gen = record.gen /\ record'.life = record.life)
  BY DEF Mark, Recheck, RetrySend, Release, DInv, Shapes, NoRecord
<1>4. CASE End(t) BY <1>1, <1>2, <1>3, <1>4, RecordPairs, Forgets
<1>5. ASSUME NEW label \in {"recheck", "retrySend", "release", "sync", "bump"},
             Goto(t, label) \/ LoadThen(t, label)
      PROVE  GInv'
  BY <1>1, <1>2, <1>3, <1>5, RecordPairs, Forgets
<1>6. CASE Mark(t) BY <1>4, <1>5, <1>6 DEF Mark, Unsent
<1>7. CASE Recheck(t) BY <1>5, <1>7 DEF Recheck
<1>8. CASE RetrySend(t) BY <1>4, <1>5, <1>8 DEF RetrySend
<1>9. CASE Release(t) BY <1>4, <1>5, <1>9 DEF Release, Unsent
<1> QED BY <1>6, <1>7, <1>8, <1>9

LEMMA StartsKnow ==
  ASSUME DInv, GInv, NEW t \in Tasks, NEW n \in Nodes,
         \/ StartPush(t, n) \/ StartTimeout(t, n) \/ StartDrain(t, n) \/ StartAck(t, n)
         \/ StartRetire(t, n) \/ StartSweep(t, n)
  PROVE  GInv'
<1>1. record' = record /\ pending' = pending
  BY DEF StartPush, StartTimeout, StartDrain, StartAck, StartRetire, StartSweep
<1>2. GensStay
  <2>1. CASE StartPush(t, n) BY <2>1 DEF StartPush, DInv, Shapes, BookFields, GensStay
  <2>2. CASE ~StartPush(t, n)
    BY <2>2, GensKept DEF StartTimeout, StartDrain, StartAck, StartRetire, StartSweep
  <2> QED BY <2>1, <2>2
<1>3. ASSUME NEW d, tasks' = [tasks EXCEPT ![t] = d], DOMAIN d = DOMAIN Idle,
             d.pc \notin {"adopt", "create", "track"}, d.rec = NoRecord,
             d.exp = NoEntry \/ d.exp = pending[n], d.node = n
      PROVE  GInv'
  <2>1. Pair(d.exp.gen, d.exp.life) BY <1>3, NothingPairs DEF Pair
  <2> QED BY <1>1, <1>2, <1>3, <2>1, StartsKnowing
<1>4. CASE StartPush(t, n)
  <2> DEFINE d == [Idle EXCEPT !.pc = "seed", !.kind = "push", !.node = n]
  <2>1. tasks' = [tasks EXCEPT ![t] = d] BY <1>4 DEF StartPush, Start
  <2>2. /\ DOMAIN d = DOMAIN Idle /\ d.pc = "seed" /\ d.rec = NoRecord
        /\ d.exp = NoEntry /\ d.node = n
    BY DEF Idle
  <2> HIDE DEF d
  <2> QED BY <1>3, <2>1, <2>2
<1>5. CASE StartTimeout(t, n)
  <2> DEFINE d == [Idle EXCEPT !.pc = "claim", !.kind = "timeout", !.node = n,
                               !.id = pending[n].id]
  <2>1. tasks' = [tasks EXCEPT ![t] = d] BY <1>5 DEF StartTimeout
  <2>2. /\ DOMAIN d = DOMAIN Idle /\ d.pc = "claim" /\ d.rec = NoRecord
        /\ d.exp = NoEntry /\ d.node = n
    BY DEF Idle
  <2> HIDE DEF d
  <2> QED BY <1>3, <2>1, <2>2
<1>6. CASE StartAck(t, n)
  <2> DEFINE d == [Idle EXCEPT !.pc = "advance", !.kind = "ack", !.node = n,
                               !.id = pending[n].id]
  <2>1. tasks' = [tasks EXCEPT ![t] = d] BY <1>6 DEF StartAck
  <2>2. /\ DOMAIN d = DOMAIN Idle /\ d.pc = "advance" /\ d.rec = NoRecord
        /\ d.exp = NoEntry /\ d.node = n
    BY DEF Idle
  <2> HIDE DEF d
  <2> QED BY <1>3, <2>1, <2>2
<1>7. CASE StartRetire(t, n)
  <2> DEFINE d == [Idle EXCEPT !.pc = "load", !.then = "retireCheck", !.kind = "retire",
                               !.node = n, !.id = pending[n].id, !.exp = pending[n]]
  <2>1. tasks' = [tasks EXCEPT ![t] = d] BY <1>7 DEF StartRetire
  <2>2. /\ DOMAIN d = DOMAIN Idle /\ d.pc = "load" /\ d.rec = NoRecord
        /\ d.exp = pending[n] /\ d.node = n
    BY DEF Idle
  <2> HIDE DEF d
  <2> QED BY <1>3, <2>1, <2>2
<1>8. CASE StartSweep(t, n)
  <2> DEFINE d == [Idle EXCEPT !.pc = "sweepCheck", !.kind = "sweep", !.node = n,
                               !.gen = seed.gen]
  <2>1. tasks' = [tasks EXCEPT ![t] = d] BY <1>8 DEF StartSweep
  <2>2. /\ DOMAIN d = DOMAIN Idle /\ d.pc = "sweepCheck" /\ d.rec = NoRecord
        /\ d.exp = NoEntry /\ d.node = n
    BY DEF Idle
  <2> HIDE DEF d
  <2> QED BY <1>3, <2>1, <2>2
<1>9. CASE StartDrain(t, n)
  <2> DEFINE drain(r) == [Idle EXCEPT !.kind = DrainKind(r), !.node = n]
  <2>1. PICK r \in {record, NoRecord} :
          \/ tasks' = [tasks EXCEPT ![t] = [drain(r) EXCEPT !.pc = "drainDelete"]]
          \/ tasks' = [tasks EXCEPT ![t] = [Resumed(drain(r), r) EXCEPT
                                              !.pc = "load", !.then = "recover"]]
          \/ tasks' = [tasks EXCEPT ![t] = [Resumed(drain(r), r) EXCEPT
                         !.pc = IF DrainKind(r) = "resume" THEN "mark" ELSE "claim"]]
    BY <1>9 DEF StartDrain
  <2>2. /\ DOMAIN drain(r) = DOMAIN Idle /\ drain(r).rec = NoRecord
        /\ drain(r).exp = NoEntry /\ drain(r).node = n
    BY DEF Idle
  <2>3. /\ DOMAIN Resumed(drain(r), r) = DOMAIN Idle
        /\ Resumed(drain(r), r).rec = NoRecord
        /\ Resumed(drain(r), r).exp = NoEntry /\ Resumed(drain(r), r).node = n
    BY <2>2 DEF Resumed, Idle
  <2> HIDE DEF drain
  <2>4. CASE tasks' = [tasks EXCEPT ![t] = [drain(r) EXCEPT !.pc = "drainDelete"]]
    <3> DEFINE d == [drain(r) EXCEPT !.pc = "drainDelete"]
    <3>1. /\ DOMAIN d = DOMAIN Idle /\ d.pc = "drainDelete" /\ d.rec = NoRecord
          /\ d.exp = NoEntry /\ d.node = n
      BY <2>2 DEF Idle
    <3> HIDE DEF d
    <3> QED BY <1>3, <2>4, <3>1 DEF d
  <2>5. CASE tasks' = [tasks EXCEPT ![t] = [Resumed(drain(r), r) EXCEPT
                                              !.pc = "load", !.then = "recover"]]
    <3> DEFINE d == [Resumed(drain(r), r) EXCEPT !.pc = "load", !.then = "recover"]
    <3>1. /\ DOMAIN d = DOMAIN Idle /\ d.pc = "load" /\ d.rec = NoRecord
          /\ d.exp = NoEntry /\ d.node = n
      BY <2>3 DEF Idle
    <3> HIDE DEF d
    <3> QED BY <1>3, <2>5, <3>1 DEF d
  <2>6. ASSUME NEW pc \in {"mark", "claim"},
               tasks' = [tasks EXCEPT ![t] = [Resumed(drain(r), r) EXCEPT !.pc = pc]]
        PROVE  GInv'
    <3> DEFINE d == [Resumed(drain(r), r) EXCEPT !.pc = pc]
    <3>1. /\ DOMAIN d = DOMAIN Idle /\ d.pc = pc /\ d.rec = NoRecord
          /\ d.exp = NoEntry /\ d.node = n
      BY <2>3 DEF Idle
    <3>2. tasks' = [tasks EXCEPT ![t] = d] BY <2>6
    <3> HIDE DEF d
    <3> QED BY <1>3, <3>1, <3>2
  <2> QED BY <2>1, <2>4, <2>5, <2>6
<1> QED BY <1>4, <1>5, <1>6, <1>7, <1>8, <1>9

LEMMA StartForwardedKnows ==
  ASSUME DInv, GInv, NEW t \in Tasks, NEW env \in envelopes, StartForwarded(t, env)
  PROVE  GInv'
<1> DEFINE d == [Idle EXCEPT !.pc = "mark", !.kind = "forwarded",
                   !.node = env.node, !.life = env.life, !.attempt = env.attempt]
<1>1. /\ tasks' = [tasks EXCEPT ![t] = d] /\ record' = record /\ pending' = pending
      /\ book' = book
  BY DEF StartForwarded
<1>2. /\ DOMAIN d = DOMAIN Idle /\ d.pc = "mark" /\ d.kind = "forwarded"
      /\ d.rec = NoRecord /\ d.exp = NoEntry
  BY DEF Idle
<1> HIDE DEF d
<1> QED BY <1>1, <1>2, NothingPairs, GensKept, StartsKnowing

LEMMA EnvironmentKnows ==
  ASSUME DInv, GInv,
         \/ Close \/ SeedAges \/ LeaseExpires \/ UNCHANGED vars
         \/ \E n \in Nodes : Freeze(n) \/ Expire(n) \/ Reconnect(n)
  PROVE  GInv'
<1>1. tasks' = tasks
  BY DEF Close, SeedAges, LeaseExpires, vars, Freeze, Expire, Reconnect
<1>2. GensStay
  BY DEF Close, SeedAges, LeaseExpires, vars, Freeze, Expire, Reconnect, Fault, GensStay,
         DInv, Shapes, BookFields
<1>3. record' = record \/ (record'.gen = record.gen /\ record'.life = record.life)
  BY DEF Close, SeedAges, LeaseExpires, vars, Freeze, Expire, Reconnect, DInv, Shapes, NoRecord
<1>4. PendingKnown
  <2>1. CASE pending' = pending BY <2>1, PendingAlone
  <2>2. CASE \E n \in Nodes : Freeze(n)
    <3>1. PICK n \in Nodes : pending' = [pending EXCEPT ![n] = NoEntry] BY <2>2 DEF Freeze
    <3>2. EntryShape(NoEntry) /\ Pair(NoEntry.gen, NoEntry.life) BY NothingPairs
    <3> QED BY <3>1, <3>2, PendingPut
  <2>3. CASE \E n \in Nodes : Expire(n)
    <3> PICK n \in Nodes : Expire(n) BY <2>3
    <3> DEFINE e == [pending[n] EXCEPT !.expired = TRUE]
    <3>1. EntryShape(e) /\ Pair(e.gen, e.life)
      BY DEF GInv, PendingShape, EntryShape, NoEntry, Pair
    <3>2. pending' = [pending EXCEPT ![n] = e] BY DEF Expire
    <3> HIDE DEF e
    <3> QED BY <3>1, <3>2, PendingPut
  <2> QED BY <2>1, <2>2, <2>3 DEF Close, SeedAges, LeaseExpires, vars, Reconnect
<1>5. Pair(record'.gen, record'.life) BY <1>3, RecordPairs
<1>6. \A g, l : Pair(g, l)' => Pair(g, l) BY <1>1, <1>4, <1>5 DEF Pair, PendingKnown
<1>7. \A t \in Tasks :
        /\ tasks'[t].kind = "push" => tasks'[t].node \in Nodes
        /\ DOMAIN tasks'[t].rec = DOMAIN NoRecord /\ tasks'[t].pc # "adopt"
  BY <1>1 DEF GInv
<1> QED BY <1>1, <1>2, <1>4, <1>6, <1>7, NothingNew DEF PendingKnown

LEMMA CrashKnows ==
  ASSUME DInv, GInv, NEW n \in Nodes, Crash(n)
  PROVE  GInv'
<1>1. /\ record' = record /\ pending' = [pending EXCEPT ![n] = NoEntry]
      /\ \A t \in Tasks : tasks'[t] = Idle \/ tasks'[t] = tasks[t]
  BY DEF Crash
<1>2. GensStay BY DEF Crash, GensStay, DInv, Shapes, BookFields
<1>3. PendingKnown BY <1>1, NothingPairs, PendingPut
<1>4. \A g, l : Pair(g, l)' => Pair(g, l)
  BY <1>1, <1>3, NothingPairs DEF Pair, PendingKnown
<1>5. \A t \in Tasks :
        /\ tasks'[t].kind = "push" => tasks'[t].node \in Nodes
        /\ DOMAIN tasks'[t].rec = DOMAIN NoRecord /\ tasks'[t].pc # "adopt"
        /\ tasks'[t].pc = "create" => tasks'[t] = tasks[t]
  BY <1>1, NothingPairs DEF GInv
<1>6. \A t \in Tasks : tasks'[t].pc = "create" =>
        tasks[t].pc = "create" /\ tasks'[t].gen = tasks[t].gen
  BY <1>5
<1> QED BY <1>2, <1>3, <1>4, <1>5, <1>6, NothingNew DEF PendingKnown

LEMMA GInvStep ==
  ASSUME DInv, GInv, ~SharedToken, [Next]_vars
  PROVE  GInv'
<1>1. CASE \E t \in Tasks : TaskStep(t) \/ StoreFails(t)
  <2> PICK t \in Tasks : TaskStep(t) \/ StoreFails(t) BY <1>1
  <2>1. ~Adopt(t) BY DEF Adopt, At, GInv
  <2>2. CASE Seed(t) \/ Create(t) \/ Track(t) \/ Rollback(t)
    BY <2>2, SeedNew, CreateNew, TrackKnows, RollbackKnows
  <2>3. CASE \/ RollbackDelete(t) \/ Unindex(t) \/ RollbackDrop(t) \/ DeleteSeed(t)
             \/ RetireDelete(t) \/ DrainDelete(t) \/ StoreFails(t) \/ SweepCheck(t)
             \/ RetireCheck(t) \/ Send(t)
    BY <2>3, UndoKnows
  <2>4. CASE Load(t) \/ Claim(t) \/ Advance(t) BY <2>4, ReadsKnow
  <2>5. CASE Sync(t) \/ Recover(t) \/ Bump(t) \/ Received(t) BY <2>5, TrackersKnow
  <2>6. CASE Mark(t) \/ Recheck(t) \/ RetrySend(t) \/ Release(t) BY <2>6, RetriesKnow
  <2> QED BY <2>1, <2>2, <2>3, <2>4, <2>5, <2>6 DEF TaskStep
<1>2. CASE \E t \in Tasks, n \in Nodes :
             \/ StartPush(t, n) \/ StartTimeout(t, n) \/ StartDrain(t, n) \/ StartAck(t, n)
             \/ StartRetire(t, n) \/ StartSweep(t, n)
  BY <1>2, StartsKnow
<1>3. CASE \E t \in Tasks, env \in envelopes : StartForwarded(t, env)
  BY <1>3, StartForwardedKnows
<1>4. CASE \E n \in Nodes : Crash(n) BY <1>4, CrashKnows
<1>5. CASE \/ Close \/ SeedAges \/ LeaseExpires \/ UNCHANGED vars
           \/ \E n \in Nodes : Freeze(n) \/ Expire(n) \/ Reconnect(n)
  BY <1>5, EnvironmentKnows
<1> QED BY <1>1, <1>2, <1>3, <1>4, <1>5 DEF Next

LEMMA GInvInit == ASSUME Init PROVE GInv
<1>1. /\ record = NoRecord /\ book.gens = 0 /\ DOMAIN pending = Nodes
      /\ \A n \in Nodes : pending[n] = NoEntry
      /\ \A t \in Tasks : tasks[t] = Idle
  BY DEF Init
<1>2. PendingShape BY <1>1, NothingPairs DEF PendingShape
<1>3. \A g, l : Pair(g, l) => g = 0 /\ l = 0 BY <1>1, NothingPairs DEF Pair
<1>4. \A t \in Tasks : /\ tasks[t].kind # "push" /\ tasks[t].pc \notin {"create", "adopt"}
                       /\ DOMAIN tasks[t].rec = DOMAIN NoRecord
  BY <1>1, NothingPairs
<1> QED BY <1>1, <1>2, <1>3, <1>4 DEF GInv

ErasesStep ==
  record.stage # "none" /\ record'.stage = "none" =>
    \E t \in Tasks :
      /\ tasks'[t] # tasks[t]
      /\ At(t, "drainDelete") \/ tasks[t].exp.life = record.life

\* Who deletes a record compared it with its expectation, of the same generation.
LEMMA ErasesOwn ==
  ASSUME DInv, GInv, [Next]_vars
  PROVE  ErasesStep
<1> SUFFICES ASSUME record.stage # "none", record'.stage = "none" PROVE ErasesStep
  BY DEF ErasesStep
<1>1. record' # record /\ DOMAIN record = DOMAIN NoRecord BY DEF DInv, Shapes
<1>2. PICK t \in Tasks : DrainDelete(t) \/ RollbackDelete(t) \/ RetireDelete(t)
  <2>1. CASE \E t \in Tasks : TaskStep(t)
    <3> PICK t \in Tasks : TaskStep(t) BY <2>1
    <3>1. ~Create(t) BY <1>1 DEF Create
    <3>2. ~Claim(t) /\ ~Mark(t) /\ ~Release(t) /\ ~Advance(t)
      BY <1>1 DEF Claim, Mark, Release, Advance, NoRecord
    <3>3. \/ DrainDelete(t) \/ RollbackDelete(t) \/ RetireDelete(t)
      BY <1>1, <3>1, <3>2
      DEF TaskStep, Seed, Adopt, Track, Send, Rollback, RollbackDrop, DeleteSeed, Unindex,
          Load, Sync, Recover, Bump, Recheck, RetrySend, Received, RetireCheck, SweepCheck
    <3> QED BY <3>3
  <2>2. ~Close /\ ~LeaseExpires BY <1>1 DEF Close, LeaseExpires, NoRecord
  <2>3. ~Begins BY <1>1, BeginsAlone
  <2>4. /\ ~SeedAges /\ ~UNCHANGED vars
        /\ \A n \in Nodes : ~Freeze(n) /\ ~Expire(n) /\ ~Reconnect(n) /\ ~Crash(n)
    BY <1>1 DEF SeedAges, vars, Freeze, Expire, Reconnect, Crash
  <2> QED BY <2>1, <2>2, <2>3, <2>4 DEF Next, Begins
<1>3. CASE DrainDelete(t)
  <2>1. At(t, "drainDelete") /\ tasks'[t] = Idle
    BY <1>3, EndMoves DEF DrainDelete, DInv
  <2> QED BY <2>1, NothingPairs DEF At, ErasesStep
<1>4. CASE RollbackDelete(t) \/ RetireDelete(t)
  <2>1. tasks[t].pc \in {"rollbackDelete", "retireDelete"}
        /\ SameVersion(tasks[t].exp, record) /\ Goto(t, "unindex")
    BY <1>1, <1>4 DEF RollbackDelete, RetireDelete, At, Unchanged
  <2>2. tasks'[t] # tasks[t] BY <2>1, GotoMoves DEF DInv
  <2>3. tasks[t].exp.gen = record.gen BY <2>1 DEF SameVersion
  <2>4. Pair(record.gen, record.life) /\ Pair(tasks[t].exp.gen, tasks[t].exp.life)
    BY DEF Pair
  <2>5. tasks[t].exp.life = record.life BY <2>3, <2>4 DEF GInv
  <2> QED BY <2>2, <2>5 DEF ErasesStep
<1> QED BY <1>2, <1>3, <1>4

\* While every dispatch carries a commit token of its own, rollbacks and retirements
\* erase no record but the one that their tracker mirrored.
THEOREM NoneElsesRecord ==
  ASSUME ~SharedToken
  PROVE  Spec => ErasesOwnRecord
<1>1. Init => GInv BY GInvInit
<1>2. DInv /\ GInv /\ [Next]_vars => GInv' BY GInvStep
<1>3. DInv /\ GInv /\ [Next]_vars => ErasesStep BY ErasesOwn
<1> QED BY <1>1, <1>2, <1>3, InvariantHolds, PTL DEF Spec, ErasesOwnRecord, ErasesStep

-----------------------------------------------------------------------------
(* Types: identities, and how much the dispatches may count up               *)

\* There is always an identity to spare: entries and goroutines are fewer.
LEMMA FreshIdTyped == ASSUME TypeOK PROVE FreshId \in Ids
<1> DEFINE places == Nodes \cup Tasks
           used == {pending[n].id : n \in Nodes} \cup {tasks[t].id : t \in Tasks}
           ids == 1..(Cardinality(Nodes) + Cardinality(Tasks) + 1)
<1>1. /\ IsFiniteSet({pending[n].id : n \in Nodes})
      /\ Cardinality({pending[n].id : n \in Nodes}) <= Cardinality(Nodes)
  <2>1. IsFiniteSet(Nodes) BY ConstantsAssumption
  <2> DEFINE f == [n \in Nodes |-> pending[n].id]
  <2>2. f \in Surjection(Nodes, {pending[n].id : n \in Nodes}) BY DEF Surjection
  <2> HIDE DEF f
  <2> QED BY <2>1, <2>2, FS_Surjection
<1>2. /\ IsFiniteSet({tasks[t].id : t \in Tasks})
      /\ Cardinality({tasks[t].id : t \in Tasks}) <= Cardinality(Tasks)
  <2>1. IsFiniteSet(Tasks) BY ConstantsAssumption
  <2> DEFINE f == [t \in Tasks |-> tasks[t].id]
  <2>2. f \in Surjection(Tasks, {tasks[t].id : t \in Tasks}) BY DEF Surjection
  <2> HIDE DEF f
  <2> QED BY <2>1, <2>2, FS_Surjection
<1>3. Cardinality(Nodes) \in Nat /\ Cardinality(Tasks) \in Nat
  BY ConstantsAssumption, FS_CardinalityType
<1>4. IsFiniteSet(used) /\ Cardinality(used) <= Cardinality(Nodes) + Cardinality(Tasks)
  <2> DEFINE a == {pending[n].id : n \in Nodes}
             b == {tasks[t].id : t \in Tasks}
  <2> HIDE DEF a, b
  <2>1. /\ IsFiniteSet(a \cup b)
        /\ Cardinality(a \cup b) = Cardinality(a) + Cardinality(b) - Cardinality(a \cap b)
    BY <1>1, <1>2, FS_Union DEF a, b
  <2>2. IsFiniteSet(a \cap b) BY <1>1, FS_Intersection DEF a, b
  <2>3. /\ Cardinality(a) \in Nat /\ Cardinality(b) \in Nat /\ Cardinality(a \cap b) \in Nat
    BY <1>1, <1>2, <2>2, FS_CardinalityType DEF a, b
  <2>4. Cardinality(a) <= Cardinality(Nodes) /\ Cardinality(b) <= Cardinality(Tasks)
    BY <1>1, <1>2 DEF a, b
  <2>5. Cardinality(a \cup b) <= Cardinality(Nodes) + Cardinality(Tasks)
    BY <1>3, <2>1, <2>3, <2>4
  <2> QED BY <2>1, <2>5 DEF a, b
<1>5. IsFiniteSet(ids) /\ Cardinality(ids) = Cardinality(Nodes) + Cardinality(Tasks) + 1
  <2> DEFINE k == Cardinality(Nodes) + Cardinality(Tasks) + 1
  <2>1. k \in Int /\ 1 \in Int /\ k >= 1 BY <1>3
  <2> HIDE DEF k
  <2>2. Cardinality(1..k) = IF 1 > k THEN 0 ELSE k - 1 + 1 BY <2>1, FS_Interval
  <2>3. IsFiniteSet(1..k) BY <2>1, FS_Interval
  <2>4. Cardinality(1..k) = k BY <2>1, <2>2
  <2> QED BY <2>3, <2>4 DEF k
<1>6. \E i \in ids : i \notin used
  <2> SUFFICES ASSUME ids \subseteq used PROVE FALSE OBVIOUS
  <2> HIDE DEF ids, used
  <2>1. Cardinality(ids) <= Cardinality(used) BY <1>4, FS_Subset
  <2>2. Cardinality(used) \in Nat BY <1>4, FS_CardinalityType
  <2> QED BY <1>3, <1>4, <1>5, <2>1, <2>2
<1>7. \E i \in Ids \ {0} : /\ \A n \in Nodes : pending[n].id # i
                           /\ \A t \in Tasks : tasks[t].id # i
  BY <1>3, <1>6 DEF Ids
<1> QED BY <1>7 DEF FreshId

\* How many goroutines are at some places.
HowMany(table, places) == Cardinality({t \in Tasks : table[t].pc \in places})

Seeding == {"seed"}
Creating == {"seed", "adopt", "create"}

LEMMA HowManyType ==
  ASSUME NEW table, NEW places
  PROVE  /\ IsFiniteSet({t \in Tasks : table[t].pc \in places})
         /\ HowMany(table, places) \in Nat
<1>1. IsFiniteSet({t \in Tasks : table[t].pc \in places})
  BY ConstantsAssumption, FS_Subset
<1> QED BY <1>1, FS_CardinalityType DEF HowMany

LEMMA FewerStay ==
  ASSUME NEW table, NEW other, NEW places,
         \A t \in Tasks : other[t].pc \in places => table[t].pc \in places
  PROVE  HowMany(other, places) <= HowMany(table, places)
<1> DEFINE before == {t \in Tasks : table[t].pc \in places}
           after == {t \in Tasks : other[t].pc \in places}
<1>1. after \subseteq before OBVIOUS
<1>2. IsFiniteSet(before) BY HowManyType
<1> HIDE DEF before, after
<1>3. Cardinality(after) <= Cardinality(before) BY <1>1, <1>2, FS_Subset
<1> QED BY <1>3 DEF HowMany, before, after

LEMMA OneLeaves ==
  ASSUME NEW table, NEW other, NEW places, NEW t \in Tasks,
         table[t].pc \in places, other[t].pc \notin places,
         \A s \in Tasks : s # t => other[s] = table[s]
  PROVE  HowMany(other, places) = HowMany(table, places) - 1
<1> DEFINE before == {s \in Tasks : table[s].pc \in places}
<1>1. t \in before /\ {s \in Tasks : other[s].pc \in places} = before \ {t} OBVIOUS
<1>2. IsFiniteSet(before) BY HowManyType
<1> HIDE DEF before
<1>3. Cardinality(before \ {t}) = Cardinality(before) - 1 BY <1>1, <1>2, FS_RemoveElement
<1> QED BY <1>1, <1>3 DEF HowMany, before

LEMMA OneEnters ==
  ASSUME NEW table, NEW other, NEW places, NEW t \in Tasks,
         \A s \in Tasks : s # t => other[s] = table[s]
  PROVE  HowMany(other, places) <= HowMany(table, places) + 1
<1> DEFINE before == {s \in Tasks : table[s].pc \in places}
           after == {s \in Tasks : other[s].pc \in places}
<1>1. after \subseteq before \cup {t} OBVIOUS
<1>2. IsFiniteSet(before) /\ Cardinality(before) \in Nat BY HowManyType DEF HowMany
<1> HIDE DEF before, after
<1>3. /\ IsFiniteSet(before \cup {t})
      /\ Cardinality(before \cup {t}) =
           IF t \in before THEN Cardinality(before) ELSE Cardinality(before) + 1
  BY <1>2, FS_AddElement
<1>4. Cardinality(after) <= Cardinality(before \cup {t}) BY <1>1, <1>3, FS_Subset
<1>5. Cardinality(after) \in Nat
  <2>1. IsFiniteSet(after) BY <1>1, <1>3, FS_Subset
  <2> QED BY <2>1, FS_CardinalityType
<1>6. Cardinality(after) <= Cardinality(before) + 1 BY <1>2, <1>3, <1>4, <1>5
<1> QED BY <1>6 DEF HowMany, before, after

-----------------------------------------------------------------------------
(* Types: the goroutines                                                     *)

\* A goroutine at work has a node.
Placed(r) == r \in Task /\ (r.pc # "idle" => r.node \in Nodes)

\* Every dispatch counts up once, when it creates the seed, the record.
TInv ==
  /\ TypeOK
  /\ \A t \in Tasks : Placed(tasks[t])
  /\ book.gens + HowMany(tasks, Seeding) <= book.pushes
  /\ book.lives + HowMany(tasks, Creating) <= book.pushes

\* The step of a goroutine to a place where it no longer counts.
Proceeds(t) ==
  \E r : tasks' = [tasks EXCEPT ![t] = r] /\ Placed(r) /\ r.pc \notin Creating

LEMMA TasksTyped == ASSUME TInv PROVE tasks \in [Tasks -> Task]
BY DEF TInv, TypeOK

LEMMA ZeroTyped == 0 \in Ids /\ 0 \in Attempts /\ 1 \in Attempts /\ 0 \in Lives /\ 0 \in Gens
<1>1. Cardinality(Nodes) \in Nat /\ Cardinality(Tasks) \in Nat
  BY ConstantsAssumption, FS_CardinalityType
<1> QED BY <1>1, ConstantsAssumption DEF Ids, Attempts, Gens, Lives

LEMMA NoneTyped == NoEntry \in Entry /\ NoRecord \in Record
BY ZeroTyped DEF NoEntry, Entry, NoRecord, Record

LEMMA IdlePlaced == Placed(Idle)
BY ZeroTyped, NoneTyped DEF Placed, Idle, Task, PCs, Kinds

LEMMA GotoProceeds ==
  ASSUME TInv, NEW t \in Tasks, tasks[t].pc # "idle", NEW l \in PCs \ Creating, Goto(t, l)
  PROVE  Proceeds(t)
<1>1. tasks[t] \in Task /\ tasks[t].node \in Nodes BY DEF TInv, Placed
<1> DEFINE r == [tasks[t] EXCEPT !.pc = l]
<1>2. r \in Task /\ r.node = tasks[t].node /\ r.pc = l BY <1>1 DEF Task
<1>3. tasks' = [tasks EXCEPT ![t] = r] BY TasksTyped DEF Goto
<1> QED BY <1>1, <1>2, <1>3 DEF Proceeds, Placed

LEMMA GoOnProceeds ==
  ASSUME TInv, NEW t \in Tasks, tasks[t].pc # "idle", NEW l \in PCs \ Creating, GoOn(t, l)
  PROVE  Proceeds(t)
<1>1. tasks[t] \in Task /\ tasks[t].node \in Nodes BY DEF TInv, Placed
<1> DEFINE r == [tasks[t] EXCEPT !.pc = l, !.rec = NoRecord]
<1>2. NoRecord \in Record BY NoneTyped
<1>3. r \in Task /\ r.node = tasks[t].node /\ r.pc = l BY <1>1, <1>2 DEF Task
<1>4. tasks' = [tasks EXCEPT ![t] = r] BY TasksTyped DEF GoOn
<1> QED BY <1>1, <1>3, <1>4 DEF Proceeds, Placed

LEMMA LoadProceeds ==
  ASSUME TInv, NEW t \in Tasks, tasks[t].pc # "idle", NEW l \in PCs, LoadThen(t, l)
  PROVE  Proceeds(t)
<1>1. tasks[t] \in Task /\ tasks[t].node \in Nodes BY DEF TInv, Placed
<1> DEFINE r == [Idle EXCEPT !.pc = "load", !.then = l, !.kind = tasks[t].kind,
                             !.node = tasks[t].node, !.id = tasks[t].id]
<1>2. Idle \in Task BY IdlePlaced DEF Placed
<1>3. r \in Task /\ r.node = tasks[t].node /\ r.pc = "load"
  <2>1. "load" \in PCs BY DEF PCs
  <2> QED BY <1>1, <1>2, <2>1 DEF Task
<1>4. tasks' = [tasks EXCEPT ![t] = r] BY DEF LoadThen
<1>5. "load" \notin Creating BY DEF Creating
<1> QED BY <1>1, <1>3, <1>4, <1>5 DEF Proceeds, Placed

LEMMA EndProceeds ==
  ASSUME NEW t \in Tasks, End(t)
  PROVE  Proceeds(t)
<1>1. Idle.pc \notin Creating BY DEF Idle, Creating
<1> QED BY <1>1, IdlePlaced DEF Proceeds, End

LEMMA SetProceeds ==
  ASSUME NEW t \in Tasks, NEW r \in Task, tasks' = [tasks EXCEPT ![t] = r],
         r.node \in Nodes, r.pc \notin Creating
  PROVE  Proceeds(t)
BY DEF Proceeds, Placed

LEMMA MirroredTyped ==
  ASSUME NEW r \in Record
  PROVE  Mirrored(r) \in Record
BY DEF Mirrored, Record

LEMMA ReadTyped == ASSUME TInv PROVE \A r \in {record, NoRecord} : r \in Record
<1>1. NoRecord \in Record BY NoneTyped
<1> QED BY <1>1 DEF TInv, TypeOK

LEMMA EntryTyped == ASSUME TInv, NEW n \in Nodes PROVE pending[n] \in Entry
BY DEF TInv, TypeOK

\* A goroutine at work, in its parts.
LEMMA Working ==
  ASSUME TInv, NEW t \in Tasks, tasks[t].pc # "idle"
  PROVE  /\ tasks[t] \in Task /\ Node(t) \in Nodes /\ tasks[t].node = Node(t)
         /\ Mine(t) \in Entry
BY EntryTyped DEF TInv, Placed, Node, Mine

\* One that starts.
LEMMA StartProceeds ==
  ASSUME TInv, NEW t \in Tasks, NEW n \in Nodes, NEW l \in PCs \ Creating,
         NEW kind \in Kinds, NEW id \in Ids,
         tasks' = [tasks EXCEPT ![t] = [Idle EXCEPT !.pc = l, !.kind = kind, !.node = n,
                                                    !.id = id]]
  PROVE  Proceeds(t)
<1> DEFINE r == [Idle EXCEPT !.pc = l, !.kind = kind, !.node = n, !.id = id]
<1>1. Idle \in Task BY IdlePlaced DEF Placed
<1>2. r \in Task /\ r.node = n /\ r.pc = l BY <1>1 DEF Task
<1> HIDE DEF r
<1> QED BY <1>2, SetProceeds DEF r

-----------------------------------------------------------------------------

LEMMA DispatchProceeds ==
  ASSUME TInv, DInv, NEW t \in Tasks,
         Track(t) \/ Send(t) \/ Rollback(t) \/ RollbackDelete(t) \/ Unindex(t)
         \/ RollbackDrop(t) \/ DeleteSeed(t)
  PROVE  Proceeds(t)
<1>0. 1 \in Attempts BY ZeroTyped
<1>1. tasks[t].pc # "idle"
  BY DEF Track, Send, Rollback, RollbackDelete, Unindex, RollbackDrop, DeleteSeed, At
<1>2. /\ tasks[t] \in Task /\ Node(t) \in Nodes /\ tasks[t].node = Node(t)
      /\ Mine(t) \in Entry
  BY <1>1, Working
<1>3. CASE Track(t)
  <2> DEFINE r == [tasks[t] EXCEPT !.pc = "send", !.attempt = 1]
  <2>1. r \in Task /\ r.node = Node(t) /\ r.pc = "send" BY <1>0, <1>2 DEF Task, PCs
  <2>2. tasks' = [tasks EXCEPT ![t] = r] BY <1>3, TasksTyped DEF Track
  <2> HIDE DEF r
  <2> QED BY <1>2, <2>1, <2>2, SetProceeds DEF Creating
<1>4. CASE Send(t)
  <2>1. CASE End(t) BY <2>1, EndProceeds
  <2>2. CASE tasks' = [tasks EXCEPT ![t] = [Idle EXCEPT !.pc = "rollback", !.kind = "push",
                                              !.node = Node(t)]]
    <3> DEFINE r == [Idle EXCEPT !.pc = "rollback", !.kind = "push", !.node = Node(t)]
    <3>1. Idle \in Task BY IdlePlaced DEF Placed
    <3>2. "rollback" \in PCs /\ "push" \in Kinds BY DEF PCs, Kinds
    <3>3. r \in Task /\ r.node = Node(t) /\ r.pc = "rollback"
      BY <1>2, <3>1, <3>2 DEF Task
    <3>4. tasks' = [tasks EXCEPT ![t] = r] BY <2>2
    <3> HIDE DEF r
    <3> QED BY <1>2, <3>3, <3>4, SetProceeds DEF Creating
  <2> QED BY <1>4, <2>1, <2>2 DEF Send
<1>5. CASE Rollback(t)
  <2>1. CASE End(t) BY <2>1, EndProceeds
  <2>2. CASE tasks' = [tasks EXCEPT ![t].pc = "rollbackDelete", ![t].id = Mine(t).id,
                                    ![t].exp = Mine(t)]
    <3> DEFINE e == Mine(t)
               r == [tasks[t] EXCEPT !.pc = "rollbackDelete", !.id = e.id, !.exp = e]
    <3>1. e \in Entry /\ e.id \in Ids BY <1>2 DEF Entry
    <3>2. tasks' = [tasks EXCEPT ![t] = r] BY <2>2, TasksTyped
    <3> HIDE DEF e
    <3>3. r \in Task /\ r.node = Node(t) /\ r.pc = "rollbackDelete"
      BY <1>2, <3>1 DEF Task, PCs
    <3> HIDE DEF r
    <3> QED BY <1>2, <3>2, <3>3, SetProceeds DEF Creating
  <2> QED BY <1>5, <2>1, <2>2 DEF Rollback
<1>6. CASE RollbackDelete(t)
  BY <1>1, <1>6, GotoProceeds, LoadProceeds DEF RollbackDelete, PCs, Creating
<1>7. CASE Unindex(t)
  <2>1. CASE Goto(t, "rollbackDrop") BY <1>1, <2>1, GotoProceeds DEF PCs, Creating
  <2>2. CASE tasks' = [tasks EXCEPT ![t].pc = "deleteSeed", ![t].gen = tasks[t].exp.gen]
    <3> DEFINE g == tasks[t].exp.gen
               r == [tasks[t] EXCEPT !.pc = "deleteSeed", !.gen = g]
    <3>1. g \in Gens BY <1>2 DEF Task, Entry
    <3>2. tasks' = [tasks EXCEPT ![t] = r] BY <2>2, TasksTyped
    <3> HIDE DEF g
    <3>3. r \in Task /\ r.node = Node(t) /\ r.pc = "deleteSeed" BY <1>2, <3>1 DEF Task, PCs
    <3> HIDE DEF r
    <3> QED BY <1>2, <3>2, <3>3, SetProceeds DEF Creating
  <2> QED BY <1>7, <2>1, <2>2 DEF Unindex
<1>8. CASE RollbackDrop(t)
  <2>1. CASE End(t) BY <2>1, EndProceeds
  <2>2. CASE LoadThen(t, "sync") BY <1>1, <2>2, LoadProceeds DEF PCs
  <2>3. CASE tasks' = [tasks EXCEPT ![t].pc = "deleteSeed", ![t].gen = Mine(t).gen]
    <3> DEFINE g == Mine(t).gen
               r == [tasks[t] EXCEPT !.pc = "deleteSeed", !.gen = g]
    <3>1. g \in Gens BY <1>2 DEF Entry
    <3>2. tasks' = [tasks EXCEPT ![t] = r] BY <2>3, TasksTyped
    <3> HIDE DEF g
    <3>3. r \in Task /\ r.node = Node(t) /\ r.pc = "deleteSeed" BY <1>2, <3>1 DEF Task, PCs
    <3> HIDE DEF r
    <3> QED BY <1>2, <3>2, <3>3, SetProceeds DEF Creating
  <2> QED BY <1>8, <2>1, <2>2, <2>3 DEF RollbackDrop
<1>9. CASE DeleteSeed(t) BY <1>9, EndProceeds DEF DeleteSeed
<1> QED BY <1>3, <1>4, <1>5, <1>6, <1>7, <1>8, <1>9

LEMMA ReadsProceed ==
  ASSUME TInv, DInv, NEW t \in Tasks, Load(t) \/ Sync(t) \/ Recover(t)
  PROVE  Proceeds(t)
<1>1. tasks[t].pc # "idle" BY DEF Load, Sync, Recover, At
<1>2. /\ tasks[t] \in Task /\ Node(t) \in Nodes /\ tasks[t].node = Node(t)
  BY <1>1, Working
<1>3. CASE Load(t)
  <2>1. PICK x \in {record, NoRecord} :
          tasks' = [tasks EXCEPT ![t].pc = tasks[t].then, ![t].then = "idle",
                                 ![t].rec = Mirrored(x)]
    BY <1>3 DEF Load
  <2>2. Mirrored(x) \in Record BY ReadTyped, MirroredTyped
  <2>3. tasks[t].then \in {"recover", "sync", "retireCheck"}
    BY <1>3, MineIs DEF Load, At, Coherent
  <2> DEFINE m == Mirrored(x)
             l == tasks[t].then
             r == [tasks[t] EXCEPT !.pc = l, !.then = "idle", !.rec = m]
  <2>4. tasks' = [tasks EXCEPT ![t] = r] BY <2>1, TasksTyped
  <2> HIDE DEF m, l
  <2>5. r \in Task /\ r.node = Node(t) /\ r.pc = l
    BY <1>2, <2>2, <2>3 DEF Task, PCs, m, l
  <2> HIDE DEF r
  <2> QED BY <1>2, <2>3, <2>4, <2>5, SetProceeds DEF Creating, l
<1>4. CASE Sync(t) BY <1>4, EndProceeds DEF Sync
<1>5. CASE Recover(t)
  BY <1>1, <1>5, EndProceeds, GoOnProceeds DEF Recover, PCs, Creating
<1> QED BY <1>3, <1>4, <1>5

LEMMA UnsentProceeds ==
  ASSUME TInv, NEW t \in Tasks, tasks[t].pc # "idle", Unsent(t)
  PROVE  Proceeds(t)
BY EndProceeds, LoadProceeds DEF Unsent, PCs

LEMMA RetriesProceed ==
  ASSUME TInv, DInv, NEW t \in Tasks,
         Claim(t) \/ Bump(t) \/ Mark(t) \/ Recheck(t) \/ RetrySend(t) \/ Release(t)
         \/ DrainDelete(t)
  PROVE  Proceeds(t)
<1>1. tasks[t].pc # "idle"
  BY DEF Claim, Bump, Mark, Recheck, RetrySend, Release, DrainDelete, At
<1>2. /\ tasks[t] \in Task /\ Node(t) \in Nodes /\ tasks[t].node = Node(t)
      /\ Mine(t) \in Entry /\ record \in Record
  BY <1>1, Working DEF TInv, TypeOK
<1>3. CASE Claim(t)
  <2>1. CASE /\ Claimable
             /\ tasks' = [tasks EXCEPT ![t].pc = "bump", ![t].life = record.life,
                                       ![t].attempt = record.attempt + 1]
    <3> DEFINE l == record.life
               a == record.attempt + 1
               r == [tasks[t] EXCEPT !.pc = "bump", !.life = l, !.attempt = a]
    <3>1. l \in Lives BY <1>2 DEF Record
    <3>2. a \in Attempts
      <4>1. record.attempt \in Attempts BY <1>2 DEF Record
      <4> QED BY <2>1, <4>1, ConstantsAssumption DEF Claimable, Attempts
    <3>3. tasks' = [tasks EXCEPT ![t] = r] BY <2>1, TasksTyped
    <3> HIDE DEF l, a
    <3>4. r \in Task /\ r.node = Node(t) /\ r.pc = "bump" BY <1>2, <3>1, <3>2 DEF Task, PCs
    <3> HIDE DEF r
    <3> QED BY <1>2, <3>3, <3>4, SetProceeds DEF Creating
  <2>2. CASE \E i \in Ids :
               tasks' = [tasks EXCEPT ![t].pc = "sync", ![t].rec = Mirrored(record),
                                      ![t].id = i]
    <3>1. PICK i \in Ids :
            tasks' = [tasks EXCEPT ![t].pc = "sync", ![t].rec = Mirrored(record), ![t].id = i]
      BY <2>2
    <3> DEFINE m == Mirrored(record)
               r == [tasks[t] EXCEPT !.pc = "sync", !.rec = m, !.id = i]
    <3>2. m \in Record BY <1>2, MirroredTyped
    <3>3. tasks' = [tasks EXCEPT ![t] = r] BY <3>1, TasksTyped
    <3> HIDE DEF m
    <3>4. r \in Task /\ r.node = Node(t) /\ r.pc = "sync" BY <1>2, <3>2 DEF Task, PCs
    <3> HIDE DEF r
    <3> QED BY <1>2, <3>3, <3>4, SetProceeds DEF Creating
  <2>3. Mine(t).id \in Ids /\ tasks[t].id \in Ids BY <1>2 DEF Entry, Task
  <2>4. CASE tasks' = [tasks EXCEPT ![t].pc = "sync", ![t].rec = Mirrored(record),
                  ![t].id = IF tasks[t].kind = "drain" THEN Mine(t).id ELSE @]
    <3> DEFINE i == IF tasks[t].kind = "drain" THEN Mine(t).id ELSE tasks[t].id
    <3>1. i \in Ids BY <2>3
    <3>2. tasks' = [tasks EXCEPT ![t].pc = "sync", ![t].rec = Mirrored(record), ![t].id = i]
      BY <2>4, TasksTyped
    <3> HIDE DEF i
    <3> QED BY <2>2, <3>1, <3>2
  <2> QED BY <1>3, <2>1, <2>4 DEF Claim
<1>4. CASE Bump(t) BY <1>1, <1>4, EndProceeds, GotoProceeds DEF Bump, PCs, Creating
<1>5. CASE Mark(t)
  <2>1. CASE Goto(t, "recheck") BY <1>1, <2>1, GotoProceeds DEF PCs, Creating
  <2> QED BY <1>1, <1>5, <2>1, UnsentProceeds DEF Mark
<1>6. CASE Recheck(t)
  <2>1. PICK l \in {"retrySend", "release"} : Goto(t, l) BY <1>6 DEF Recheck
  <2>2. l \in PCs \ Creating BY DEF PCs, Creating
  <2> QED BY <1>1, <2>1, <2>2, GotoProceeds
<1>7. CASE RetrySend(t)
  <2>1. \/ LoadThen(t, "sync") \/ Goto(t, "bump") \/ End(t) \/ Goto(t, "release")
    BY <1>7 DEF RetrySend
  <2> QED BY <1>1, <2>1, LoadProceeds, GotoProceeds, EndProceeds DEF PCs, Creating
<1>8. CASE Release(t) BY <1>1, <1>8, UnsentProceeds DEF Release
<1>9. CASE DrainDelete(t) BY <1>9, EndProceeds DEF DrainDelete
<1> QED BY <1>3, <1>4, <1>5, <1>6, <1>7, <1>8, <1>9

LEMMA SettlementProceeds ==
  ASSUME TInv, DInv, NEW t \in Tasks,
         Advance(t) \/ Received(t) \/ RetireCheck(t) \/ RetireDelete(t) \/ SweepCheck(t)
         \/ StoreFails(t)
  PROVE  Proceeds(t)
<1>1. tasks[t].pc # "idle"
  BY DEF Advance, Received, RetireCheck, RetireDelete, SweepCheck, StoreFails, At
<1>2. /\ tasks[t] \in Task /\ Node(t) \in Nodes /\ tasks[t].node = Node(t)
      /\ record \in Record
  BY <1>1, Working DEF TInv, TypeOK
<1>3. ASSUME NEW m \in Record, NEW l \in PCs \ Creating,
             tasks' = [tasks EXCEPT ![t].pc = l, ![t].rec = m]
      PROVE  Proceeds(t)
  <2> DEFINE r == [tasks[t] EXCEPT !.pc = l, !.rec = m]
  <2>1. tasks' = [tasks EXCEPT ![t] = r] BY <1>3, TasksTyped
  <2>2. r \in Task /\ r.node = Node(t) /\ r.pc = l BY <1>2 DEF Task
  <2> HIDE DEF r
  <2> QED BY <1>2, <2>1, <2>2, SetProceeds
<1>4. CASE Advance(t)
  <2> DEFINE received == [record EXCEPT !.stage = "result", !.version = @ + 1, !.claimed = FALSE,
                                        !.leased = FALSE, !.dispatched = FALSE]
  <2>1. received \in Record
    <3> DEFINE v == record.version + 1
    <3>1. v \in Nat BY <1>2 DEF Record
    <3>2. received = [record EXCEPT !.stage = "result", !.version = v, !.claimed = FALSE,
                                    !.leased = FALSE, !.dispatched = FALSE]
      BY <1>2 DEF Record
    <3> HIDE DEF v, received
    <3> QED BY <1>2, <3>1, <3>2 DEF Record
  <2>2. Mirrored(record) \in Record BY <1>2, MirroredTyped
  <2>3. "received" \in PCs \ Creating /\ "sync" \in PCs \ Creating BY DEF PCs, Creating
  <2>4. \/ tasks' = [tasks EXCEPT ![t].pc = "received", ![t].rec = received]
        \/ tasks' = [tasks EXCEPT ![t].pc = "sync", ![t].rec = Mirrored(record)]
    BY <1>4 DEF Advance
  <2> HIDE DEF received
  <2> QED BY <1>3, <2>1, <2>2, <2>3, <2>4
<1>5. CASE Received(t) BY <1>5, EndProceeds DEF Received
<1>6. CASE RetireCheck(t)
  <2>1. Goto(t, "sync") \/ GoOn(t, "retireDelete") \/ End(t) BY <1>6 DEF RetireCheck
  <2> QED BY <1>1, <2>1, GotoProceeds, GoOnProceeds, EndProceeds DEF PCs, Creating
<1>7. CASE RetireDelete(t)
  BY <1>1, <1>7, GotoProceeds, LoadProceeds DEF RetireDelete, PCs, Creating
<1>8. CASE SweepCheck(t)
  BY <1>1, <1>8, GotoProceeds, EndProceeds DEF SweepCheck, PCs, Creating
<1>9. CASE StoreFails(t) BY <1>9, EndProceeds DEF StoreFails
<1> QED BY <1>4, <1>5, <1>6, <1>7, <1>8, <1>9

LEMMA StartsProceed ==
  ASSUME TInv, NEW t \in Tasks, NEW n \in Nodes,
         StartTimeout(t, n) \/ StartAck(t, n) \/ StartRetire(t, n) \/ StartSweep(t, n)
  PROVE  Proceeds(t)
<1>1. pending[n] \in Entry /\ pending[n].id \in Ids BY EntryTyped DEF Entry
<1>2. Idle \in Task BY IdlePlaced DEF Placed
<1>3. CASE StartTimeout(t, n)
  BY <1>1, <1>3, StartProceeds DEF StartTimeout, PCs, Kinds, Creating
<1>4. CASE StartAck(t, n)
  BY <1>1, <1>4, StartProceeds DEF StartAck, PCs, Kinds, Creating
<1>5. CASE StartRetire(t, n)
  <2> DEFINE e == pending[n]
             i == e.id
             r == [Idle EXCEPT !.pc = "load", !.then = "retireCheck", !.kind = "retire",
                               !.node = n, !.id = i, !.exp = e]
  <2>1. tasks' = [tasks EXCEPT ![t] = r] BY <1>5 DEF StartRetire
  <2>2. "load" \in PCs /\ "retireCheck" \in PCs /\ "retire" \in Kinds BY DEF PCs, Kinds
  <2>3. e \in Entry /\ i \in Ids BY <1>1
  <2> HIDE DEF e, i
  <2>4. r \in Task /\ r.node = n /\ r.pc = "load" BY <1>2, <2>2, <2>3 DEF Task
  <2> HIDE DEF r
  <2> QED BY <2>1, <2>4, SetProceeds DEF Creating
<1>6. CASE StartSweep(t, n)
  <2> DEFINE g == seed.gen
             r == [Idle EXCEPT !.pc = "sweepCheck", !.kind = "sweep", !.node = n, !.gen = g]
  <2>1. tasks' = [tasks EXCEPT ![t] = r] BY <1>6 DEF StartSweep
  <2>2. "sweepCheck" \in PCs /\ "sweep" \in Kinds BY DEF PCs, Kinds
  <2>3. g \in Gens BY DEF TInv, TypeOK
  <2> HIDE DEF g
  <2>4. r \in Task /\ r.node = n /\ r.pc = "sweepCheck" BY <1>2, <2>2, <2>3 DEF Task
  <2> HIDE DEF r
  <2> QED BY <2>1, <2>4, SetProceeds DEF Creating
<1> QED BY <1>3, <1>4, <1>5, <1>6

LEMMA StartForwardedProceeds ==
  ASSUME TInv, NEW t \in Tasks, NEW env \in envelopes, StartForwarded(t, env)
  PROVE  Proceeds(t)
<1>1. env.node \in Nodes /\ env.life \in Lives /\ env.attempt \in Attempts
  BY DEF TInv, TypeOK
<1> DEFINE n == env.node
           l == env.life
           a == env.attempt
           r == [Idle EXCEPT !.pc = "mark", !.kind = "forwarded", !.node = n, !.life = l,
                             !.attempt = a]
<1>2. tasks' = [tasks EXCEPT ![t] = r] BY DEF StartForwarded
<1>3. "mark" \in PCs /\ "forwarded" \in Kinds BY DEF PCs, Kinds
<1>4. Idle \in Task BY IdlePlaced DEF Placed
<1>5. n \in Nodes /\ l \in Lives /\ a \in Attempts BY <1>1
<1> HIDE DEF n, l, a
<1>6. r \in Task /\ r.node = n /\ r.pc = "mark" BY <1>3, <1>4, <1>5 DEF Task
<1> HIDE DEF r
<1> QED BY <1>2, <1>5, <1>6, SetProceeds DEF Creating

LEMMA StartDrainProceeds ==
  ASSUME TInv, NEW t \in Tasks, NEW n \in Nodes, StartDrain(t, n)
  PROVE  Proceeds(t)
<1>1. PICK x \in {record, NoRecord} :
        LET kind == DrainKind(x)
            drain == [Idle EXCEPT !.kind = kind, !.node = n]
        IN
        \/ tasks' = [tasks EXCEPT ![t] = [drain EXCEPT !.pc = "drainDelete"]]
        \/ tasks' = [tasks EXCEPT ![t] = [Resumed(drain, x) EXCEPT
                                            !.pc = "load", !.then = "recover"]]
        \/ tasks' = [tasks EXCEPT ![t] = [Resumed(drain, x) EXCEPT
                       !.pc = IF kind = "resume" THEN "mark" ELSE "claim"]]
  BY DEF StartDrain
<1> DEFINE kind == DrainKind(x)
           drain == [Idle EXCEPT !.kind = kind, !.node = n]
           resumed == Resumed(drain, x)
<1>2. Idle \in Task BY IdlePlaced DEF Placed
<1>3. kind \in Kinds BY DEF DrainKind, Kinds
<1>4. x \in Record /\ x.life \in Lives /\ x.attempt \in Attempts
  <2>1. x \in Record BY ReadTyped
  <2> QED BY <2>1 DEF Record
<1> HIDE DEF kind
<1>5. drain \in Task /\ drain.node = n BY <1>2, <1>3 DEF Task
<1>6. \/ tasks' = [tasks EXCEPT ![t] = [drain EXCEPT !.pc = "drainDelete"]]
      \/ tasks' = [tasks EXCEPT ![t] = [resumed EXCEPT !.pc = "load", !.then = "recover"]]
      \/ tasks' = [tasks EXCEPT ![t] = [resumed EXCEPT !.pc = "mark"]]
      \/ tasks' = [tasks EXCEPT ![t] = [resumed EXCEPT !.pc = "claim"]]
  BY <1>1 DEF kind
<1> HIDE DEF drain
<1>7. resumed \in Task /\ resumed.node = n BY <1>4, <1>5 DEF Resumed, Task
<1> HIDE DEF resumed
<1>8. ASSUME NEW d \in Task, d.node = n, NEW l \in PCs \ Creating,
             tasks' = [tasks EXCEPT ![t] = [d EXCEPT !.pc = l]]
      PROVE  Proceeds(t)
  <2> DEFINE r == [d EXCEPT !.pc = l]
  <2>1. r \in Task /\ r.node = n /\ r.pc = l BY <1>8 DEF Task
  <2>2. tasks' = [tasks EXCEPT ![t] = r] BY <1>8
  <2> HIDE DEF r
  <2> QED BY <2>1, <2>2, SetProceeds
<1>9. CASE tasks' = [tasks EXCEPT ![t] = [resumed EXCEPT !.pc = "load", !.then = "recover"]]
  <2> DEFINE r == [resumed EXCEPT !.pc = "load", !.then = "recover"]
  <2>1. "load" \in PCs /\ "recover" \in PCs BY DEF PCs
  <2>2. r \in Task /\ r.node = n /\ r.pc = "load" BY <1>7, <2>1 DEF Task
  <2>3. tasks' = [tasks EXCEPT ![t] = r] BY <1>9
  <2> HIDE DEF r
  <2> QED BY <2>2, <2>3, SetProceeds DEF Creating
<1>10. {"drainDelete", "mark", "claim"} \subseteq PCs \ Creating BY DEF PCs, Creating
<1> QED BY <1>5, <1>6, <1>7, <1>8, <1>9, <1>10

-----------------------------------------------------------------------------
(* Types: the counts                                                         *)

\* The book goes on without counting a dispatch, a seed or a record.
BookGoesOn ==
  \E owed \in BOOLEAN, erased \in BOOLEAN, faults \in 0..MaxFaults :
    book' = [owed |-> owed, erased |-> erased, pushes |-> book.pushes,
             gens |-> book.gens, lives |-> book.lives, faults |-> faults]

\* What the counts and the goroutines are after a step.
Counted ==
  /\ tasks' \in [Tasks -> Task]
  /\ \A t \in Tasks : Placed(tasks'[t])
  /\ book' \in [owed : BOOLEAN, erased : BOOLEAN, pushes : 0..MaxPushes, gens : Gens,
                lives : Lives, faults : 0..MaxFaults]
  /\ book'.gens + HowMany(tasks', Seeding) <= book'.pushes
  /\ book'.lives + HowMany(tasks', Creating) <= book'.pushes

LEMMA BookKept ==
  ASSUME TInv, NEW t \in Tasks,
         \/ book' = book \/ Fault \/ book' = PushFailed(t) \/ CallFails(t)
         \/ book' = [book EXCEPT !.erased = @ \/ record.stage # "none"]
  PROVE  BookGoesOn
<1>1. book \in [owed : BOOLEAN, erased : BOOLEAN, pushes : 0..MaxPushes, gens : Gens,
                lives : Lives, faults : 0..MaxFaults]
  BY DEF TInv, TypeOK
<1>2. MaxFaults \in Nat BY ConstantsAssumption
<1>3. book.faults < MaxFaults => book.faults + 1 \in 0..MaxFaults BY <1>1, <1>2
<1> DEFINE Is(owed, erased, faults) ==
      book' = [owed |-> owed, erased |-> erased, pushes |-> book.pushes,
               gens |-> book.gens, lives |-> book.lives, faults |-> faults]
<1>4. CASE book' = book
  <2>1. Is(book.owed, book.erased, book.faults) BY <1>1, <1>4
  <2> QED BY <1>1, <2>1 DEF BookGoesOn
<1>5. CASE Fault
  <2>1. Is(book.owed, book.erased, book.faults + 1) BY <1>1, <1>5 DEF Fault
  <2> QED BY <1>1, <1>3, <1>5, <2>1 DEF BookGoesOn, Fault
<1>6. CASE book' = PushFailed(t)
  <2>1. Is(TRUE, book.erased, book.faults) \/ Is(book.owed, book.erased, book.faults)
    BY <1>1, <1>6 DEF PushFailed
  <2> QED BY <1>1, <2>1 DEF BookGoesOn
<1>7. CASE CallFails(t)
  <2>1. Is(TRUE, book.erased, book.faults + 1) \/ Is(book.owed, book.erased, book.faults + 1)
    BY <1>1, <1>7 DEF CallFails, PushFailed
  <2> QED BY <1>1, <1>3, <1>7, <2>1 DEF BookGoesOn, CallFails
<1>8. CASE book' = [book EXCEPT !.erased = @ \/ record.stage # "none"]
  <2> DEFINE erased == book.erased \/ record.stage # "none"
  <2>1. erased \in BOOLEAN OBVIOUS
  <2>2. book' = [book EXCEPT !.erased = erased] BY <1>1, <1>8
  <2> HIDE DEF erased
  <2>3. Is(book.owed, erased, book.faults) BY <1>1, <2>2
  <2> QED BY <1>1, <2>1, <2>3 DEF BookGoesOn
<1> QED BY <1>4, <1>5, <1>6, <1>7, <1>8

\* Placed goroutines and counts within the number of dispatches.
LEMMA CountsWithin ==
  ASSUME TInv, NEW gens \in Nat, NEW lives \in Nat, NEW pushes \in 0..MaxPushes,
         NEW owed \in BOOLEAN, NEW erased \in BOOLEAN, NEW faults \in 0..MaxFaults,
         book' = [owed |-> owed, erased |-> erased, pushes |-> pushes, gens |-> gens,
                  lives |-> lives, faults |-> faults],
         DOMAIN tasks' = Tasks, tasks' = [t \in Tasks |-> tasks'[t]],
         \A t \in Tasks : Placed(tasks'[t]),
         gens + HowMany(tasks', Seeding) <= pushes,
         lives + HowMany(tasks', Creating) <= pushes
  PROVE  Counted
<1>1. tasks' \in [Tasks -> Task] BY DEF Placed
<1>2. HowMany(tasks', Seeding) \in Nat /\ HowMany(tasks', Creating) \in Nat BY HowManyType
<1>3. MaxPushes \in Nat BY ConstantsAssumption
<1>4. gens \in Gens /\ lives \in Lives BY <1>2, <1>3 DEF Gens, Lives
<1> QED BY <1>1, <1>4 DEF Counted

LEMMA ProceedsCounted ==
  ASSUME TInv, NEW t \in Tasks, Proceeds(t), BookGoesOn
  PROVE  Counted
<1>1. PICK r : tasks' = [tasks EXCEPT ![t] = r] /\ Placed(r) /\ r.pc \notin Creating
  BY DEF Proceeds
<1>2. tasks \in [Tasks -> Task] /\ \A s \in Tasks : Placed(tasks[s]) BY DEF TInv, TypeOK
<1>3. DOMAIN tasks' = Tasks /\ tasks' = [s \in Tasks |-> tasks'[s]] BY <1>1, <1>2
<1>4. \A s \in Tasks : tasks'[s] = IF s = t THEN r ELSE tasks[s] BY <1>1, <1>2
<1>5. \A s \in Tasks : Placed(tasks'[s]) BY <1>1, <1>2, <1>4
<1>6. HowMany(tasks', Seeding) <= HowMany(tasks, Seeding)
  <2>1. \A s \in Tasks : tasks'[s].pc \in Seeding => tasks[s].pc \in Seeding
    BY <1>1, <1>4 DEF Seeding, Creating
  <2> QED BY <2>1, FewerStay
<1>7. HowMany(tasks', Creating) <= HowMany(tasks, Creating)
  <2>1. \A s \in Tasks : tasks'[s].pc \in Creating => tasks[s].pc \in Creating
    BY <1>1, <1>4
  <2> QED BY <2>1, FewerStay
<1>8. PICK owed \in BOOLEAN, erased \in BOOLEAN, faults \in 0..MaxFaults :
        book' = [owed |-> owed, erased |-> erased, pushes |-> book.pushes,
                 gens |-> book.gens, lives |-> book.lives, faults |-> faults]
  BY DEF BookGoesOn
<1>9. book \in [owed : BOOLEAN, erased : BOOLEAN, pushes : 0..MaxPushes, gens : Gens,
                lives : Lives, faults : 0..MaxFaults]
  BY DEF TInv, TypeOK
<1>11. /\ HowMany(tasks, Seeding) \in Nat /\ HowMany(tasks, Creating) \in Nat
       /\ HowMany(tasks', Seeding) \in Nat /\ HowMany(tasks', Creating) \in Nat
  BY HowManyType
<1>12. book.gens \in Nat /\ book.lives \in Nat /\ book.pushes \in 0..MaxPushes
  BY <1>9 DEF Gens, Lives
<1>13. /\ book.gens + HowMany(tasks', Seeding) <= book.pushes
       /\ book.lives + HowMany(tasks', Creating) <= book.pushes
  BY <1>6, <1>7, <1>11, <1>12 DEF TInv
<1> QED BY <1>3, <1>5, <1>8, <1>12, <1>13, CountsWithin

\* One goroutine steps from a place that counts.
LEMMA OneCounted ==
  ASSUME TInv, NEW t \in Tasks, NEW r \in Task, r.node \in Nodes,
         tasks' = [tasks EXCEPT ![t] = r],
         NEW owed \in BOOLEAN, NEW pushes \in 0..MaxPushes, NEW gens \in Nat, NEW lives \in Nat,
         book' = [owed |-> owed, erased |-> book.erased, pushes |-> pushes, gens |-> gens,
                  lives |-> lives, faults |-> book.faults],
         gens + HowMany(tasks', Seeding) <= pushes,
         lives + HowMany(tasks', Creating) <= pushes
  PROVE  Counted
<1>1. tasks \in [Tasks -> Task] /\ \A s \in Tasks : Placed(tasks[s]) BY DEF TInv, TypeOK
<1>2. DOMAIN tasks' = Tasks /\ tasks' = [s \in Tasks |-> tasks'[s]] BY <1>1
<1>3. \A s \in Tasks : Placed(tasks'[s])
  <2>1. Placed(r) BY DEF Placed
  <2>2. \A s \in Tasks : tasks'[s] = IF s = t THEN r ELSE tasks[s] BY <1>1
  <2> QED BY <1>1, <2>1, <2>2
<1>4. book.erased \in BOOLEAN /\ book.faults \in 0..MaxFaults BY DEF TInv, TypeOK
<1> QED BY <1>2, <1>3, <1>4, CountsWithin

LEMMA Amounts ==
  ASSUME TInv
  PROVE  /\ HowMany(tasks, Seeding) \in Nat /\ HowMany(tasks, Creating) \in Nat
         /\ HowMany(tasks', Seeding) \in Nat /\ HowMany(tasks', Creating) \in Nat
         /\ book.pushes \in 0..MaxPushes /\ book.gens \in Nat /\ book.lives \in Nat
         /\ book.owed \in BOOLEAN /\ MaxPushes \in Nat
         /\ book = [owed |-> book.owed, erased |-> book.erased, pushes |-> book.pushes,
                    gens |-> book.gens, lives |-> book.lives, faults |-> book.faults]
<1>1. book \in [owed : BOOLEAN, erased : BOOLEAN, pushes : 0..MaxPushes, gens : Gens,
                lives : Lives, faults : 0..MaxFaults]
  BY DEF TInv, TypeOK
<1>2. /\ HowMany(tasks, Seeding) \in Nat /\ HowMany(tasks, Creating) \in Nat
      /\ HowMany(tasks', Seeding) \in Nat /\ HowMany(tasks', Creating) \in Nat
  BY HowManyType
<1>3. MaxPushes \in Nat BY ConstantsAssumption
<1>4. /\ book.pushes \in 0..MaxPushes /\ book.gens \in Nat /\ book.lives \in Nat
      /\ book.owed \in BOOLEAN
  BY <1>1, <1>3 DEF Gens, Lives
<1>5. book = [owed |-> book.owed, erased |-> book.erased, pushes |-> book.pushes,
              gens |-> book.gens, lives |-> book.lives, faults |-> book.faults]
  BY <1>1
<1> QED BY <1>2, <1>3, <1>4, <1>5

LEMMA StartPushCounted ==
  ASSUME TInv, NEW t \in Tasks, NEW n \in Nodes, StartPush(t, n)
  PROVE  Counted
<1> DEFINE r == [Idle EXCEPT !.pc = "seed", !.kind = "push", !.node = n]
<1>1. tasks' = [tasks EXCEPT ![t] = r] /\ book.pushes < MaxPushes BY DEF StartPush, Start
<1>2. Idle \in Task BY IdlePlaced DEF Placed
<1>3. "seed" \in PCs /\ "push" \in Kinds BY DEF PCs, Kinds
<1>4. r \in Task /\ r.node = n BY <1>2, <1>3 DEF Task
<1> HIDE DEF r
<1>5. \A s \in Tasks : s # t => tasks'[s] = tasks[s] BY <1>1, TasksTyped
<1>6. /\ HowMany(tasks', Seeding) <= HowMany(tasks, Seeding) + 1
      /\ HowMany(tasks', Creating) <= HowMany(tasks, Creating) + 1
  BY <1>5, OneEnters
<1>7. book.pushes + 1 \in 0..MaxPushes BY <1>1, Amounts
<1>8. /\ book.gens + HowMany(tasks', Seeding) <= book.pushes + 1
      /\ book.lives + HowMany(tasks', Creating) <= book.pushes + 1
  <2>1. /\ book.gens + HowMany(tasks, Seeding) <= book.pushes
        /\ book.lives + HowMany(tasks, Creating) <= book.pushes
    BY DEF TInv
  <2> QED BY <1>6, <2>1, Amounts
<1>9. book' = [owed |-> FALSE, erased |-> book.erased, pushes |-> book.pushes + 1,
               gens |-> book.gens, lives |-> book.lives, faults |-> book.faults]
  <2>1. book' = [book EXCEPT !.pushes = @ + 1, !.owed = FALSE] BY DEF StartPush
  <2> QED BY <2>1, Amounts
<1> QED BY <1>1, <1>4, <1>7, <1>8, <1>9, Amounts, OneCounted

LEMMA SeedCounted ==
  ASSUME TInv, NEW t \in Tasks, Seed(t)
  PROVE  Counted
<1>1. tasks[t].pc = "seed" BY DEF Seed, At
<1>2. tasks[t] \in Task /\ Node(t) \in Nodes /\ tasks[t].node = Node(t) BY <1>1, Working
<1>3. /\ book.gens + HowMany(tasks, Seeding) <= book.pushes
      /\ book.lives + HowMany(tasks, Creating) <= book.pushes
  BY DEF TInv
<1>4. ASSUME NEW r \in Task, r.node \in Nodes, r.pc \in {"adopt", "create"},
             tasks' = [tasks EXCEPT ![t] = r]
      PROVE  /\ HowMany(tasks', Seeding) = HowMany(tasks, Seeding) - 1
             /\ HowMany(tasks', Creating) <= HowMany(tasks, Creating)
  <2>1. /\ \A s \in Tasks : s # t => tasks'[s] = tasks[s]
        /\ tasks'[t] = r
    BY <1>4, TasksTyped
  <2>2. HowMany(tasks', Seeding) = HowMany(tasks, Seeding) - 1
    <3>1. tasks[t].pc \in Seeding /\ tasks'[t].pc \notin Seeding
      BY <1>1, <1>4, <2>1 DEF Seeding
    <3> QED BY <2>1, <3>1, OneLeaves
  <2>3. \A s \in Tasks : tasks'[s].pc \in Creating => tasks[s].pc \in Creating
    BY <1>1, <2>1 DEF Creating
  <2> QED BY <2>2, <2>3, FewerStay
<1>5. CASE End(t) /\ UNCHANGED book BY <1>5, EndProceeds, BookKept, ProceedsCounted
<1>6. CASE /\ tasks' = [tasks EXCEPT ![t].pc = "adopt", ![t].gen = seed.gen]
           /\ UNCHANGED book
  <2> DEFINE g == seed.gen
             r == [tasks[t] EXCEPT !.pc = "adopt", !.gen = g]
  <2>1. tasks' = [tasks EXCEPT ![t] = r] BY <1>6, TasksTyped
  <2>2. g \in Gens /\ "adopt" \in PCs BY DEF TInv, TypeOK, PCs
  <2> HIDE DEF g
  <2>3. r \in Task /\ r.node \in Nodes /\ r.pc = "adopt" BY <1>2, <2>2 DEF Task
  <2> HIDE DEF r
  <2>4. /\ HowMany(tasks', Seeding) = HowMany(tasks, Seeding) - 1
        /\ HowMany(tasks', Creating) <= HowMany(tasks, Creating)
    BY <1>4, <2>1, <2>3
  <2>5. /\ book.gens + HowMany(tasks', Seeding) <= book.pushes
        /\ book.lives + HowMany(tasks', Creating) <= book.pushes
    BY <1>3, <2>4, Amounts
  <2>6. book' = [owed |-> book.owed, erased |-> book.erased, pushes |-> book.pushes,
                 gens |-> book.gens, lives |-> book.lives, faults |-> book.faults]
    BY <1>6, Amounts
  <2> QED BY <2>1, <2>3, <2>5, <2>6, Amounts, OneCounted
<1>7. CASE /\ book' = [book EXCEPT !.gens = @ + 1]
           /\ tasks' = [tasks EXCEPT ![t].pc = "create", ![t].gen = book.gens + 1,
                                     ![t].created = TRUE]
  <2> DEFINE g == book.gens + 1
             r == [tasks[t] EXCEPT !.pc = "create", !.gen = g, !.created = TRUE]
  <2>1. tasks' = [tasks EXCEPT ![t] = r] BY <1>7, TasksTyped
  <2>2. HowMany(tasks, Seeding) >= 1
    <3> DEFINE seeding == {s \in Tasks : tasks[s].pc \in Seeding}
    <3>1. t \in seeding BY <1>1 DEF Seeding
    <3>2. IsFiniteSet(seeding) BY HowManyType
    <3> HIDE DEF seeding
    <3>3. seeding # {} BY <3>1
    <3>4. Cardinality(seeding) # 0 BY <3>2, <3>3, FS_EmptySet
    <3> QED BY <3>4, Amounts DEF HowMany, seeding
  <2>3. g \in Gens /\ "create" \in PCs BY <1>3, <2>2, Amounts DEF PCs, Gens
  <2> HIDE DEF g
  <2>4. r \in Task /\ r.node \in Nodes /\ r.pc = "create" BY <1>2, <2>3 DEF Task
  <2> HIDE DEF r
  <2>5. /\ HowMany(tasks', Seeding) = HowMany(tasks, Seeding) - 1
        /\ HowMany(tasks', Creating) <= HowMany(tasks, Creating)
    BY <1>4, <2>1, <2>4
  <2>6. /\ book.gens + 1 + HowMany(tasks', Seeding) <= book.pushes
        /\ book.lives + HowMany(tasks', Creating) <= book.pushes
    BY <1>3, <2>5, Amounts
  <2>7. book' = [owed |-> book.owed, erased |-> book.erased, pushes |-> book.pushes,
                 gens |-> book.gens + 1, lives |-> book.lives, faults |-> book.faults]
    BY <1>7, Amounts
  <2>8. book.gens + 1 \in Nat BY Amounts
  <2> QED BY <2>1, <2>4, <2>6, <2>7, <2>8, Amounts, OneCounted
<1> QED BY <1>5, <1>6, <1>7 DEF Seed

LEMMA AdoptCounted ==
  ASSUME TInv, NEW t \in Tasks, Adopt(t)
  PROVE  Counted
<1>1. tasks[t].pc = "adopt" BY DEF Adopt, At
<1>2. tasks[t] \in Task /\ Node(t) \in Nodes /\ tasks[t].node = Node(t) BY <1>1, Working
<1>3. BookGoesOn
  <2>1. book' = book \/ Fault BY DEF Adopt, Loads
  <2> QED BY <2>1, BookKept
<1>4. CASE LoadThen(t, "recover")
  BY <1>1, <1>3, <1>4, LoadProceeds, ProceedsCounted DEF PCs
<1>5. CASE Goto(t, "create")
  <2> DEFINE r == [tasks[t] EXCEPT !.pc = "create"]
  <2>1. tasks' = [tasks EXCEPT ![t] = r] BY <1>5, TasksTyped DEF Goto
  <2>2. "create" \in PCs BY DEF PCs
  <2>3. r \in Task /\ r.node \in Nodes /\ r.pc = "create" BY <1>2, <2>2 DEF Task
  <2> HIDE DEF r
  <2>4. tasks'[t] = r /\ \A s \in Tasks : s # t => tasks'[s] = tasks[s]
    BY <2>1, TasksTyped
  <2>5. HowMany(tasks', Seeding) <= HowMany(tasks, Seeding)
    <3>1. \A s \in Tasks : tasks'[s].pc \in Seeding => tasks[s].pc \in Seeding
      BY <2>3, <2>4 DEF Seeding
    <3> QED BY <3>1, FewerStay
  <2>6. HowMany(tasks', Creating) <= HowMany(tasks, Creating)
    <3>1. \A s \in Tasks : tasks'[s].pc \in Creating => tasks[s].pc \in Creating
      BY <1>1, <2>4 DEF Creating
    <3> QED BY <3>1, FewerStay
  <2>7. PICK owed \in BOOLEAN, erased \in BOOLEAN, faults \in 0..MaxFaults :
          book' = [owed |-> owed, erased |-> erased, pushes |-> book.pushes,
                   gens |-> book.gens, lives |-> book.lives, faults |-> faults]
    BY <1>3 DEF BookGoesOn
  <2>8. /\ book.gens + HowMany(tasks', Seeding) <= book.pushes
        /\ book.lives + HowMany(tasks', Creating) <= book.pushes
    <3>1. /\ book.gens + HowMany(tasks, Seeding) <= book.pushes
          /\ book.lives + HowMany(tasks, Creating) <= book.pushes
      BY DEF TInv
    <3> QED BY <2>5, <2>6, <3>1, Amounts
  <2>9. \A s \in Tasks : Placed(tasks'[s]) BY <2>3, <2>4 DEF TInv, Placed
  <2>10. DOMAIN tasks' = Tasks /\ tasks' = [s \in Tasks |-> tasks'[s]] BY <2>1, TasksTyped
  <2> QED BY <2>7, <2>8, <2>9, <2>10, Amounts, CountsWithin
<1> QED BY <1>4, <1>5 DEF Adopt

LEMMA CreateCounted ==
  ASSUME TInv, NEW t \in Tasks, Create(t)
  PROVE  Counted
<1>1. tasks[t].pc = "create" BY DEF Create, At
<1>2. tasks[t] \in Task /\ Node(t) \in Nodes /\ tasks[t].node = Node(t) BY <1>1, Working
<1>3. CASE LoadThen(t, "recover") /\ UNCHANGED book
  BY <1>1, <1>3, LoadProceeds, BookKept, ProceedsCounted DEF PCs
<1>4. CASE CallFails(t) /\ (Goto(t, "deleteSeed") \/ End(t))
  BY <1>1, <1>4, GotoProceeds, EndProceeds, BookKept, ProceedsCounted DEF PCs, Creating
<1>5. CASE /\ book' = [book EXCEPT !.lives = @ + 1]
           /\ tasks' = [tasks EXCEPT ![t].pc = "track", ![t].life = book.lives + 1]
  <2> DEFINE l == book.lives + 1
             r == [tasks[t] EXCEPT !.pc = "track", !.life = l]
  <2>1. tasks' = [tasks EXCEPT ![t] = r] BY <1>5, TasksTyped
  <2>2. /\ book.gens + HowMany(tasks, Seeding) <= book.pushes
        /\ book.lives + HowMany(tasks, Creating) <= book.pushes
    BY DEF TInv
  <2>3. HowMany(tasks, Creating) >= 1
    <3> DEFINE creating == {s \in Tasks : tasks[s].pc \in Creating}
    <3>1. t \in creating BY <1>1 DEF Creating
    <3>2. IsFiniteSet(creating) BY HowManyType
    <3> HIDE DEF creating
    <3>3. creating # {} BY <3>1
    <3>4. Cardinality(creating) # 0 BY <3>2, <3>3, FS_EmptySet
    <3> QED BY <3>4, Amounts DEF HowMany, creating
  <2>4. l \in Lives /\ "track" \in PCs BY <2>2, <2>3, Amounts DEF PCs, Lives
  <2> HIDE DEF l
  <2>5. r \in Task /\ r.node \in Nodes /\ r.pc = "track" BY <1>2, <2>4 DEF Task
  <2> HIDE DEF r
  <2>6. tasks'[t] = r /\ \A s \in Tasks : s # t => tasks'[s] = tasks[s]
    BY <2>1, TasksTyped
  <2>7. HowMany(tasks', Seeding) <= HowMany(tasks, Seeding)
    <3>1. \A s \in Tasks : tasks'[s].pc \in Seeding => tasks[s].pc \in Seeding
      BY <2>5, <2>6 DEF Seeding
    <3> QED BY <3>1, FewerStay
  <2>8. HowMany(tasks', Creating) = HowMany(tasks, Creating) - 1
    <3>1. tasks[t].pc \in Creating /\ tasks'[t].pc \notin Creating
      BY <1>1, <2>5, <2>6 DEF Creating
    <3> QED BY <2>6, <3>1, OneLeaves
  <2>9. /\ book.gens + HowMany(tasks', Seeding) <= book.pushes
        /\ book.lives + 1 + HowMany(tasks', Creating) <= book.pushes
    BY <2>2, <2>7, <2>8, Amounts
  <2>10. book' = [owed |-> book.owed, erased |-> book.erased, pushes |-> book.pushes,
                  gens |-> book.gens, lives |-> book.lives + 1, faults |-> book.faults]
    BY <1>5, Amounts
  <2>11. book.lives + 1 \in Nat BY Amounts
  <2> QED BY <2>1, <2>5, <2>9, <2>10, <2>11, Amounts, OneCounted
<1> QED BY <1>3, <1>4, <1>5 DEF Create

LEMMA CrashCounted ==
  ASSUME TInv, NEW n \in Nodes, Crash(n)
  PROVE  Counted
<1>1. tasks' = [t \in Tasks |-> IF t \in {s \in Tasks : Node(s) = n} THEN Idle ELSE tasks[t]]
  BY DEF Crash
<1>2. \A t \in Tasks : tasks'[t] = Idle \/ tasks'[t] = tasks[t] BY <1>1
<1>3. \A t \in Tasks : Placed(tasks'[t]) BY <1>2, IdlePlaced DEF TInv
<1>4. ASSUME NEW places, "idle" \notin places
      PROVE  HowMany(tasks', places) <= HowMany(tasks, places)
  <2>1. \A t \in Tasks : tasks'[t].pc \in places => tasks[t].pc \in places
    BY <1>2, <1>4 DEF Idle
  <2> QED BY <2>1, FewerStay
<1>5. /\ HowMany(tasks', Seeding) <= HowMany(tasks, Seeding)
      /\ HowMany(tasks', Creating) <= HowMany(tasks, Creating)
  BY <1>4 DEF Seeding, Creating
<1>6. /\ book.gens + HowMany(tasks', Seeding) <= book.pushes
      /\ book.lives + HowMany(tasks', Creating) <= book.pushes
  <2>1. /\ book.gens + HowMany(tasks, Seeding) <= book.pushes
        /\ book.lives + HowMany(tasks, Creating) <= book.pushes
    BY DEF TInv
  <2> QED BY <1>5, <2>1, Amounts
<1> DEFINE owed == book.owed \/ \E t \in {s \in Tasks : Node(s) = n} : tasks[t].kind = "push"
<1>7. book' = [book EXCEPT !.faults = @ + 1, !.owed = owed] BY Amounts DEF Crash
<1>8. owed \in BOOLEAN OBVIOUS
<1> HIDE DEF owed
<1>9. book' = [owed |-> owed, erased |-> book.erased, pushes |-> book.pushes,
               gens |-> book.gens, lives |-> book.lives, faults |-> book.faults + 1]
  BY <1>7, Amounts
<1>10. book.faults + 1 \in 0..MaxFaults /\ book.erased \in BOOLEAN
  BY ConstantsAssumption DEF Crash, TInv, TypeOK
<1> QED BY <1>1, <1>3, <1>6, <1>8, <1>9, <1>10, Amounts, CountsWithin

LEMMA RestCounted ==
  ASSUME TInv, tasks' = tasks, book' = book \/ Fault
  PROVE  Counted
<1>1. PICK owed \in BOOLEAN, erased \in BOOLEAN, faults \in 0..MaxFaults :
        book' = [owed |-> owed, erased |-> erased, pushes |-> book.pushes,
                 gens |-> book.gens, lives |-> book.lives, faults |-> faults]
  <2>1. MaxFaults \in Nat BY ConstantsAssumption
  <2>2. /\ book.erased \in BOOLEAN /\ book.faults \in 0..MaxFaults
    BY DEF TInv, TypeOK
  <2>3. book.faults < MaxFaults => book.faults + 1 \in 0..MaxFaults BY <2>1, <2>2
  <2>4. CASE book' = book BY <2>2, <2>4, Amounts
  <2>5. CASE Fault
    <3>1. book' = [owed |-> book.owed, erased |-> book.erased, pushes |-> book.pushes,
                   gens |-> book.gens, lives |-> book.lives, faults |-> book.faults + 1]
      BY <2>5, Amounts DEF Fault
    <3> QED BY <2>2, <2>3, <2>5, <3>1, Amounts DEF Fault
  <2> QED BY <2>4, <2>5
<1>2. /\ \A t \in Tasks : Placed(tasks'[t])
      /\ book.gens + HowMany(tasks', Seeding) <= book.pushes
      /\ book.lives + HowMany(tasks', Creating) <= book.pushes
  BY DEF TInv
<1>3. DOMAIN tasks' = Tasks /\ tasks' = [t \in Tasks |-> tasks'[t]] BY TasksTyped
<1> QED BY <1>1, <1>2, <1>3, Amounts, CountsWithin

LEMMA StepsCounted == ASSUME TInv, DInv, [Next]_vars PROVE Counted
<1>1. ASSUME NEW t \in Tasks, TaskStep(t) \/ StoreFails(t) PROVE Counted
  <2>1. CASE Seed(t) BY <2>1, SeedCounted
  <2>2. CASE Adopt(t) BY <2>2, AdoptCounted
  <2>3. CASE Create(t) BY <2>3, CreateCounted
  <2>4. CASE Track(t) \/ Send(t) \/ Rollback(t) \/ RollbackDelete(t) \/ Unindex(t)
             \/ RollbackDrop(t) \/ DeleteSeed(t)
    <3>1. Proceeds(t) BY <2>4, DispatchProceeds
    <3>2. book' = book \/ Fault \/ book' = PushFailed(t)
      BY <2>4 DEF Track, Send, Sends, SendFails, Rollback, RollbackDelete, Unindex,
                  RollbackDrop, DeleteSeed
    <3> QED BY <3>1, <3>2, BookKept, ProceedsCounted
  <2>5. CASE Load(t) \/ Sync(t) \/ Recover(t)
    <3>1. Proceeds(t) BY <2>5, ReadsProceed
    <3>2. book' = book \/ Fault \/ book' = PushFailed(t)
      BY <2>5 DEF Load, Loads, Sync, Recover
    <3> QED BY <3>1, <3>2, BookKept, ProceedsCounted
  <2>6. CASE Claim(t) \/ Bump(t) \/ Mark(t) \/ Recheck(t) \/ RetrySend(t) \/ Release(t)
             \/ DrainDelete(t)
    <3>1. Proceeds(t) BY <2>6, RetriesProceed
    <3>2. \/ book' = book \/ Fault
          \/ book' = [book EXCEPT !.erased = @ \/ record.stage # "none"]
      BY <2>6 DEF Claim, Bump, Mark, Recheck, Loads, RetrySend, Sends, SendFails, Release,
                  DrainDelete
    <3> QED BY <3>1, <3>2, BookKept, ProceedsCounted
  <2>7. CASE Advance(t) \/ Received(t) \/ RetireCheck(t) \/ RetireDelete(t) \/ SweepCheck(t)
             \/ StoreFails(t)
    <3>1. Proceeds(t) BY <2>7, SettlementProceeds
    <3>2. book' = book \/ CallFails(t)
      BY <2>7 DEF Advance, Received, RetireCheck, RetireDelete, SweepCheck, StoreFails
    <3> QED BY <3>1, <3>2, BookKept, ProceedsCounted
  <2> QED BY <1>1, <2>1, <2>2, <2>3, <2>4, <2>5, <2>6, <2>7 DEF TaskStep
<1>2. ASSUME NEW t \in Tasks, NEW n \in Nodes,
             \/ StartTimeout(t, n) \/ StartDrain(t, n) \/ StartAck(t, n)
             \/ StartRetire(t, n) \/ StartSweep(t, n)
      PROVE  Counted
  <2>1. Proceeds(t) BY <1>2, StartsProceed, StartDrainProceeds
  <2>2. book' = book \/ Fault
    BY <1>2 DEF StartTimeout, StartDrain, Loads, StartAck, StartRetire, StartSweep
  <2> QED BY <2>1, <2>2, BookKept, ProceedsCounted
<1>3. ASSUME NEW t \in Tasks, NEW env \in envelopes, StartForwarded(t, env) PROVE Counted
  <2>1. Proceeds(t) /\ book' = book BY <1>3, StartForwardedProceeds DEF StartForwarded
  <2> QED BY <2>1, BookKept, ProceedsCounted
<1>4. ASSUME NEW n \in Nodes, Freeze(n) \/ Expire(n) \/ Reconnect(n) PROVE Counted
  BY <1>4, RestCounted DEF Freeze, Expire, Reconnect
<1>5. CASE Close \/ SeedAges \/ LeaseExpires \/ UNCHANGED vars
  BY <1>5, RestCounted DEF Close, SeedAges, LeaseExpires, vars
<1> QED BY <1>1, <1>2, <1>3, <1>4, <1>5, StartPushCounted, CrashCounted DEF Next

-----------------------------------------------------------------------------
(* Types: the stores                                                         *)

Seeds == [status : {"absent", "pending", "frozen"}, gen : Gens, old : BOOLEAN]
Wires == [sent : SUBSET (Lives \X Attempts), twice : BOOLEAN, received : Lives]
Envelopes == [node : Nodes, life : Lives, attempt : Attempts]

\* What is typed after a step besides goroutines and book.
Stored ==
  /\ seed' \in Seeds /\ record' \in Record /\ pending' \in [Nodes -> Entry]
  /\ conn' \in Nodes \cup {NoNode} /\ index' \in BOOLEAN
  /\ envelopes' \subseteq Envelopes /\ wire' \in Wires

LEMMA StoresTyped ==
  ASSUME TInv
  PROVE  /\ seed \in Seeds /\ record \in Record /\ pending \in [Nodes -> Entry]
         /\ conn \in Nodes \cup {NoNode} /\ index \in BOOLEAN
         /\ envelopes \subseteq Envelopes /\ wire \in Wires
BY DEF TInv, TypeOK, Seeds, Wires, Envelopes

LEMMA PutTyped ==
  ASSUME TInv, NEW n \in Nodes, NEW e \in Entry, pending' = [pending EXCEPT ![n] = e]
  PROVE  pending' \in [Nodes -> Entry]
BY StoresTyped

LEMMA TokenTyped ==
  ASSUME TInv, NEW t \in Tasks
  PROVE  /\ tasks[t].life \in Lives /\ tasks[t].attempt \in Attempts /\ tasks[t].gen \in Gens
         /\ tasks[t].created \in BOOLEAN /\ tasks[t].id \in Ids
         /\ tasks[t].exp \in Entry /\ tasks[t].rec \in Record
<1>1. tasks[t] \in Task BY TasksTyped
<1> QED BY <1>1 DEF Task

LEMMA UnsentTyped ==
  ASSUME TInv, NEW t \in Tasks, Unsent(t)
  PROVE  envelopes' \subseteq Envelopes
<1>1. ASSUME conn \in Nodes
      PROVE  [node |-> conn, life |-> tasks[t].life, attempt |-> tasks[t].attempt] \in Envelopes
  BY <1>1, TokenTyped DEF Envelopes
<1> QED BY <1>1, StoresTyped DEF Unsent

LEMMA SendsTyped ==
  ASSUME TInv, NEW t \in Tasks, Sends(t)
  PROVE  wire' \in Wires
<1> DEFINE packet == <<tasks[t].life, tasks[t].attempt>>
           sent == wire.sent \cup {packet}
           twice == wire.twice \/ packet \in wire.sent
<1>1. packet \in Lives \X Attempts BY TokenTyped
<1>2. wire \in Wires BY StoresTyped
<1>3. sent \in SUBSET (Lives \X Attempts) BY <1>1, <1>2 DEF Wires
<1>4. twice \in BOOLEAN OBVIOUS
<1>5. wire' = [wire EXCEPT !.sent = sent, !.twice = twice] BY <1>2 DEF Sends, Wires
<1> HIDE DEF sent, twice
<1> QED BY <1>2, <1>3, <1>4, <1>5 DEF Wires

LEMMA RecordAfter ==
  ASSUME TInv, DInv, [Next]_vars, Counted
  PROVE  record' \in Record
<1>1. /\ record \in Record /\ NoRecord \in Record /\ record.version + 1 \in Nat
      /\ DOMAIN record = DOMAIN NoRecord
  <2>1. record \in Record BY StoresTyped
  <2> QED BY <2>1, NoneTyped DEF Record, NoRecord
<1>2. ASSUME NEW t \in Tasks, TaskStep(t) PROVE record' \in Record
  <2>1. CASE Seed(t) \/ Adopt(t) \/ Track(t) \/ Send(t) \/ Rollback(t) \/ RollbackDrop(t)
             \/ DeleteSeed(t) \/ Unindex(t) \/ Load(t) \/ Sync(t) \/ Recover(t) \/ Bump(t)
             \/ Recheck(t) \/ RetrySend(t) \/ Received(t) \/ RetireCheck(t) \/ SweepCheck(t)
    BY <1>1, <2>1 DEF Seed, Adopt, Track, Send, Rollback, RollbackDrop, DeleteSeed, Unindex,
                  Load, Sync, Recover, Bump, Recheck, RetrySend, Received, RetireCheck,
                  SweepCheck
  <2>2. CASE Create(t)
    <3>1. CASE record' = record BY <1>1, <3>1
    <3>2. CASE /\ record' = [NoRecord EXCEPT !.stage = "ack", !.version = 1, !.attempt = 1,
                                             !.gen = tasks[t].gen, !.life = book.lives + 1]
               /\ book' = [book EXCEPT !.lives = @ + 1]
      <4> DEFINE g == tasks[t].gen
                 l == book.lives + 1
      <4>1. g \in Gens BY TokenTyped
      <4>2. l \in Lives
        <5>1. book'.lives = l BY <3>2, Amounts
        <5> QED BY <5>1 DEF Counted
      <4>3. 1 \in Attempts BY ZeroTyped
      <4> HIDE DEF g, l
      <4>4. record' = [NoRecord EXCEPT !.stage = "ack", !.version = 1, !.attempt = 1,
                                       !.gen = g, !.life = l]
        BY <3>2 DEF g, l
      <4> QED BY <1>1, <4>1, <4>2, <4>3, <4>4 DEF Record
    <3> QED BY <2>2, <3>1, <3>2 DEF Create
  <2>3. CASE RollbackDelete(t) \/ RetireDelete(t) \/ DrainDelete(t)
    BY <1>1, <2>3 DEF RollbackDelete, RetireDelete, DrainDelete
  <2>4. CASE Claim(t)
    <3>1. CASE /\ Claimable
               /\ record' = [record EXCEPT !.attempt = @ + 1, !.version = @ + 1,
                               !.claimed = TRUE, !.leased = TRUE, !.dispatched = FALSE]
      <4> DEFINE a == record.attempt + 1
                 v == record.version + 1
      <4>1. a \in Attempts
        <5>1. record.attempt \in Attempts BY <1>1 DEF Record
        <5> QED BY <3>1, <5>1, ConstantsAssumption DEF Claimable, Attempts
      <4>2. record' = [record EXCEPT !.attempt = a, !.version = v, !.claimed = TRUE,
                                     !.leased = TRUE, !.dispatched = FALSE]
        BY <1>1, <3>1 DEF Record
      <4>3. v \in Nat BY <1>1
      <4> HIDE DEF a, v
      <4> QED BY <1>1, <4>1, <4>2, <4>3 DEF Record
    <3> QED BY <1>1, <2>4, <3>1 DEF Claim
  <2>5. CASE Mark(t)
    <3>1. CASE record' = [record EXCEPT !.dispatched = TRUE, !.version = @ + 1]
      BY <1>1, <3>1 DEF Record
    <3> QED BY <1>1, <2>5, <3>1 DEF Mark
  <2>6. CASE Release(t)
    <3>1. CASE record' = [record EXCEPT !.dispatched = FALSE, !.leased = FALSE,
                                        !.version = @ + 1]
      BY <1>1, <3>1 DEF Record
    <3> QED BY <1>1, <2>6, <3>1 DEF Release
  <2>7. CASE Advance(t)
    <3>1. CASE record' = [record EXCEPT !.stage = "result", !.version = @ + 1,
                            !.claimed = FALSE, !.leased = FALSE, !.dispatched = FALSE]
      BY <1>1, <3>1 DEF Record
    <3> QED BY <1>1, <2>7, <3>1 DEF Advance
  <2> QED BY <1>2, <2>1, <2>2, <2>3, <2>4, <2>5, <2>6, <2>7 DEF TaskStep
<1>3. CASE Close
  <2>1. record' = [record EXCEPT !.stage = "closed", !.version = @ + 1,
                     !.claimed = FALSE, !.leased = FALSE, !.dispatched = FALSE]
    BY <1>3 DEF Close
  <2> QED BY <1>1, <2>1 DEF Record
<1>4. CASE LeaseExpires
  <2>1. record' = [record EXCEPT !.leased = FALSE] BY <1>4 DEF LeaseExpires
  <2> QED BY <1>1, <2>1 DEF Record
<1>5. CASE \/ Begins
           \/ \E n \in Nodes : Freeze(n) \/ Expire(n) \/ Reconnect(n) \/ Crash(n)
           \/ SeedAges \/ UNCHANGED vars
  <2>1. record' = record
    BY <1>5, BeginsAlone DEF Freeze, Expire, Reconnect, Crash, SeedAges, vars
  <2> QED BY <1>1, <2>1
<1> QED BY <1>2, <1>3, <1>4, <1>5 DEF Next, Begins

LEMMA SyncedTyped ==
  ASSUME NEW e \in Entry, NEW i, NEW r \in Record
  PROVE  Synced(e, i, r) \in Entry
<1>1. NoEntry \in Entry BY NoneTyped
<1>2. CASE r.stage \in {"ack", "result"}
  <2> DEFINE new == [e EXCEPT !.stage = r.stage, !.version = r.version, !.attempt = r.attempt,
                              !.gen = r.gen, !.life = r.life, !.expired = FALSE]
  <2>1. new \in Entry BY <1>2 DEF Entry, Record
  <2>2. Synced(e, i, r) \in {e, NoEntry, new} BY DEF Synced
  <2> HIDE DEF new
  <2> QED BY <1>1, <2>1, <2>2
<1>3. CASE r.stage \in {"none", "closed"} BY <1>1, <1>3 DEF Synced
<1> QED BY <1>2, <1>3 DEF Record

LEMMA RecoveredTyped ==
  ASSUME TInv, NEW e \in Entry, NEW r \in Record
  PROVE  Recovered(e, r) \in Entry
<1>1. FreshId \in Ids BY FreshIdTyped DEF TInv
<1> DEFINE i == FreshId
           new == [id |-> i, stage |-> r.stage, version |-> r.version, attempt |-> r.attempt,
                   gen |-> r.gen, life |-> r.life, created |-> FALSE, expired |-> FALSE]
<1>2. Recovered(e, r) = e \/ (r.stage \in {"ack", "result"} /\ Recovered(e, r) = new)
  BY DEF Recovered
<1>3. i \in Ids BY <1>1
<1> HIDE DEF i
<1>4. r.stage \in {"ack", "result"} => new \in Entry BY <1>3 DEF Entry, Record
<1> HIDE DEF new
<1> QED BY <1>2, <1>4

LEMMA PendingAfter ==
  ASSUME TInv, DInv, [Next]_vars
  PROVE  pending' \in [Nodes -> Entry]
<1>1. pending \in [Nodes -> Entry] /\ NoEntry \in Entry BY StoresTyped, NoneTyped
<1>2. ASSUME NEW t \in Tasks, TaskStep(t) PROVE pending' \in [Nodes -> Entry]
  <2>0. tasks[t].pc # "idle" => Node(t) \in Nodes /\ Mine(t) \in Entry BY Working
  <2>1. CASE pending' = pending BY <1>1, <2>1
  <2>2. CASE Track(t)
    <3> DEFINE i == FreshId
               e == [id |-> i, stage |-> "ack", version |-> 1, attempt |-> 1,
                     gen |-> tasks[t].gen, life |-> tasks[t].life,
                     created |-> tasks[t].created, expired |-> FALSE]
    <3>1. i \in Ids BY FreshIdTyped DEF TInv
    <3>2. Node(t) \in Nodes BY <2>0, <2>2 DEF Track, At
    <3>3. pending' = [pending EXCEPT ![Node(t)] = e] BY <2>2 DEF Track
    <3> HIDE DEF i
    <3>4. e \in Entry BY <3>1, TokenTyped, ZeroTyped DEF Entry
    <3> HIDE DEF e
    <3> QED BY <3>2, <3>3, <3>4, PutTyped
  <2>3. CASE RollbackDrop(t) \/ RetireCheck(t)
    <3>1. Node(t) \in Nodes BY <2>0, <2>3 DEF RollbackDrop, RetireCheck, At
    <3>2. pending' = pending \/ pending' = [pending EXCEPT ![Node(t)] = NoEntry]
      BY <2>3 DEF RollbackDrop, RetireCheck
    <3> QED BY <1>1, <3>1, <3>2, PutTyped
  <2>4. CASE Sync(t)
    <3> DEFINE e == Synced(Mine(t), tasks[t].id, tasks[t].rec)
    <3>1. Node(t) \in Nodes /\ Mine(t) \in Entry BY <2>0, <2>4 DEF Sync, At
    <3>2. e \in Entry BY <3>1, TokenTyped, SyncedTyped
    <3>3. pending' = [pending EXCEPT ![Node(t)] = e] BY <1>1, <2>4, <3>1 DEF Sync, Mine
    <3> HIDE DEF e
    <3> QED BY <3>1, <3>2, <3>3, PutTyped
  <2>5. CASE Recover(t)
    <3> DEFINE e == Recovered(Mine(t), tasks[t].rec)
    <3>1. Node(t) \in Nodes /\ Mine(t) \in Entry BY <2>0, <2>5 DEF Recover, At
    <3>2. e \in Entry BY <3>1, TokenTyped, RecoveredTyped
    <3>3. pending' = [pending EXCEPT ![Node(t)] = e] BY <1>1, <2>5, <3>1 DEF Recover, Mine
    <3> HIDE DEF e
    <3> QED BY <3>1, <3>2, <3>3, PutTyped
  <2>6. CASE Bump(t)
    <3> DEFINE e == [Mine(t) EXCEPT !.attempt = tasks[t].attempt]
    <3>1. Node(t) \in Nodes /\ Mine(t) \in Entry BY <2>0, <2>6 DEF Bump, At
    <3>2. e \in Entry BY <3>1, TokenTyped DEF Entry
    <3>3. pending' = pending \/ pending' = [pending EXCEPT ![Node(t)] = e]
      BY <1>1, <2>6, <3>1 DEF Bump, Mine
    <3> HIDE DEF e
    <3> QED BY <1>1, <3>1, <3>2, <3>3, PutTyped
  <2>7. CASE Received(t)
    <3> DEFINE v == tasks[t].rec.version
               a == tasks[t].rec.attempt
               e == [Mine(t) EXCEPT !.stage = "result", !.version = v, !.attempt = a,
                                    !.expired = FALSE]
    <3>1. Node(t) \in Nodes /\ Mine(t) \in Entry BY <2>0, <2>7 DEF Received, At
    <3>2. v \in Nat /\ a \in Attempts BY TokenTyped DEF Record
    <3>3. pending' = pending \/ pending' = [pending EXCEPT ![Node(t)] = e]
      BY <1>1, <2>7, <3>1 DEF Received, Mine
    <3> HIDE DEF v, a
    <3>4. e \in Entry BY <3>1, <3>2 DEF Entry
    <3> HIDE DEF e
    <3> QED BY <1>1, <3>1, <3>3, <3>4, PutTyped
  <2>8. CASE Seed(t) \/ Adopt(t) \/ Create(t) \/ Send(t) \/ Rollback(t) \/ RollbackDelete(t)
             \/ Unindex(t) \/ DeleteSeed(t) \/ Load(t) \/ Claim(t) \/ Mark(t) \/ Recheck(t)
             \/ RetrySend(t) \/ Release(t) \/ DrainDelete(t) \/ Advance(t) \/ RetireDelete(t)
             \/ SweepCheck(t)
    <3>1. pending' = pending
      BY <2>8 DEF Seed, Adopt, Create, Send, Rollback, RollbackDelete, Unindex, DeleteSeed,
                  Load, Claim, Mark, Recheck, RetrySend, Release, DrainDelete, Advance,
                  RetireDelete, SweepCheck
    <3> QED BY <2>1, <3>1
  <2> QED BY <1>2, <2>2, <2>3, <2>4, <2>5, <2>6, <2>7, <2>8 DEF TaskStep
<1>3. ASSUME NEW n \in Nodes, Freeze(n) \/ Expire(n) \/ Crash(n)
      PROVE  pending' \in [Nodes -> Entry]
  <2>1. CASE pending' = [pending EXCEPT ![n] = NoEntry] BY <1>1, <2>1, PutTyped
  <2>2. CASE Expire(n)
    <3> DEFINE e == [pending[n] EXCEPT !.expired = TRUE]
    <3>1. e \in Entry BY EntryTyped DEF Entry
    <3>2. pending' = [pending EXCEPT ![n] = e] BY <1>1, <2>2 DEF Expire
    <3> HIDE DEF e
    <3> QED BY <3>1, <3>2, PutTyped
  <2> QED BY <1>3, <2>1, <2>2 DEF Freeze, Crash
<1>4. CASE \/ Begins
           \/ \E n \in Nodes : Reconnect(n)
           \/ Close \/ SeedAges \/ LeaseExpires \/ UNCHANGED vars
  <2>1. pending' = pending
    BY <1>4, BeginsAlone DEF Reconnect, Close, SeedAges, LeaseExpires, vars
  <2> QED BY <1>1, <2>1
<1> QED BY <1>2, <1>3, <1>4 DEF Next, Begins

LEMMA SeedAfter ==
  ASSUME TInv, DInv, [Next]_vars, Counted
  PROVE  seed' \in Seeds
<1>1. seed \in Seeds /\ 0 \in Gens BY StoresTyped, ZeroTyped
<1>2. ASSUME NEW t \in Tasks, Seed(t) PROVE seed' \in Seeds
  <2>1. CASE seed' = seed BY <1>1, <2>1
  <2>2. CASE /\ seed' = [status |-> "pending", gen |-> book.gens + 1, old |-> FALSE]
             /\ book' = [book EXCEPT !.gens = @ + 1]
    <3>1. book'.gens = book.gens + 1 BY <2>2, Amounts
    <3>2. book.gens + 1 \in Gens BY <3>1 DEF Counted
    <3> QED BY <2>2, <3>2 DEF Seeds
  <2> QED BY <1>2, <2>1, <2>2 DEF Seed
<1>3. ASSUME NEW t \in Tasks, Create(t) \/ DeleteSeed(t) PROVE seed' \in Seeds
  <2>1. \/ seed' = seed \/ seed' = [seed EXCEPT !.status = "frozen"]
        \/ seed' = [seed EXCEPT !.status = "absent", !.gen = 0, !.old = FALSE]
    BY <1>3 DEF Create, DeleteSeed
  <2> QED BY <1>1, <2>1 DEF Seeds
<1>4. ASSUME NEW n \in Nodes, Freeze(n) PROVE seed' \in Seeds
  BY <1>1, <1>4 DEF Freeze, Seeds
<1>5. CASE SeedAges BY <1>1, <1>5 DEF SeedAges, Seeds
<1>6. ASSUME NEW t \in Tasks, TaskStep(t), ~Seed(t), ~Create(t), ~DeleteSeed(t)
      PROVE  seed' = seed
  BY <1>6 DEF TaskStep, Adopt, Track, Send, Rollback, RollbackDelete, RollbackDrop, Unindex,
              Load, Sync, Recover, Claim, Bump, Mark, Recheck, RetrySend, Release,
              DrainDelete, Advance, Received, RetireCheck, RetireDelete, SweepCheck
<1>7. CASE \/ Begins
           \/ \E n \in Nodes : Expire(n) \/ Reconnect(n) \/ Crash(n)
           \/ Close \/ LeaseExpires \/ UNCHANGED vars
  <2>1. seed' = seed
    BY <1>7, BeginsAlone DEF Expire, Reconnect, Crash, Close, LeaseExpires, vars
  <2> QED BY <1>1, <2>1
<1> QED BY <1>1, <1>2, <1>3, <1>4, <1>5, <1>6, <1>7 DEF Next, Begins

LEMMA ConnAfter ==
  ASSUME TInv, [Next]_vars
  PROVE  conn' \in Nodes \cup {NoNode} /\ index' \in BOOLEAN
<1>1. conn \in Nodes \cup {NoNode} /\ index \in BOOLEAN BY StoresTyped
<1>2. ASSUME NEW t \in Tasks, TaskStep(t) \/ StoreFails(t)
      PROVE  conn' = conn /\ index' \in {index, TRUE, FALSE}
  BY <1>2 DEF TaskStep, StoreFails, Seed, Adopt, Create, Track, Send, Rollback, RollbackDelete,
              RollbackDrop, DeleteSeed, Unindex, Load, Sync, Recover, Claim, Bump, Mark,
              Recheck, RetrySend, Release, DrainDelete, Advance, Received, RetireCheck,
              RetireDelete, SweepCheck
<1>3. ASSUME NEW t \in Tasks, NEW n \in Nodes,
             \/ StartPush(t, n) \/ StartTimeout(t, n) \/ StartDrain(t, n) \/ StartAck(t, n)
             \/ StartRetire(t, n) \/ StartSweep(t, n)
      PROVE  conn' = conn /\ index' = index
  BY <1>3 DEF StartPush, StartTimeout, StartDrain, StartAck, StartRetire, StartSweep
<1>4. ASSUME NEW n \in Nodes, Freeze(n) \/ Expire(n) \/ Reconnect(n) \/ Crash(n)
      PROVE  conn' \in {conn, n, NoNode} /\ index' \in {index, FALSE}
  BY <1>4 DEF Freeze, Expire, Reconnect, Crash
<1>5. CASE \/ \E t \in Tasks, env \in envelopes : StartForwarded(t, env)
           \/ Close \/ SeedAges \/ LeaseExpires \/ UNCHANGED vars
  BY <1>1, <1>5 DEF StartForwarded, Close, SeedAges, LeaseExpires, vars
<1> QED BY <1>1, <1>2, <1>3, <1>4, <1>5 DEF Next

LEMMA WireAfter ==
  ASSUME TInv, [Next]_vars
  PROVE  envelopes' \subseteq Envelopes /\ wire' \in Wires
<1>1. envelopes \subseteq Envelopes /\ wire \in Wires BY StoresTyped
<1>2. ASSUME NEW t \in Tasks, Send(t) \/ RetrySend(t)
      PROVE  envelopes' \subseteq Envelopes /\ wire' \in Wires
  <2>1. envelopes' = envelopes /\ (Sends(t) \/ wire' = wire)
    BY <1>2 DEF Send, RetrySend, SendFails
  <2> QED BY <1>1, <2>1, SendsTyped
<1>3. ASSUME NEW t \in Tasks, Mark(t) \/ Release(t)
      PROVE  envelopes' \subseteq Envelopes /\ wire' \in Wires
  <2>1. wire' = wire /\ (Unsent(t) \/ envelopes' = envelopes) BY <1>3 DEF Mark, Release
  <2> QED BY <1>1, <2>1, UnsentTyped
<1>4. ASSUME NEW t \in Tasks, Advance(t)
      PROVE  envelopes' \subseteq Envelopes /\ wire' \in Wires
  <2> DEFINE life == IF wire.received = 0 THEN record.life ELSE wire.received
  <2>1. life \in Lives
    <3>1. record.life \in Lives BY StoresTyped DEF Record
    <3> QED BY <1>1, <3>1 DEF Wires
  <2>2. wire' = wire \/ wire' = [wire EXCEPT !.received = life] BY <1>1, <1>4 DEF Advance, Wires
  <2>3. envelopes' = envelopes BY <1>4 DEF Advance
  <2> HIDE DEF life
  <2> QED BY <1>1, <2>1, <2>2, <2>3 DEF Wires
<1>5. ASSUME NEW t \in Tasks, TaskStep(t) \/ StoreFails(t),
             ~Send(t), ~RetrySend(t), ~Mark(t), ~Release(t), ~Advance(t)
      PROVE  envelopes' = envelopes /\ wire' = wire
  BY <1>5 DEF TaskStep, StoreFails, Seed, Adopt, Create, Track, Rollback, RollbackDelete,
              RollbackDrop, DeleteSeed, Unindex, Load, Sync, Recover, Claim, Bump,
              Recheck, DrainDelete, Received, RetireCheck, RetireDelete, SweepCheck
<1>6. ASSUME NEW t \in Tasks, NEW n \in Nodes,
             \/ StartPush(t, n) \/ StartTimeout(t, n) \/ StartDrain(t, n) \/ StartAck(t, n)
             \/ StartRetire(t, n) \/ StartSweep(t, n)
      PROVE  envelopes' = envelopes /\ wire' = wire
  BY <1>6 DEF StartPush, StartTimeout, StartDrain, StartAck, StartRetire, StartSweep
<1>7. CASE \/ \E t \in Tasks, env \in envelopes : StartForwarded(t, env)
           \/ \E n \in Nodes : Freeze(n) \/ Expire(n) \/ Reconnect(n) \/ Crash(n)
           \/ Close \/ SeedAges \/ LeaseExpires \/ UNCHANGED vars
  <2>1. envelopes' \subseteq envelopes /\ wire' = wire
    BY <1>7 DEF StartForwarded, Freeze, Expire, Reconnect, Crash, Close, SeedAges,
                LeaseExpires, vars
  <2> QED BY <1>1, <2>1
<1> QED BY <1>1, <1>2, <1>3, <1>4, <1>5, <1>6, <1>7 DEF Next

LEMMA TInvStep == ASSUME TInv, DInv, [Next]_vars PROVE TInv'
<1>1. Counted BY StepsCounted
<1>2. TypeOK'
  <2>1. Stored BY <1>1, RecordAfter, PendingAfter, SeedAfter, ConnAfter, WireAfter DEF Stored
  <2> QED BY <1>1, <2>1 DEF TypeOK, Counted, Stored, Seeds, Wires, Envelopes
<1>3. /\ \A t \in Tasks : Placed(tasks[t])'
      /\ (book.gens + HowMany(tasks, Seeding) <= book.pushes)'
      /\ (book.lives + HowMany(tasks, Creating) <= book.pushes)'
  BY <1>1 DEF Counted, Placed, HowMany, Seeding, Creating
<1> QED BY <1>2, <1>3 DEF TInv

LEMMA TInvInit == ASSUME Init PROVE TInv
<1>1. tasks = [t \in Tasks |-> Idle] /\ pending = [n \in Nodes |-> NoEntry]
  BY DEF Init
<1>2. /\ Idle \in Task /\ NoEntry \in Entry /\ NoRecord \in Record
      /\ 0 \in Gens /\ 0 \in Lives /\ 0 \in 0..MaxPushes /\ 0 \in 0..MaxFaults
  BY IdlePlaced, NoneTyped, ZeroTyped, ConstantsAssumption DEF Placed
<1>3. TypeOK
  <2>1. pending \in [Nodes -> Entry] /\ tasks \in [Tasks -> Task] BY <1>1, <1>2
  <2> QED BY <1>2, <2>1 DEF Init, TypeOK
<1>4. \A t \in Tasks : Placed(tasks[t]) BY <1>1, IdlePlaced
<1>5. HowMany(tasks, Seeding) = 0 /\ HowMany(tasks, Creating) = 0
  <2>1. /\ {t \in Tasks : tasks[t].pc \in Seeding} = {}
        /\ {t \in Tasks : tasks[t].pc \in Creating} = {}
    BY <1>1 DEF Idle, Seeding, Creating
  <2> QED BY <2>1, FS_EmptySet DEF HowMany
<1>6. book.gens = 0 /\ book.lives = 0 /\ book.pushes = 0 BY DEF Init
<1> QED BY <1>3, <1>4, <1>5, <1>6 DEF TInv

\* Every variable keeps its type: an identity is always left for a new entry, and seeds
\* and records are never numbered beyond the dispatches that create them.
THEOREM TypeCorrect == Spec => []TypeOK
<1>1. Init => TInv BY TInvInit
<1>2. TInv /\ DInv /\ [Next]_vars => TInv' BY TInvStep
<1>3. TInv => TypeOK BY DEF TInv
<1> QED BY <1>1, <1>2, <1>3, InvariantHolds, PTL DEF Spec

-----------------------------------------------------------------------------
(* No tracker ahead of its record                                            *)

\* r does not say more than record q, if it is about q.
Behind(r, q) ==
  r.life = q.life /\ q.stage # "none" =>
    r.version <= q.version /\ (r.stage = "result" => q.stage # "ack")

ReadOf(r, q, lives) == r.stage # "none" => r.life <= lives /\ Behind(r, q)

\* A tracker may be ahead of the newest record once an earlier one was acknowledged.
Mirrors(e, q, lives, received) ==
  e.id # 0 => e.life <= lives /\ (received \in {0, lives} => Behind(e, q))

\* What was read is behind the record as it is now, and a handler of an ACK holds what
\* it recorded, of the first acknowledged record or a later one.
VInv ==
  /\ record.stage # "none" =>
       record.life = book.lives /\ book.lives >= 1 /\ record.version >= 1
  /\ wire.received <= book.lives
  /\ \A t \in Tasks : ReadOf(tasks[t].rec, record, book.lives)
  /\ \A t \in Tasks : tasks[t].pc = "received" =>
       /\ tasks[t].rec.stage = "result"
       /\ 1 <= wire.received /\ wire.received <= tasks[t].rec.life
  /\ \A n \in Nodes : Mirrors(pending[n], record, book.lives, wire.received)

RecordGoesOn ==
  /\ book'.lives = book.lives
  /\ record'.stage # "none" =>
       /\ record.stage # "none" /\ record'.life = record.life
       /\ record'.version >= record.version
       /\ record.stage # "ack" => record'.stage # "ack"
  /\ \/ wire'.received = wire.received
     \/ wire.received = 0 /\ record.stage = "ack" /\ wire'.received = record.life

RecordBegins ==
  /\ book'.lives = book.lives + 1 /\ wire'.received = wire.received
  /\ record'.life = book'.lives /\ record'.version = 1 /\ record'.stage = "ack"

LEMMA Numbers ==
  ASSUME TInv
  PROVE  /\ book.lives \in Nat /\ wire.received \in Nat
         /\ record.version \in Nat /\ record.life \in Nat
         /\ \A t \in Tasks : tasks[t].rec.version \in Nat /\ tasks[t].rec.life \in Nat
         /\ \A n \in Nodes : pending[n].version \in Nat /\ pending[n].life \in Nat
<1>1. Lives \subseteq Nat BY ConstantsAssumption DEF Lives
<1>2. book.lives \in Nat BY Amounts
<1>3. wire.received \in Nat BY <1>1, StoresTyped DEF Wires
<1>4. record.version \in Nat /\ record.life \in Nat BY <1>1, StoresTyped DEF Record
<1>5. \A t \in Tasks : tasks[t].rec.version \in Nat /\ tasks[t].rec.life \in Nat
  BY <1>1, TokenTyped DEF Record
<1>6. \A n \in Nodes : pending[n].version \in Nat /\ pending[n].life \in Nat
  BY <1>1, EntryTyped DEF Entry
<1> QED BY <1>2, <1>3, <1>4, <1>5, <1>6

LEMMA ReadKept ==
  ASSUME TInv, VInv, record' \in Record, RecordGoesOn \/ RecordBegins,
         NEW r, r.version \in Nat, r.life \in Nat, ReadOf(r, record, book.lives)
  PROVE  ReadOf(r, record', book'.lives)
<1>1. record'.version \in Nat BY DEF Record
<1>2. CASE RecordGoesOn
  BY <1>1, <1>2, Numbers DEF RecordGoesOn, ReadOf, Behind
<1>3. CASE RecordBegins
  BY <1>3, Numbers DEF RecordBegins, ReadOf, Behind
<1> QED BY <1>2, <1>3

LEMMA MirrorsKept ==
  ASSUME TInv, VInv, record' \in Record, RecordGoesOn \/ RecordBegins,
         NEW e, e.version \in Nat, e.life \in Nat,
         Mirrors(e, record, book.lives, wire.received)
  PROVE  Mirrors(e, record', book'.lives, wire'.received)
<1>1. record'.version \in Nat BY DEF Record
<1>2. CASE RecordGoesOn
  <2>1. wire'.received \in {0, book.lives} => wire.received \in {0, book.lives}
    BY <1>2, Numbers DEF RecordGoesOn
  <2> QED BY <1>1, <1>2, <2>1, Numbers DEF RecordGoesOn, Mirrors, Behind
<1>3. CASE RecordBegins
  BY <1>3, Numbers DEF RecordBegins, Mirrors, Behind
<1> QED BY <1>2, <1>3

LEMMA RecordGoes ==
  ASSUME TInv, DInv, VInv, [Next]_vars
  PROVE  RecordGoesOn \/ RecordBegins
<1>0. DOMAIN record = DOMAIN NoRecord BY DEF DInv, Shapes
<1>1. RecordStep BY RecordSteps
<1>2. ASSUME book'.lives = book.lives, wire'.received = wire.received,
             record'.stage # "none" => record.stage # "none"
      PROVE  RecordGoesOn
  <2>1. /\ record'.stage # "none" /\ record.stage # "none" =>
             /\ record'.life = record.life /\ record'.version >= record.version
             /\ StageRank(record'.stage) >= StageRank(record.stage)
    BY <1>1 DEF RecordStep
  <2>2. record.stage \in Stages BY DEF DInv, RecordOK
  <2>3. record'.stage = "ack" /\ record.stage # "none" => record.stage = "ack"
    BY <2>1, <2>2 DEF StageRank, Stages
  <2> QED BY <1>2, <2>1, <2>3 DEF RecordGoesOn
<1>3. ASSUME NEW t \in Tasks, Create(t) PROVE RecordGoesOn \/ RecordBegins
  <2>1. CASE /\ record' = [NoRecord EXCEPT !.stage = "ack", !.version = 1, !.attempt = 1,
                                           !.gen = tasks[t].gen, !.life = book.lives + 1]
             /\ book' = [book EXCEPT !.lives = @ + 1]
    <3>1. /\ record'.stage = "ack" /\ record'.version = 1 /\ record'.life = book.lives + 1
      BY <2>1 DEF NoRecord
    <3>2. book'.lives = book.lives + 1 BY <2>1, Amounts
    <3>3. wire' = wire BY <1>3 DEF Create
    <3> QED BY <3>1, <3>2, <3>3 DEF RecordBegins
  <2>2. CASE record' = record /\ (book' = book \/ CallFails(t))
    <3>1. book'.lives = book.lives BY <2>2, BookMoves DEF DInv, BookStays
    <3>2. wire' = wire BY <1>3 DEF Create
    <3> QED BY <1>2, <2>2, <3>1, <3>2
  <2> QED BY <1>3, <2>1, <2>2 DEF Create
<1>4. ASSUME NEW t \in Tasks, Advance(t) PROVE RecordGoesOn
  <2>1. book' = book BY <1>4 DEF Advance
  <2>2. CASE record.stage # "ack"
    <3>1. record' = record /\ wire' = wire BY <1>4, <2>2 DEF Advance
    <3> QED BY <1>2, <2>1, <3>1
  <2>3. CASE record.stage = "ack"
    <3>1. record'.stage = "result" /\ record'.life = record.life
          /\ record'.version = record.version + 1
      BY <1>0, <1>4, <2>3 DEF Advance, NoRecord
    <3>2. wire'.received = IF wire.received = 0 THEN record.life ELSE wire.received
      BY <1>4, <2>3 DEF Advance, DInv, Shapes
    <3> QED BY <2>1, <2>3, <3>1, <3>2, Numbers DEF RecordGoesOn
  <2> QED BY <2>2, <2>3
<1>5. ASSUME NEW t \in Tasks, TaskStep(t) \/ StoreFails(t), ~Create(t), ~Advance(t)
      PROVE  RecordGoesOn
  <2>1. \/ BookStays
        \/ book' = [book EXCEPT !.pushes = @ + 1, !.owed = FALSE]
        \/ book' = [book EXCEPT !.gens = @ + 1]
        \/ book' = [book EXCEPT !.erased = @ \/ record.stage # "none"]
    <3>1. \/ UNCHANGED book \/ Fault \/ CallFails(t) \/ book' = PushFailed(t)
          \/ book' = [book EXCEPT !.gens = @ + 1]
          \/ book' = [book EXCEPT !.erased = @ \/ record.stage # "none"]
      BY <1>5 DEF TaskStep, StoreFails, Seed, Adopt, Loads, Track, Send, Sends, SendFails,
                  Rollback, RollbackDelete, RollbackDrop, DeleteSeed, Unindex, Load, Sync,
                  Recover, Claim, Bump, Mark, Recheck, RetrySend, Release, DrainDelete,
                  Received, RetireCheck, RetireDelete, SweepCheck
    <3> QED BY <3>1, BookMoves DEF DInv
  <2>2. book'.lives = book.lives BY <2>1 DEF BookStays, DInv, Shapes, BookFields
  <2>3. wire'.received = wire.received
    <3>1. Sends(t) \/ wire' = wire
      BY <1>5 DEF TaskStep, StoreFails, Seed, Adopt, Track, Send, SendFails,
                  Rollback, RollbackDelete, RollbackDrop, DeleteSeed, Unindex, Load, Sync,
                  Recover, Claim, Bump, Mark, Recheck, RetrySend, Release, DrainDelete,
                  Received, RetireCheck, RetireDelete, SweepCheck
    <3> QED BY <3>1 DEF Sends, DInv, Shapes
  <2>4. record'.stage # "none" => record.stage # "none"
    <3>1. CASE Claim(t) \/ Mark(t) \/ Release(t)
      BY <3>1 DEF Claim, Claimable, Mark, Markable, Release, Current
    <3>2. CASE RollbackDelete(t) \/ RetireDelete(t) \/ DrainDelete(t)
      BY <3>2 DEF RollbackDelete, RetireDelete, DrainDelete, NoRecord
    <3>3. CASE ~Claim(t) /\ ~Mark(t) /\ ~Release(t) /\ ~RollbackDelete(t) /\ ~RetireDelete(t)
               /\ ~DrainDelete(t)
      BY <1>5, <3>3 DEF TaskStep, StoreFails, Seed, Adopt, Track, Send,
                  Rollback, RollbackDrop, DeleteSeed, Unindex, Load, Sync,
                  Recover, Bump, Recheck, RetrySend, Received, RetireCheck, SweepCheck
    <3> QED BY <3>1, <3>2, <3>3
  <2> QED BY <1>2, <2>2, <2>3, <2>4
<1>6. ASSUME NEW t \in Tasks, NEW n \in Nodes,
             \/ StartPush(t, n) \/ StartTimeout(t, n) \/ StartDrain(t, n) \/ StartAck(t, n)
             \/ StartRetire(t, n) \/ StartSweep(t, n)
      PROVE  RecordGoesOn
  <2>1. record' = record /\ wire' = wire
    BY <1>6 DEF StartPush, StartTimeout, StartDrain, StartAck, StartRetire, StartSweep
  <2>2. book' = [book EXCEPT !.pushes = @ + 1, !.owed = FALSE] \/ UNCHANGED book \/ Fault
    BY <1>6 DEF StartPush, StartTimeout, StartDrain, Loads, StartAck, StartRetire, StartSweep
  <2>3. book'.lives = book.lives
    BY <2>2, BookMoves DEF DInv, Shapes, BookStays, BookFields
  <2> QED BY <1>2, <2>1, <2>3
<1>7. ASSUME NEW n \in Nodes, Freeze(n) \/ Expire(n) \/ Reconnect(n) \/ Crash(n)
      PROVE  RecordGoesOn
  <2>1. record' = record /\ wire' = wire BY <1>7 DEF Freeze, Expire, Reconnect, Crash
  <2>2. book'.lives = book.lives
    BY <1>7 DEF Freeze, Expire, Reconnect, Crash, Fault, DInv, Shapes, BookFields
  <2> QED BY <1>2, <2>1, <2>2
<1>8. CASE \/ \E t \in Tasks, env \in envelopes : StartForwarded(t, env)
           \/ Close \/ SeedAges \/ LeaseExpires \/ UNCHANGED vars
  <2>1. book' = book /\ wire' = wire /\ (record'.stage # "none" => record.stage # "none")
    BY <1>0, <1>8 DEF StartForwarded, Close, SeedAges, LeaseExpires, vars, NoRecord
  <2> QED BY <1>2, <2>1
<1> QED BY <1>3, <1>4, <1>5, <1>6, <1>7, <1>8 DEF Next

\* What a goroutine holds after a step: what it held, nothing, or the record as it is.
Holds(t) ==
  \/ tasks'[t].rec = tasks[t].rec /\ (tasks'[t].pc = "received" => tasks[t].pc = "received")
  \/ tasks'[t].rec.stage = "none" /\ tasks'[t].pc # "received"
  \/ tasks'[t].rec = Mirrored(record) /\ record' = record /\ tasks'[t].pc # "received"
  \/ /\ tasks'[t].rec = record' /\ record.stage = "ack" /\ record'.stage = "result"
     /\ wire'.received = IF wire.received = 0 THEN record.life ELSE wire.received

LEMMA HoldsSet ==
  ASSUME TInv, NEW t \in Tasks, NEW r, tasks' = [tasks EXCEPT ![t] = r],
         r.rec \in {tasks[t].rec, NoRecord}, r.pc # "received"
  PROVE  \A s \in Tasks : Holds(s)
BY TasksTyped DEF Holds, NoRecord

LEMMA HoldsOn ==
  ASSUME TInv, NEW t \in Tasks, NEW l, l # "received",
         Goto(t, l) \/ GoOn(t, l) \/ LoadThen(t, l) \/ End(t)
  PROVE  \A s \in Tasks : Holds(s)
<1>1. tasks[t] \in Task BY TasksTyped
<1>2. CASE Goto(t, l)
  <2> DEFINE r == [tasks[t] EXCEPT !.pc = l]
  <2>1. tasks' = [tasks EXCEPT ![t] = r] BY <1>2, TasksTyped DEF Goto
  <2>2. r.rec = tasks[t].rec /\ r.pc = l BY <1>1 DEF Task
  <2> HIDE DEF r
  <2> QED BY <2>1, <2>2, HoldsSet
<1>3. CASE GoOn(t, l)
  <2> DEFINE r == [tasks[t] EXCEPT !.pc = l, !.rec = NoRecord]
  <2>1. tasks' = [tasks EXCEPT ![t] = r] BY <1>3, TasksTyped DEF GoOn
  <2>2. r.rec = NoRecord /\ r.pc = l BY <1>1 DEF Task
  <2> HIDE DEF r
  <2> QED BY <2>1, <2>2, HoldsSet
<1>4. CASE LoadThen(t, l)
  <2> DEFINE r == [Idle EXCEPT !.pc = "load", !.then = l, !.kind = tasks[t].kind,
                               !.node = tasks[t].node, !.id = tasks[t].id]
  <2>1. tasks' = [tasks EXCEPT ![t] = r] BY <1>4 DEF LoadThen
  <2>2. r.rec = NoRecord /\ r.pc = "load" BY DEF Idle
  <2> HIDE DEF r
  <2> QED BY <2>1, <2>2, HoldsSet
<1>5. CASE End(t)
  <2>1. Idle.rec = NoRecord /\ Idle.pc = "idle" BY DEF Idle
  <2> QED BY <1>5, <2>1, HoldsSet DEF End
<1> QED BY <1>2, <1>3, <1>4, <1>5

LEMMA TaskHolds ==
  ASSUME TInv, DInv, NEW t \in Tasks, TaskStep(t) \/ StoreFails(t)
  PROVE  \A s \in Tasks : Holds(s)
<1>0. tasks[t] \in Task /\ DOMAIN tasks = Tasks BY TasksTyped
<1>1. CASE Seed(t) \/ Track(t) \/ Rollback(t) \/ Unindex(t) \/ RollbackDrop(t)
  <2>1. CASE End(t) \/ LoadThen(t, "sync") \/ Goto(t, "rollbackDrop") BY <2>1, HoldsOn
  <2>2. CASE ~End(t) /\ ~LoadThen(t, "sync") /\ ~Goto(t, "rollbackDrop")
    <3>1. /\ \A s \in Tasks : s # t => tasks'[s] = tasks[s]
          /\ tasks'[t].rec = tasks[t].rec
          /\ tasks'[t].pc \in {"adopt", "create", "send", "rollbackDelete", "deleteSeed"}
      <4>1. CASE Seed(t) BY <1>0, <2>2, <4>1 DEF Seed, Task
      <4>2. CASE Track(t) BY <1>0, <2>2, <4>2 DEF Track, Task
      <4>3. CASE Rollback(t) BY <1>0, <2>2, <4>3 DEF Rollback, Task
      <4>4. CASE Unindex(t) BY <1>0, <2>2, <4>4 DEF Unindex, Task
      <4>5. CASE RollbackDrop(t) BY <1>0, <2>2, <4>5 DEF RollbackDrop, Task
      <4> QED BY <1>1, <4>1, <4>2, <4>3, <4>4, <4>5
    <3> QED BY <3>1 DEF Holds
  <2> QED BY <2>1, <2>2
<1>2. CASE Create(t)
  <2>1. CASE LoadThen(t, "recover") \/ Goto(t, "deleteSeed") \/ End(t) BY <2>1, HoldsOn
  <2>2. CASE tasks' = [tasks EXCEPT ![t].pc = "track", ![t].life = book.lives + 1]
    <3>1. /\ \A s \in Tasks : s # t => tasks'[s] = tasks[s]
          /\ tasks'[t].rec = tasks[t].rec /\ tasks'[t].pc = "track"
      BY <1>0, <2>2 DEF Task
    <3> QED BY <3>1 DEF Holds
  <2> QED BY <1>2, <2>1, <2>2 DEF Create
<1>3. CASE Send(t)
  <2>1. CASE End(t) BY <2>1, HoldsOn
  <2>2. CASE tasks' = [tasks EXCEPT ![t] = [Idle EXCEPT !.pc = "rollback",
                                              !.kind = "push", !.node = Node(t)]]
    <3> DEFINE r == [Idle EXCEPT !.pc = "rollback", !.kind = "push", !.node = Node(t)]
    <3>1. r.rec = NoRecord /\ r.pc = "rollback" BY DEF Idle
    <3>2. tasks' = [tasks EXCEPT ![t] = r] BY <2>2
    <3> HIDE DEF r
    <3> QED BY <3>1, <3>2, HoldsSet
  <2> QED BY <1>3, <2>1, <2>2 DEF Send
<1>4. CASE Load(t)
  <2>1. PICK x \in {record, NoRecord} :
          tasks' = [tasks EXCEPT ![t].pc = tasks[t].then, ![t].then = "idle",
                                 ![t].rec = Mirrored(x)]
    BY <1>4 DEF Load
  <2>2. /\ \A s \in Tasks : s # t => tasks'[s] = tasks[s]
        /\ tasks'[t].rec = Mirrored(x) /\ tasks'[t].pc = tasks[t].then
    BY <1>0, <2>1 DEF Task
  <2>3. tasks[t].then # "received" BY <1>4, MineIs DEF Load, At, Coherent
  <2>4. record' = record BY <1>4 DEF Load
  <2>5. Mirrored(NoRecord).stage = "none" BY DEF Mirrored, NoRecord
  <2> QED BY <2>2, <2>3, <2>4, <2>5 DEF Holds
<1>5. CASE Claim(t)
  <2>1. CASE Claimable
    <3>1. tasks' = [tasks EXCEPT ![t].pc = "bump", ![t].life = record.life,
                                 ![t].attempt = record.attempt + 1]
      BY <1>5, <2>1 DEF Claim
    <3>2. /\ \A s \in Tasks : s # t => tasks'[s] = tasks[s]
          /\ tasks'[t].rec = tasks[t].rec /\ tasks'[t].pc = "bump"
      BY <1>0, <3>1 DEF Task
    <3> QED BY <3>2 DEF Holds
  <2>2. CASE ~Claimable
    <3>1. /\ \A s \in Tasks : s # t => tasks'[s] = tasks[s]
          /\ tasks'[t].rec = Mirrored(record) /\ tasks'[t].pc = "sync" /\ record' = record
      BY <1>0, <1>5, <2>2 DEF Claim, Task
    <3> QED BY <3>1 DEF Holds
  <2> QED BY <2>1, <2>2
<1>6. CASE Advance(t)
  <2>1. CASE record.stage = "ack"
    <3>1. /\ \A s \in Tasks : s # t => tasks'[s] = tasks[s]
          /\ tasks'[t].rec = record'
      BY <1>0, <1>6, <2>1 DEF Advance, Task
    <3>2. record'.stage = "result"
      <4>1. record \in Record BY StoresTyped
      <4>2. record' = [record EXCEPT !.stage = "result", !.version = @ + 1, !.claimed = FALSE,
                                     !.leased = FALSE, !.dispatched = FALSE]
        BY <1>6, <2>1 DEF Advance
      <4> QED BY <4>1, <4>2 DEF Record
    <3>3. wire'.received = IF wire.received = 0 THEN record.life ELSE wire.received
      BY <1>6, <2>1 DEF Advance, DInv, Shapes
    <3> QED BY <2>1, <3>1, <3>2, <3>3 DEF Holds
  <2>2. CASE record.stage # "ack"
    <3>1. /\ \A s \in Tasks : s # t => tasks'[s] = tasks[s]
          /\ tasks'[t].rec = Mirrored(record) /\ tasks'[t].pc = "sync" /\ record' = record
      BY <1>0, <1>6, <2>2 DEF Advance, Task
    <3> QED BY <3>1 DEF Holds
  <2> QED BY <2>1, <2>2
<1>7. CASE Adopt(t) \/ RollbackDelete(t) \/ DeleteSeed(t) \/ Sync(t) \/ Recover(t) \/ Bump(t)
           \/ Mark(t) \/ Recheck(t) \/ RetrySend(t) \/ Release(t) \/ DrainDelete(t)
           \/ Received(t) \/ RetireCheck(t) \/ RetireDelete(t) \/ SweepCheck(t)
           \/ StoreFails(t)
  <2>1. PICK l \in PCs \ {"received"} :
          Goto(t, l) \/ GoOn(t, l) \/ LoadThen(t, l) \/ End(t)
    <3>1. CASE Adopt(t) BY <3>1 DEF Adopt, PCs
    <3>2. CASE RollbackDelete(t) \/ DeleteSeed(t) \/ Sync(t) \/ Recover(t) \/ Bump(t)
      BY <3>2 DEF RollbackDelete, DeleteSeed, Sync, Recover, Bump, PCs
    <3>3. CASE Mark(t) \/ Recheck(t) \/ Release(t)
      BY <3>3 DEF Mark, Recheck, Release, Unsent, PCs
    <3>4. CASE RetrySend(t) BY <3>4 DEF RetrySend, PCs
    <3>5. CASE DrainDelete(t) \/ Received(t) \/ RetireCheck(t) \/ RetireDelete(t)
               \/ SweepCheck(t) \/ StoreFails(t)
      BY <3>5 DEF DrainDelete, Received, RetireCheck, RetireDelete, SweepCheck, StoreFails, PCs
    <3> QED BY <1>7, <3>1, <3>2, <3>3, <3>4, <3>5
  <2> QED BY <2>1, HoldsOn
<1> QED BY <1>1, <1>2, <1>3, <1>4, <1>5, <1>6, <1>7 DEF TaskStep

LEMMA StartHolds ==
  ASSUME TInv, NEW t \in Tasks, NEW n,
         \/ StartPush(t, n) \/ StartTimeout(t, n) \/ StartDrain(t, n) \/ StartAck(t, n)
         \/ StartRetire(t, n) \/ StartSweep(t, n)
         \/ n \in envelopes /\ StartForwarded(t, n)
  PROVE  \A s \in Tasks : Holds(s)
<1>1. DOMAIN tasks = Tasks BY TasksTyped
<1>2. /\ \A s \in Tasks : s # t => tasks'[s] = tasks[s]
      /\ tasks'[t].rec = NoRecord /\ tasks'[t].pc # "received"
  <2>1. CASE StartPush(t, n) BY <1>1, <2>1 DEF StartPush, Start, Idle
  <2>2. CASE StartTimeout(t, n) BY <1>1, <2>2 DEF StartTimeout, Idle
  <2>3. CASE StartAck(t, n) BY <1>1, <2>3 DEF StartAck, Idle
  <2>4. CASE StartRetire(t, n) BY <1>1, <2>4 DEF StartRetire, Idle
  <2>5. CASE StartSweep(t, n) BY <1>1, <2>5 DEF StartSweep, Idle
  <2>6. CASE n \in envelopes /\ StartForwarded(t, n) BY <1>1, <2>6 DEF StartForwarded, Idle
  <2>7. CASE StartDrain(t, n)
    <3> DEFINE drain(r) == [Idle EXCEPT !.kind = DrainKind(r), !.node = n]
    <3>1. PICK r \in {record, NoRecord} :
            \/ tasks' = [tasks EXCEPT ![t] = [drain(r) EXCEPT !.pc = "drainDelete"]]
            \/ tasks' = [tasks EXCEPT ![t] = [Resumed(drain(r), r) EXCEPT
                                                !.pc = "load", !.then = "recover"]]
            \/ tasks' = [tasks EXCEPT ![t] = [Resumed(drain(r), r) EXCEPT
                           !.pc = IF DrainKind(r) = "resume" THEN "mark" ELSE "claim"]]
      BY <2>7 DEF StartDrain
    <3>2. DOMAIN drain(r) = DOMAIN Idle /\ drain(r).rec = NoRecord BY DEF Idle
    <3>3. DOMAIN Resumed(drain(r), r) = DOMAIN Idle /\ Resumed(drain(r), r).rec = NoRecord
      BY <3>2 DEF Resumed, Idle
    <3> HIDE DEF drain
    <3> DEFINE Brings(x) ==
                 tasks' = [tasks EXCEPT ![t] = x] /\ x.rec = NoRecord /\ x.pc # "received"
    <3>4. \E x : Brings(x)
      <4>1. CASE tasks' = [tasks EXCEPT ![t] = [drain(r) EXCEPT !.pc = "drainDelete"]]
        <5>1. Brings([drain(r) EXCEPT !.pc = "drainDelete"])
          BY <3>2, <4>1 DEF Idle
        <5> QED BY <5>1
      <4>2. CASE tasks' = [tasks EXCEPT ![t] = [Resumed(drain(r), r) EXCEPT
                                                  !.pc = "load", !.then = "recover"]]
        <5>1. Brings([Resumed(drain(r), r) EXCEPT !.pc = "load", !.then = "recover"])
          BY <3>3, <4>2 DEF Idle
        <5> QED BY <5>1
      <4>3. CASE tasks' = [tasks EXCEPT ![t] = [Resumed(drain(r), r) EXCEPT
                             !.pc = IF DrainKind(r) = "resume" THEN "mark" ELSE "claim"]]
        <5>1. Brings([Resumed(drain(r), r) EXCEPT
                        !.pc = IF DrainKind(r) = "resume" THEN "mark" ELSE "claim"])
          BY <3>3, <4>3 DEF Idle
        <5> QED BY <5>1
      <4> QED BY <3>1, <4>1, <4>2, <4>3
    <3> QED BY <1>1, <3>4
  <2> QED BY <2>1, <2>2, <2>3, <2>4, <2>5, <2>6, <2>7
<1> QED BY <1>2 DEF Holds, NoRecord

LEMMA AllHold ==
  ASSUME TInv, DInv, [Next]_vars
  PROVE  \A s \in Tasks : Holds(s)
<1>1. ASSUME NEW n \in Nodes, Crash(n) PROVE \A s \in Tasks : Holds(s)
  <2>1. \A s \in Tasks : tasks'[s] = Idle \/ tasks'[s] = tasks[s] BY <1>1 DEF Crash
  <2>2. Idle.rec = NoRecord /\ Idle.pc = "idle" BY DEF Idle
  <2> QED BY <2>1, <2>2 DEF Holds, NoRecord
<1>2. CASE \/ \E n \in Nodes : Freeze(n) \/ Expire(n) \/ Reconnect(n)
           \/ Close \/ SeedAges \/ LeaseExpires \/ UNCHANGED vars
  <2>1. tasks' = tasks
    BY <1>2 DEF Freeze, Expire, Reconnect, Close, SeedAges, LeaseExpires, vars
  <2> QED BY <2>1 DEF Holds
<1> QED BY <1>1, <1>2, TaskHolds, StartHolds DEF Next

\* What every goroutine holds is still behind the record.
LEMMA HeldKept ==
  ASSUME TInv, VInv, record' \in Record, RecordGoesOn \/ RecordBegins,
         NEW t \in Tasks, Holds(t)
  PROVE  /\ ReadOf(tasks'[t].rec, record', book'.lives)
         /\ tasks'[t].pc = "received" =>
              /\ tasks'[t].rec.stage = "result"
              /\ 1 <= wire'.received /\ wire'.received <= tasks'[t].rec.life
<1>1. ReadOf(tasks[t].rec, record', book'.lives)
  BY ReadKept, Numbers DEF VInv
<1>2. CASE tasks'[t].rec = tasks[t].rec
           /\ (tasks'[t].pc = "received" => tasks[t].pc = "received")
  <2>1. 1 <= wire.received => wire'.received = wire.received
    BY <1>2, Numbers DEF RecordGoesOn, RecordBegins
  <2> QED BY <1>1, <1>2, <2>1 DEF VInv
<1>3. CASE tasks'[t].rec.stage = "none" /\ tasks'[t].pc # "received"
  BY <1>3 DEF ReadOf
<1>4. CASE tasks'[t].rec = Mirrored(record) /\ record' = record /\ tasks'[t].pc # "received"
  <2> DEFINE m == Mirrored(record)
  <2>1. m.stage = record.stage /\ m.life = record.life /\ m.version = record.version
    BY StoresTyped DEF Mirrored, Record
  <2> HIDE DEF m
  <2>2. record.stage # "none" => record.life <= book'.lives
    BY <1>4, Numbers DEF VInv, RecordGoesOn, RecordBegins
  <2>3. ReadOf(m, record', book'.lives) BY <1>4, <2>1, <2>2, Numbers DEF ReadOf, Behind
  <2> QED BY <1>4, <2>3 DEF m
<1>5. CASE /\ tasks'[t].rec = record' /\ record.stage = "ack" /\ record'.stage = "result"
           /\ wire'.received = IF wire.received = 0 THEN record.life ELSE wire.received
  <2>1. RecordGoesOn BY <1>5 DEF RecordBegins
  <2>2. record'.life = record.life /\ book'.lives = book.lives BY <1>5, <2>1 DEF RecordGoesOn
  <2>3. record.life = book.lives /\ book.lives >= 1 BY <1>5 DEF VInv
  <2>4. record'.version \in Nat BY DEF Record
  <2>5. ReadOf(record', record', book'.lives)
    BY <1>5, <2>2, <2>3, <2>4, Numbers DEF ReadOf, Behind
  <2>6. 1 <= wire'.received /\ wire'.received <= record'.life
    BY <1>5, <2>2, <2>3, Numbers DEF VInv
  <2> QED BY <1>5, <2>5, <2>6
<1> QED BY <1>2, <1>3, <1>4, <1>5 DEF Holds

-----------------------------------------------------------------------------
(* The trackers                                                              *)

\* A tracker that is set, to what was read or for a record just created.
Set(e) == Mirrors(e, record', book'.lives, wire'.received)

LEMMA OneSet ==
  ASSUME TInv, VInv, record' \in Record, RecordGoesOn \/ RecordBegins,
         NEW n, NEW e, pending' = [pending EXCEPT ![n] = e], n \in Nodes => Set(e)
  PROVE  \A m \in Nodes : Set(pending'[m])
<1>1. \A m \in Nodes : pending'[m] = pending[m] \/ (m = n /\ pending'[m] = e)
  BY StoresTyped
<1>2. \A m \in Nodes : Set(pending[m])
  BY MirrorsKept, Numbers DEF VInv, Set
<1> QED BY <1>1, <1>2

LEMMA NoneSet ==
  ASSUME TInv, VInv, record' \in Record, RecordGoesOn \/ RecordBegins, pending' = pending
  PROVE  \A m \in Nodes : Set(pending'[m])
BY MirrorsKept, Numbers DEF VInv, Set

LEMMA EmptySet == Set(NoEntry)
BY DEF Set, Mirrors, NoEntry

LEMMA TrackersBehind ==
  ASSUME TInv, DInv, VInv, record' \in Record, RecordGoesOn \/ RecordBegins, [Next]_vars
  PROVE  \A m \in Nodes : Set(pending'[m])
<1>1. ASSUME NEW t \in Tasks, TaskStep(t) PROVE \A m \in Nodes : Set(pending'[m])
  <2> DEFINE r == tasks[t].rec
             old == Mine(t)
  <2>0. tasks[t].pc # "idle" =>
          /\ Node(t) \in Nodes /\ old \in Entry /\ Set(old)
          /\ old.life \in Nat /\ r.version \in Nat /\ r.life \in Nat
          /\ ReadOf(r, record', book'.lives)
    <3>1. Node(t) \in Nodes => Set(Mine(t)) /\ Mine(t).life \in Nat
      BY MirrorsKept, Numbers DEF VInv, Set, Mine
    <3>2. ReadOf(r, record', book'.lives) BY ReadKept, Numbers DEF VInv
    <3> QED BY <3>1, <3>2, Working, Numbers
  <2>1. CASE pending' = pending BY <2>1, NoneSet
  <2>2. CASE pending' = [pending EXCEPT ![Node(t)] = NoEntry] BY <2>2, OneSet, EmptySet
  <2>3. CASE Track(t)
    <3> DEFINE i == FreshId
               e == [id |-> i, stage |-> "ack", version |-> 1, attempt |-> 1,
                     gen |-> tasks[t].gen, life |-> tasks[t].life,
                     created |-> tasks[t].created, expired |-> FALSE]
    <3>1. pending' = [pending EXCEPT ![Node(t)] = e] BY <2>3 DEF Track
    <3>2. record' = record /\ book' = book /\ wire' = wire BY <2>3 DEF Track
    <3>3. tasks[t].life <= book.lives BY MineIs DEF Past
    <3>4. record.stage # "none" => 1 <= record.version BY Numbers DEF VInv
    <3>5. e.life = tasks[t].life /\ e.version = 1 /\ e.stage = "ack" OBVIOUS
    <3> HIDE DEF e
    <3>6. Set(e) BY <3>2, <3>3, <3>4, <3>5 DEF Set, Mirrors, Behind
    <3> QED BY <3>1, <3>6, OneSet
  <2>4. ASSUME NEW e, r.stage # "none", e.stage = r.stage, e.version = r.version,
               e.life = r.life
        PROVE  tasks[t].pc # "idle" => Set(e)
    BY <2>0, <2>4 DEF ReadOf, Set, Mirrors, Behind
  <2>5. CASE Sync(t)
    <3> DEFINE new == [old EXCEPT !.stage = r.stage, !.version = r.version,
                         !.attempt = r.attempt, !.gen = r.gen, !.life = r.life,
                         !.expired = FALSE]
               e == Synced(old, tasks[t].id, r)
    <3>0. tasks[t].pc # "idle" BY <2>5 DEF Sync, At
    <3>1. e = old \/ e = NoEntry \/ (r.stage # "none" /\ e = new) BY DEF Synced
    <3>2. new.stage = r.stage /\ new.version = r.version /\ new.life = r.life
      BY <2>0, <3>0 DEF Entry
    <3>3. pending' = [pending EXCEPT ![Node(t)] = e]
      BY <2>0, <2>5, <3>0, StoresTyped DEF Sync, Mine
    <3> HIDE DEF new, e
    <3>4. r.stage # "none" => Set(new) BY <2>4, <3>0, <3>2
    <3>5. Set(e) BY <2>0, <3>0, <3>1, <3>4, EmptySet
    <3> QED BY <3>3, <3>5, OneSet
  <2>6. CASE Recover(t)
    <3> DEFINE new == [id |-> FreshId, stage |-> r.stage, version |-> r.version,
                       attempt |-> r.attempt, gen |-> r.gen, life |-> r.life,
                       created |-> FALSE, expired |-> FALSE]
               e == Recovered(old, r)
    <3>0. tasks[t].pc # "idle" BY <2>6 DEF Recover, At
    <3>1. e = old \/ (r.stage # "none" /\ e = new) BY DEF Recovered
    <3>2. new.stage = r.stage /\ new.version = r.version /\ new.life = r.life OBVIOUS
    <3>3. pending' = [pending EXCEPT ![Node(t)] = e]
      BY <2>0, <2>6, <3>0, StoresTyped DEF Recover, Mine
    <3> HIDE DEF new, e
    <3>4. r.stage # "none" => Set(new) BY <2>4, <3>0, <3>2
    <3>5. Set(e) BY <2>0, <3>0, <3>1, <3>4
    <3> QED BY <3>3, <3>5, OneSet
  <2>7. CASE Bump(t)
    <3> DEFINE e == [old EXCEPT !.attempt = tasks[t].attempt]
    <3>0. tasks[t].pc # "idle" BY <2>7 DEF Bump, At
    <3>1. e.id = old.id /\ e.stage = old.stage /\ e.version = old.version /\ e.life = old.life
      BY <2>0, <3>0 DEF Entry
    <3>2. pending' = pending \/ pending' = [pending EXCEPT ![Node(t)] = e]
      BY <2>0, <2>7, <3>0, StoresTyped DEF Bump, Mine
    <3> HIDE DEF e
    <3>3. Set(e) BY <2>0, <3>0, <3>1 DEF Set, Mirrors, Behind
    <3> QED BY <2>1, <3>2, <3>3, OneSet
  <2>8. CASE Received(t)
    <3> DEFINE e == [old EXCEPT !.stage = "result", !.version = r.version,
                                !.attempt = r.attempt, !.expired = FALSE]
    <3>0. tasks[t].pc = "received" BY <2>8 DEF Received, At
    <3>1. e.id = old.id /\ e.stage = "result" /\ e.version = r.version /\ e.life = old.life
      BY <2>0, <3>0 DEF Entry
    <3>2. \/ pending' = pending
          \/ Mine(t).id = tasks[t].id /\ pending' = [pending EXCEPT ![Node(t)] = e]
      BY <2>0, <2>8, <3>0, StoresTyped DEF Received, Mine
    <3>3. record' = record /\ book' = book /\ wire' = wire BY <2>8 DEF Received
    <3>4. /\ r.stage = "result" /\ 1 <= wire.received /\ wire.received <= r.life
          /\ r.life <= book.lives /\ Behind(r, record)
      BY <3>0 DEF VInv, ReadOf
    <3> HIDE DEF e
    <3>5. Set(e)
      <4>1. old.id # 0 => old.life <= book.lives
        BY <2>0, <3>0, <3>3 DEF Set, Mirrors
      <4>2. ASSUME wire.received \in {0, book.lives} PROVE Behind(e, record)
        <5>1. wire.received \in Nat /\ book.lives \in Nat BY Numbers
        <5>2. r.life = book.lives BY <2>0, <3>0, <3>4, <4>2, <5>1
        <5>3. record.stage # "none" => r.life = record.life BY <5>2 DEF VInv
        <5> QED BY <3>1, <3>4, <5>3 DEF Behind
      <4> QED BY <3>1, <3>3, <4>1, <4>2 DEF Set, Mirrors
    <3> QED BY <2>1, <3>2, <3>5, OneSet
  <2>9. CASE RollbackDrop(t) \/ RetireCheck(t)
    BY <2>1, <2>2, <2>9 DEF RollbackDrop, RetireCheck
  <2>10. CASE Seed(t) \/ Adopt(t) \/ Create(t) \/ Send(t) \/ Rollback(t) \/ RollbackDelete(t)
             \/ Unindex(t) \/ DeleteSeed(t) \/ Load(t) \/ Claim(t) \/ Mark(t) \/ Recheck(t)
             \/ RetrySend(t) \/ Release(t) \/ DrainDelete(t) \/ Advance(t) \/ RetireDelete(t)
             \/ SweepCheck(t)
    <3>1. pending' = pending
      BY <2>10 DEF Seed, Adopt, Create, Send, Rollback, RollbackDelete, Unindex, DeleteSeed,
                  Load, Claim, Mark, Recheck, RetrySend, Release, DrainDelete, Advance,
                  RetireDelete, SweepCheck
    <3> QED BY <2>1, <3>1
  <2> QED BY <1>1, <2>3, <2>5, <2>6, <2>7, <2>8, <2>9, <2>10 DEF TaskStep
<1>2. ASSUME NEW n \in Nodes, Freeze(n) \/ Crash(n) PROVE \A m \in Nodes : Set(pending'[m])
  BY <1>2, OneSet, EmptySet DEF Freeze, Crash
<1>3. ASSUME NEW n \in Nodes, Expire(n) PROVE \A m \in Nodes : Set(pending'[m])
  <2> DEFINE e == [pending[n] EXCEPT !.expired = TRUE]
  <2>1. pending' = [pending EXCEPT ![n] = e] BY <1>3 DEF Expire
  <2>2. e.id = pending[n].id /\ e.stage = pending[n].stage /\ e.version = pending[n].version
        /\ e.life = pending[n].life
    BY EntryTyped DEF Entry
  <2>3. Set(pending[n]) BY MirrorsKept, Numbers DEF VInv, Set
  <2> HIDE DEF e
  <2>4. Set(e) BY <2>2, <2>3 DEF Set, Mirrors, Behind
  <2> QED BY <2>1, <2>4, OneSet
<1>4. CASE \/ Begins
           \/ \E n \in Nodes : Reconnect(n)
           \/ Close \/ SeedAges \/ LeaseExpires \/ UNCHANGED vars
  <2>1. pending' = pending
    BY <1>4, BeginsAlone DEF Reconnect, Close, SeedAges, LeaseExpires, vars
  <2> QED BY <2>1, NoneSet
<1> QED BY <1>1, <1>2, <1>3, <1>4 DEF Next, Begins

LEMMA VInvStep == ASSUME TInv, DInv, VInv, [Next]_vars PROVE VInv'
<1>1. record' \in Record BY StepsCounted, RecordAfter
<1>2. RecordGoesOn \/ RecordBegins BY RecordGoes
<1>3. \A t \in Tasks : Holds(t) BY AllHold
<1>4. \A t \in Tasks :
        /\ ReadOf(tasks'[t].rec, record', book'.lives)
        /\ tasks'[t].pc = "received" =>
             /\ tasks'[t].rec.stage = "result"
             /\ 1 <= wire'.received /\ wire'.received <= tasks'[t].rec.life
  BY <1>1, <1>2, <1>3, HeldKept
<1>5. \A n \in Nodes : Mirrors(pending'[n], record', book'.lives, wire'.received)
  BY <1>1, <1>2, TrackersBehind DEF Set
<1>6. /\ record'.stage # "none" =>
           record'.life = book'.lives /\ book'.lives >= 1 /\ record'.version >= 1
      /\ wire'.received <= book'.lives
  <2>0. record'.version \in Nat BY <1>1 DEF Record
  <2>1. CASE RecordGoesOn BY <2>0, <2>1, Numbers DEF RecordGoesOn, VInv
  <2>2. CASE RecordBegins BY <2>2, Numbers DEF RecordBegins, VInv
  <2> QED BY <1>2, <2>1, <2>2
<1> QED BY <1>4, <1>5, <1>6 DEF VInv, ReadOf, Mirrors, Behind

LEMMA VInvInit == ASSUME Init PROVE VInv
BY DEF Init, VInv, ReadOf, Mirrors, Idle, NoRecord, NoEntry

\* No node's tracker is ahead of the record it mirrors, whatever rollbacks, recoveries,
\* drains and late handlers of ACKs do, before an earlier record was acknowledged and lost.
THEOREM NeverAhead == Spec => []TrackerNeverAhead
<1>1. Init => TInv /\ VInv BY TInvInit, VInvInit
<1>2. TInv /\ VInv /\ DInv /\ [Next]_vars => TInv' /\ VInv' BY TInvStep, VInvStep
<1>3. VInv => TrackerNeverAhead
  BY DEF VInv, Mirrors, Behind, TrackerNeverAhead, FirstReceived
<1> QED BY <1>1, <1>2, <1>3, InvariantHolds, PTL DEF Spec
=============================================================================
