------------------------- MODULE OfflineQueue_proofs -------------------------
(***************************************************************************)
(* Proofs of QueuedOnce and of the types, for any bounds.  The key of       *)
(* an event is what keeps it single: whoever holds a copy of the event - the *)
(* list, a drain, or the push that is about to append it - knows its key to  *)
(* be set, and a key is removed only by the one who holds the copy.          *)
(***************************************************************************)
EXTENDS OfflineQueue, TLAPS

Drainer == {"pop", "dispatch", "send", "rollback", "check", "clear", "putBack"}
Pusher == {"idle", "dispatch", "send", "rollback", "enqueue", "append", "undo"}
OneInHand == {"dispatch", "send", "rollback", "check", "clear"}

\* A task whose fields agree with each other.
Coherent(r) ==
  /\ r.kind = "push" => r.pc \in Pusher /\ r.held = <<>>
  /\ r.kind = "push" /\ r.pc # "idle" => r.event \in Events
  /\ r.kind = "drain" => r.pc \in Drainer /\ (r.event \in Events <=> r.pc \in OneInHand)
  /\ \A i, j \in DOMAIN r.held : r.held[i] = r.held[j] => i = j
  /\ \A i \in DOMAIN r.held : r.held[i] # r.event

\* Task r has the copy of event e.
Holds(r, e) ==
  \/ r.kind = "drain" /\ (r.event = e \/ \E i \in DOMAIN r.held : r.held[i] = e)
  \/ r.kind = "push" /\ r.pc \in {"append", "undo"} /\ r.event = e

Lists(q, e) == \E i \in DOMAIN q : q[i] = e

TasksOK == tasks \in [Tasks -> Task] /\ \A t \in Tasks : Coherent(tasks[t])

ListOK ==
  /\ queue \in Seq(Events)
  /\ \A i, j \in DOMAIN queue : queue[i] = queue[j] => i = j
  /\ \A e \in Events : Lists(queue, e) => e \in dedup

HeldOnce ==
  \A t \in Tasks : \A e \in Events : Holds(tasks[t], e) =>
    /\ e \in dedup
    /\ ~Lists(queue, e)
    /\ \A s \in Tasks : Holds(tasks[s], e) => s = t

QInv == TasksOK /\ ListOK /\ HeldOnce

-----------------------------------------------------------------------------
(* The list                                                                  *)

\* What is kept of a list is a suffix of it.
LEMMA KeptIsSuffix ==
  ASSUME NEW q \in Seq(Events)
  PROVE  /\ LastKept(q) \in Seq(Events)
         /\ \E d \in Nat : \A i \in DOMAIN LastKept(q) :
              i + d \in DOMAIN q /\ LastKept(q)[i] = q[i + d]
<1>0. MaxKeep \in Nat \ {0} BY ConstantsAssumption
<1>1. CASE Len(q) > MaxKeep
  <2>1. LastKept(q) = SubSeq(q, Len(q) - MaxKeep + 1, Len(q)) BY <1>1 DEF LastKept
  <2> DEFINE d == Len(q) - MaxKeep
  <2>2. d \in Nat BY <1>0, <1>1
  <2>3. LastKept(q) \in Seq(Events) BY <1>0, <1>1, <2>1
  <2>4. \A i \in DOMAIN LastKept(q) : i + d \in DOMAIN q /\ LastKept(q)[i] = q[i + d]
    BY <1>0, <1>1, <2>1
  <2> QED BY <2>2, <2>3, <2>4
<1>2. CASE ~(Len(q) > MaxKeep)
  <2>1. LastKept(q) = q BY <1>2 DEF LastKept
  <2>2. \A i \in DOMAIN q : i + 0 \in DOMAIN q /\ q[i] = q[i + 0] OBVIOUS
  <2> QED BY <2>1, <2>2
<1> QED BY <1>1, <1>2

\* A list with one more event at its end, cut to length, lists that event and some of
\* what it listed, and nothing twice.
LEMMA AppendKeeps ==
  ASSUME NEW q \in Seq(Events), NEW e \in Events, ~Lists(q, e),
         \A i, j \in DOMAIN q : q[i] = q[j] => i = j
  PROVE  LET k == LastKept(Append(q, e)) IN
         /\ k \in Seq(Events)
         /\ \A i, j \in DOMAIN k : k[i] = k[j] => i = j
         /\ \A x \in Events : Lists(k, x) => x = e \/ Lists(q, x)
<1> DEFINE a == Append(q, e)
           k == LastKept(a)
<1>1. a \in Seq(Events) /\ Len(a) = Len(q) + 1 /\ DOMAIN a = 1..Len(q) + 1
  OBVIOUS
<1>2. \A i \in DOMAIN a : a[i] = IF i = Len(q) + 1 THEN e ELSE q[i]
  OBVIOUS
<1>3. \A i, j \in DOMAIN a : a[i] = a[j] => i = j
  BY <1>1, <1>2 DEF Lists
<1>4. k \in Seq(Events) BY <1>1, KeptIsSuffix
<1>5. PICK d \in Nat : \A i \in DOMAIN k : i + d \in DOMAIN a /\ k[i] = a[i + d]
  <2> HIDE DEF a
  <2> QED BY <1>1, KeptIsSuffix
<1> HIDE DEF k
<1>6. DOMAIN k \subseteq Nat BY <1>4
<1>7. \A i, j \in DOMAIN k : k[i] = k[j] => i = j
  <2> SUFFICES ASSUME NEW i \in DOMAIN k, NEW j \in DOMAIN k, k[i] = k[j] PROVE i = j
    OBVIOUS
  <2>1. i + d = j + d BY <1>3, <1>5
  <2> QED BY <1>6, <2>1
<1>8. \A x \in Events : Lists(k, x) => x = e \/ Lists(q, x)
  <2> SUFFICES ASSUME NEW x \in Events, Lists(k, x), x # e PROVE Lists(q, x)
    OBVIOUS
  <2>1. PICK i \in DOMAIN k : k[i] = x BY DEF Lists
  <2>2. i + d \in DOMAIN a /\ a[i + d] = x BY <1>5, <2>1
  <2> QED BY <1>1, <1>2, <2>2 DEF Lists
<1> QED BY <1>4, <1>7, <1>8 DEF k

\* What the list without its head holds.
LEMMA TailKeeps ==
  ASSUME NEW q \in Seq(Events), q # <<>>,
         \A i, j \in DOMAIN q : q[i] = q[j] => i = j
  PROVE  /\ Head(q) \in Events /\ Lists(q, Head(q))
         /\ Tail(q) \in Seq(Events)
         /\ \A i, j \in DOMAIN Tail(q) : Tail(q)[i] = Tail(q)[j] => i = j
         /\ ~Lists(Tail(q), Head(q))
         /\ \A x \in Events : Lists(Tail(q), x) => Lists(q, x)
<1>1. Len(q) \in Nat \ {0} /\ DOMAIN q = 1..Len(q) /\ Head(q) = q[1] OBVIOUS
<1>2. /\ Tail(q) \in Seq(Events) /\ DOMAIN Tail(q) = 1..(Len(q) - 1)
      /\ \A i \in 1..(Len(q) - 1) : Tail(q)[i] = q[i + 1]
  OBVIOUS
<1>3. \A i \in 1..(Len(q) - 1) : i + 1 \in DOMAIN q /\ i + 1 # 1 /\ 1 \in DOMAIN q
  BY <1>1
<1>4. Head(q) \in Events /\ Lists(q, Head(q)) BY <1>1 DEF Lists
<1>5. \A i, j \in DOMAIN Tail(q) : Tail(q)[i] = Tail(q)[j] => i = j
  BY <1>1, <1>2, <1>3
<1>6. ~Lists(Tail(q), Head(q)) BY <1>1, <1>2, <1>3 DEF Lists
<1>7. \A x \in Events : Lists(Tail(q), x) => Lists(q, x) BY <1>2, <1>3 DEF Lists
<1> QED BY <1>2, <1>4, <1>5, <1>6, <1>7

\* A list with one more event at its head.
LEMMA PrependKeeps ==
  ASSUME NEW q \in Seq(Events), NEW e \in Events, ~Lists(q, e),
         \A i, j \in DOMAIN q : q[i] = q[j] => i = j
  PROVE  LET p == <<e>> \o q IN
         /\ p \in Seq(Events)
         /\ \A i, j \in DOMAIN p : p[i] = p[j] => i = j
         /\ \A x \in Events : Lists(p, x) => x = e \/ Lists(q, x)
<1> DEFINE p == <<e>> \o q
<1>1. p \in Seq(Events) /\ DOMAIN p = 1..(Len(q) + 1) OBVIOUS
<1>2. p[1] = e /\ \A i \in DOMAIN p : i # 1 => i - 1 \in DOMAIN q /\ p[i] = q[i - 1]
  OBVIOUS
<1> HIDE DEF p
<1>3. \A i, j \in DOMAIN p : p[i] = p[j] => i = j BY <1>1, <1>2 DEF Lists
<1>4. \A x \in Events : Lists(p, x) => x = e \/ Lists(q, x) BY <1>1, <1>2 DEF Lists
<1> QED BY <1>1, <1>3, <1>4 DEF p

\* What a drain that pops an event of another owner holds afterwards.
LEMMA HoldOneMore ==
  ASSUME NEW h \in Seq(Events), NEW e \in Events, ~Lists(h, e),
         \A i, j \in DOMAIN h : h[i] = h[j] => i = j
  PROVE  LET a == Append(h, e) IN
         /\ a \in Seq(Events)
         /\ \A i, j \in DOMAIN a : a[i] = a[j] => i = j
         /\ \A x : Lists(a, x) => x = e \/ Lists(h, x)
<1> DEFINE a == Append(h, e)
<1>1. a \in Seq(Events) /\ Len(h) \in Nat /\ DOMAIN a = 1..(Len(h) + 1) OBVIOUS
<1>2. \A i \in DOMAIN a : a[i] = IF i = Len(h) + 1 THEN e ELSE h[i] OBVIOUS
<1> HIDE DEF a
<1>3. \A i, j \in DOMAIN a : a[i] = a[j] => i = j BY <1>1, <1>2 DEF Lists
<1>4. \A x : Lists(a, x) => x = e \/ Lists(h, x) BY <1>1, <1>2 DEF Lists
<1> QED BY <1>1, <1>3, <1>4 DEF a

\* What a drain holds once it has put the last of its events back.
LEMMA HoldOneLess ==
  ASSUME NEW h \in Seq(Events), h # <<>>,
         \A i, j \in DOMAIN h : h[i] = h[j] => i = j
  PROVE  /\ Last(h) \in Events /\ Lists(h, Last(h))
         /\ Front(h) \in Seq(Events)
         /\ \A i, j \in DOMAIN Front(h) : Front(h)[i] = Front(h)[j] => i = j
         /\ ~Lists(Front(h), Last(h))
         /\ \A x : Lists(Front(h), x) => Lists(h, x)
<1>1. Len(h) \in Nat \ {0} /\ DOMAIN h = 1..Len(h) OBVIOUS
<1>2. /\ Front(h) \in Seq(Events) /\ DOMAIN Front(h) = 1..(Len(h) - 1)
      /\ \A i \in 1..(Len(h) - 1) : Front(h)[i] = h[i]
  BY <1>1 DEF Front
<1>3. Last(h) = h[Len(h)] /\ Len(h) \in DOMAIN h BY <1>1 DEF Last
<1>4. \A i \in 1..(Len(h) - 1) : i \in DOMAIN h /\ i # Len(h)
  <2>1. \A n \in Nat \ {0} : \A i \in 1..(n - 1) : i \in 1..n /\ i # n OBVIOUS
  <2> QED BY <1>1, <2>1
<1>5. Last(h) \in Events /\ Lists(h, Last(h)) BY <1>3 DEF Lists
<1>6. \A i, j \in DOMAIN Front(h) : Front(h)[i] = Front(h)[j] => i = j
  BY <1>2, <1>4
<1>7. ~Lists(Front(h), Last(h)) BY <1>2, <1>3, <1>4 DEF Lists
<1>8. \A x : Lists(Front(h), x) => Lists(h, x) BY <1>2, <1>4 DEF Lists
<1> QED BY <1>2, <1>5, <1>6, <1>7, <1>8

-----------------------------------------------------------------------------
(* One step of one task                                                      *)

Only(t) == \A s \in Tasks : s # t => tasks'[s] = tasks[s]

\* The step of task t that moves copies between the list and its hands.
LEMMA OneTask ==
  ASSUME QInv, NEW t \in Tasks,
         tasks' \in [Tasks -> Task], Coherent(tasks[t])', Only(t),
         ListOK',
         \A e \in Events : Holds(tasks'[t], e) =>
           /\ e \in dedup' /\ ~Lists(queue', e)
           /\ \A s \in Tasks : s # t => ~Holds(tasks[s], e),
         \A s \in Tasks : s # t => \A e \in Events : Holds(tasks[s], e) =>
           e \in dedup' /\ ~Lists(queue', e)
  PROVE  QInv'
<1>1. TasksOK' BY DEF QInv, TasksOK, Only
<1>2. HeldOnce'
  <2> SUFFICES ASSUME NEW r \in Tasks, NEW e \in Events, Holds(tasks'[r], e)
      PROVE e \in dedup' /\ ~Lists(queue', e)
            /\ \A s \in Tasks : Holds(tasks'[s], e) => s = r
    BY DEF HeldOnce
  <2>1. CASE r = t BY <2>1 DEF Only
  <2>2. CASE r # t
    <3>1. Holds(tasks[r], e) BY <2>2 DEF Only
    <3>2. ~Holds(tasks'[t], e) BY <2>2, <3>1
    <3>3. \A s \in Tasks : s # t => tasks'[s] = tasks[s] BY DEF Only
    <3>4. \A s \in Tasks : Holds(tasks[s], e) => s = r BY <3>1 DEF QInv, HeldOnce
    <3> QED BY <2>2, <3>1, <3>2, <3>3, <3>4
  <2> QED BY <2>1, <2>2
<1> QED BY <1>1, <1>2 DEF QInv

\* The step that changes neither the list nor a key and takes up no copy.
LEMMA NoCopyTaken ==
  ASSUME QInv, NEW t \in Tasks,
         tasks' \in [Tasks -> Task], Coherent(tasks[t])', Only(t),
         queue' = queue, dedup' = dedup,
         \A e \in Events : Holds(tasks'[t], e) => Holds(tasks[t], e)
  PROVE  QInv'
<1>1. ListOK' BY DEF QInv, ListOK
<1>2. \A e \in Events : Holds(tasks'[t], e) =>
        /\ e \in dedup' /\ ~Lists(queue', e)
        /\ \A s \in Tasks : s # t => ~Holds(tasks[s], e)
  BY DEF QInv, HeldOnce
<1>3. \A s \in Tasks : s # t => \A e \in Events : Holds(tasks[s], e) =>
        e \in dedup' /\ ~Lists(queue', e)
  BY DEF QInv, HeldOnce
<1> QED BY <1>1, <1>2, <1>3, OneTask

\* The task that goes on elsewhere, keeping what it has in hand.
LEMMA GoesOn ==
  ASSUME QInv, NEW t \in Tasks, NEW label \in PCs, Goto(t, label),
         queue' = queue, dedup' = dedup,
         Coherent([tasks[t] EXCEPT !.pc = label]),
         tasks[t].kind = "drain" \/ label \notin {"append", "undo"} \/ tasks[t].pc = "append"
  PROVE  QInv'
<1>1. tasks \in [Tasks -> Task] BY DEF QInv, TasksOK
<1>2. /\ tasks' \in [Tasks -> Task] /\ Only(t)
      /\ tasks'[t] = [tasks[t] EXCEPT !.pc = label]
  BY <1>1 DEF Goto, Task, Only
<1>3. Coherent(tasks[t])' BY <1>2
<1>4. \A e \in Events : Holds(tasks'[t], e) => Holds(tasks[t], e)
  BY <1>1, <1>2 DEF Holds, Task
<1> QED BY <1>2, <1>3, <1>4, NoCopyTaken

\* An idle task.
LEMMA IdleIsCoherent ==
  ASSUME NEW o \in Owners
  PROVE  Idle(o) \in Task /\ Coherent(Idle(o)) /\ \A e \in Events : ~Holds(Idle(o), e)
<1>1. <<>> \in Seq(Events) /\ DOMAIN <<>> = {} OBVIOUS
<1>2. Batch \in Nat /\ 0 \in 0..Batch BY ConstantsAssumption
<1>3. Idle(o) \in Task BY <1>1, <1>2 DEF Idle, Task, PCs
<1>4. Coherent(Idle(o)) BY <1>1 DEF Idle, Coherent, Pusher
<1>5. \A e \in Events : ~Holds(Idle(o), e) BY DEF Idle, Holds
<1> QED BY <1>3, <1>4, <1>5

LEMMA Ended ==
  ASSUME TasksOK, NEW t \in Tasks, End(t)
  PROVE  /\ tasks' \in [Tasks -> Task] /\ Only(t) /\ Coherent(tasks[t])'
         /\ \A e \in Events : ~Holds(tasks'[t], e)
<1>1. tasks \in [Tasks -> Task] BY DEF TasksOK
<1>2. tasks[t].owner \in Owners BY <1>1 DEF Task
<1>3. tasks' \in [Tasks -> Task] /\ Only(t) /\ tasks'[t] = Idle(tasks[t].owner)
  BY <1>1, <1>2, IdleIsCoherent DEF End, Only
<1> QED BY <1>2, <1>3, IdleIsCoherent

\* The task that ends, having neither list nor key to change.
LEMMA Ends ==
  ASSUME QInv, NEW t \in Tasks, End(t), queue' = queue, dedup' = dedup
  PROVE  QInv'
BY Ended, NoCopyTaken DEF QInv

-----------------------------------------------------------------------------
(* Pushes                                                                    *)

LEMMA StartPushKeeps ==
  ASSUME QInv, NEW t \in Tasks, NEW e \in Events, StartPush(t, e)
  PROVE  QInv'
<1> DEFINE r == [Idle(Owner[e]) EXCEPT !.event = e,
                   !.pc = IF Owner[e] \in online THEN "dispatch" ELSE "enqueue"]
<1>1. tasks \in [Tasks -> Task] BY DEF QInv, TasksOK
<1>2. Owner[e] \in Owners BY ConstantsAssumption
<1>3. Idle(Owner[e]) \in Task BY <1>2, IdleIsCoherent
<1>4. r \in Task BY <1>3 DEF Task, PCs
<1>5. tasks' = [tasks EXCEPT ![t] = r] BY DEF StartPush
<1>6. r.kind = "push" /\ r.held = <<>> /\ r.event = e /\ r.pc \in {"dispatch", "enqueue"}
  BY DEF Idle
<1> HIDE DEF r
<1>7. tasks' \in [Tasks -> Task] /\ Only(t) /\ tasks'[t] = r
  BY <1>1, <1>4, <1>5 DEF Only
<1>8. DOMAIN r.held = {} BY <1>6
<1>9. Coherent(r) BY <1>6, <1>8 DEF Coherent, Pusher
<1>10. \A x \in Events : ~Holds(r, x) BY <1>6 DEF Holds
<1>11. queue' = queue /\ dedup' = dedup BY DEF StartPush
<1> QED BY <1>7, <1>9, <1>10, <1>11, NoCopyTaken

\* What the place of a task tells of its kind and of the event in its hand.
LEMMA PlaceTells ==
  ASSUME TasksOK, NEW t \in Tasks
  PROVE  /\ tasks[t] \in Task /\ Coherent(tasks[t])
         /\ tasks[t].kind \in {"push", "drain"}
         /\ tasks[t].held \in Seq(Events)
         /\ tasks[t].pc \in OneInHand \cup {"enqueue", "append", "undo"}
              => tasks[t].event \in Events
         /\ tasks[t].pc \in {"enqueue", "append", "undo"} => tasks[t].kind = "push"
         /\ tasks[t].pc \in {"pop", "check", "clear", "putBack"} => tasks[t].kind = "drain"
<1>1. tasks[t] \in Task /\ Coherent(tasks[t]) BY DEF TasksOK
<1>2. tasks[t].kind \in {"push", "drain"} /\ tasks[t].held \in Seq(Events)
  BY <1>1 DEF Task
<1> QED BY <1>1, <1>2 DEF Coherent, Pusher, Drainer, OneInHand

LEMMA DispatchedKeeps ==
  ASSUME QInv, NEW t \in Tasks, tasks[t].pc \in {"dispatch", "send"}, Dispatched(t),
         queue' = queue, dedup' = dedup
  PROVE  QInv'
<1>1. CASE tasks[t].kind = "push" BY <1>1, Ends DEF Dispatched
<1>2. CASE tasks[t].kind # "push"
  <2>1. tasks[t].kind = "drain" /\ tasks[t] \in Task /\ Coherent(tasks[t])
    BY <1>2, PlaceTells DEF QInv
  <2>2. Goto(t, "clear") BY <1>2 DEF Dispatched
  <2>3. Coherent([tasks[t] EXCEPT !.pc = "clear"])
    BY <2>1 DEF Coherent, Task, Drainer, OneInHand
  <2> QED BY <2>1, <2>2, <2>3, GoesOn DEF PCs
<1> QED BY <1>1, <1>2

LEMMA DispatchKeeps ==
  ASSUME QInv, NEW t \in Tasks, Dispatch(t)
  PROVE  QInv'
<1>1. tasks[t].pc = "dispatch" /\ queue' = queue /\ dedup' = dedup
  BY DEF Dispatch, At
<1>2. tasks[t] \in Task /\ Coherent(tasks[t]) BY PlaceTells DEF QInv
<1>3. CASE Dispatched(t) BY <1>1, <1>3, DispatchedKeeps
<1>4. CASE Goto(t, "send")
  <2>1. Coherent([tasks[t] EXCEPT !.pc = "send"])
    BY <1>1, <1>2 DEF Coherent, Task, Drainer, Pusher, OneInHand
  <2> QED BY <1>1, <1>4, <2>1, GoesOn DEF PCs
<1> QED BY <1>3, <1>4 DEF Dispatch

LEMMA SendKeeps ==
  ASSUME QInv, NEW t \in Tasks, Send(t)
  PROVE  QInv'
<1>1. tasks[t].pc = "send" /\ queue' = queue /\ dedup' = dedup
  BY DEF Send, At
<1>2. tasks[t] \in Task /\ Coherent(tasks[t]) BY PlaceTells DEF QInv
<1>3. CASE Dispatched(t) BY <1>1, <1>3, DispatchedKeeps
<1>4. CASE Goto(t, "rollback")
  <2>1. Coherent([tasks[t] EXCEPT !.pc = "rollback"])
    BY <1>1, <1>2 DEF Coherent, Task, Drainer, Pusher, OneInHand
  <2> QED BY <1>1, <1>4, <2>1, GoesOn DEF PCs
<1> QED BY <1>3, <1>4 DEF Send

\* The drain that fails to send holds the event it had in hand.
LEMMA RollbackKeeps ==
  ASSUME QInv, NEW t \in Tasks, Rollback(t)
  PROVE  QInv'
<1>1. tasks[t].pc = "rollback" /\ queue' = queue /\ dedup' = dedup
  BY DEF Rollback, At
<1>2. tasks \in [Tasks -> Task] BY DEF QInv, TasksOK
<1>3. tasks[t] \in Task /\ Coherent(tasks[t]) /\ tasks[t].kind \in {"push", "drain"}
  BY PlaceTells DEF QInv
<1>4. CASE tasks[t].kind = "push"
  <2>1. Goto(t, "enqueue") BY <1>4 DEF Rollback, Goto
  <2>2. Coherent([tasks[t] EXCEPT !.pc = "enqueue"])
    BY <1>1, <1>3, <1>4 DEF Coherent, Task, Pusher
  <2> QED BY <1>1, <2>1, <2>2, GoesOn DEF PCs
<1>5. CASE tasks[t].kind = "drain"
  <2> DEFINE e == tasks[t].event
             h == tasks[t].held
             r == [tasks[t] EXCEPT !.pc = "putBack", !.event = NoEvent, !.held = Append(h, e)]
  <2>1. e \in Events /\ h \in Seq(Events) BY <1>1, PlaceTells DEF QInv, OneInHand
  <2>2. ~Lists(h, e) /\ \A i, j \in DOMAIN h : h[i] = h[j] => i = j
    BY <1>3 DEF Coherent, Lists
  <2>3. /\ Append(h, e) \in Seq(Events)
        /\ \A i, j \in DOMAIN Append(h, e) : Append(h, e)[i] = Append(h, e)[j] => i = j
        /\ \A x : Lists(Append(h, e), x) => x = e \/ Lists(h, x)
    BY <2>1, <2>2, HoldOneMore
  <2>4. r \in Task /\ r.kind = "drain" /\ r.pc = "putBack" /\ r.event = NoEvent
        /\ r.held = Append(h, e)
    BY <1>3, <1>5, <2>3 DEF Task, PCs
  <2>5. tasks' = [tasks EXCEPT ![t] = r] BY <1>2, <1>5 DEF Rollback
  <2> HIDE DEF r
  <2>6. tasks' \in [Tasks -> Task] /\ Only(t) /\ tasks'[t] = r
    BY <1>2, <2>4, <2>5 DEF Only
  <2>7. \A i \in DOMAIN r.held : r.held[i] \in Events BY <2>3, <2>4
  <2>8. NoEvent \notin Events BY ConstantsAssumption
  <2>9. Coherent(r) BY <2>3, <2>4, <2>7, <2>8 DEF Coherent, Drainer, OneInHand
  <2>10. \A x \in Events : Holds(r, x) => Holds(tasks[t], x)
    BY <1>5, <2>3, <2>4, <2>8 DEF Holds, Lists
  <2> QED BY <1>1, <2>6, <2>9, <2>10, NoCopyTaken
<1> QED BY <1>3, <1>4, <1>5

\* The push that sets the key of an event is the first to hold it.
LEMMA EnqueueKeeps ==
  ASSUME QInv, NEW t \in Tasks, Enqueue(t)
  PROVE  QInv'
<1> DEFINE e == tasks[t].event
<1>1. tasks[t].pc = "enqueue" /\ queue' = queue BY DEF Enqueue, At
<1>2. CASE End(t) /\ dedup' = dedup BY <1>1, <1>2, Ends
<1>3. CASE e \notin dedup /\ dedup' = dedup \cup {e} /\ Goto(t, "append")
  <2>1. tasks \in [Tasks -> Task] BY DEF QInv, TasksOK
  <2>2. tasks[t] \in Task /\ Coherent(tasks[t]) /\ tasks[t].kind = "push" /\ e \in Events
    BY <1>1, PlaceTells DEF QInv
  <2>3. /\ tasks' \in [Tasks -> Task] /\ Only(t)
        /\ tasks'[t] = [tasks[t] EXCEPT !.pc = "append"]
    <3>1. [tasks[t] EXCEPT !.pc = "append"] \in Task BY <2>2 DEF Task, PCs
    <3>2. tasks' = [tasks EXCEPT ![t] = [tasks[t] EXCEPT !.pc = "append"]] BY <1>3 DEF Goto
    <3> QED BY <2>1, <3>1, <3>2 DEF Only
  <2>4. Coherent(tasks'[t]) BY <2>2, <2>3 DEF Coherent, Task, Pusher
  <2>5. \A x \in Events : Holds(tasks'[t], x) => x = e
    BY <2>2, <2>3 DEF Holds, Task
  <2>6. ListOK' BY <1>1, <1>3 DEF QInv, ListOK
  <2>7. ~Lists(queue, e) /\ \A s \in Tasks : ~Holds(tasks[s], e)
    BY <1>3, <2>2 DEF QInv, ListOK, HeldOnce
  <2>8. \A s \in Tasks : \A x \in Events : Holds(tasks[s], x) =>
          x \in dedup' /\ ~Lists(queue', x)
    BY <1>1, <1>3 DEF QInv, HeldOnce
  <2>9. \A x \in Events : Holds(tasks'[t], x) =>
          /\ x \in dedup' /\ ~Lists(queue', x)
          /\ \A s \in Tasks : s # t => ~Holds(tasks[s], x)
    BY <1>1, <1>3, <2>5, <2>7
  <2> QED BY <2>3, <2>4, <2>6, <2>8, <2>9, OneTask
<1> QED BY <1>2, <1>3 DEF Enqueue

LEMMA AppendEventKeeps ==
  ASSUME QInv, NEW t \in Tasks, AppendEvent(t)
  PROVE  QInv'
<1> DEFINE e == tasks[t].event
<1>1. tasks[t].pc = "append" /\ dedup' = dedup BY DEF AppendEvent, At
<1>2. tasks[t] \in Task /\ Coherent(tasks[t]) /\ tasks[t].kind = "push" /\ e \in Events
  BY <1>1, PlaceTells DEF QInv
<1>3. CASE queue' = LastKept(Append(queue, e)) /\ End(t)
  <2>1. Holds(tasks[t], e) BY <1>1, <1>2 DEF Holds
  <2>2. e \in dedup /\ ~Lists(queue, e) /\ \A s \in Tasks : Holds(tasks[s], e) => s = t
    BY <1>2, <2>1 DEF QInv, HeldOnce
  <2>3. /\ queue' \in Seq(Events)
        /\ \A i, j \in DOMAIN queue' : queue'[i] = queue'[j] => i = j
        /\ \A x \in Events : Lists(queue', x) => x = e \/ Lists(queue, x)
    BY <1>2, <1>3, <2>2, AppendKeeps DEF QInv, ListOK
  <2>4. ListOK' BY <1>1, <2>2, <2>3 DEF QInv, ListOK
  <2>5. /\ tasks' \in [Tasks -> Task] /\ Only(t) /\ Coherent(tasks[t])'
        /\ \A x \in Events : ~Holds(tasks'[t], x)
    BY <1>3, Ended DEF QInv
  <2>6. \A s \in Tasks : s # t => \A x \in Events : Holds(tasks[s], x) =>
          x \in dedup' /\ ~Lists(queue', x)
    BY <1>1, <2>2, <2>3 DEF QInv, HeldOnce
  <2> QED BY <2>4, <2>5, <2>6, OneTask
<1>4. CASE queue' = queue /\ Goto(t, "undo")
  <2>1. Coherent([tasks[t] EXCEPT !.pc = "undo"])
    BY <1>2 DEF Coherent, Task, Pusher
  <2> QED BY <1>1, <1>4, <2>1, GoesOn DEF PCs
<1> QED BY <1>3, <1>4 DEF AppendEvent

\* The task that removes the key of an event holds it, and holds it no longer.
LEMMA KeyRemoved ==
  ASSUME QInv, NEW t \in Tasks, NEW e \in Events, Holds(tasks[t], e),
         tasks' \in [Tasks -> Task], Coherent(tasks[t])', Only(t),
         queue' = queue, dedup' = dedup \ {e},
         \A x \in Events : Holds(tasks'[t], x) => x # e /\ Holds(tasks[t], x)
  PROVE  QInv'
<1>1. ~Lists(queue, e) /\ \A s \in Tasks : Holds(tasks[s], e) => s = t
  BY DEF QInv, HeldOnce
<1>2. ListOK' BY <1>1 DEF QInv, ListOK
<1>3. \A s \in Tasks : s # t => \A x \in Events : Holds(tasks[s], x) =>
        x \in dedup' /\ ~Lists(queue', x)
  BY <1>1 DEF QInv, HeldOnce
<1>4. \A x \in Events : Holds(tasks'[t], x) =>
        /\ x \in dedup' /\ ~Lists(queue', x)
        /\ \A s \in Tasks : s # t => ~Holds(tasks[s], x)
  BY DEF QInv, HeldOnce
<1> QED BY <1>2, <1>3, <1>4, OneTask

LEMMA UndoKeeps ==
  ASSUME QInv, NEW t \in Tasks, Undo(t)
  PROVE  QInv'
<1> DEFINE e == tasks[t].event
<1>1. /\ tasks[t].pc = "undo" /\ queue' = queue /\ dedup' = dedup \ {e} /\ End(t)
  BY DEF Undo, At
<1>2. tasks[t].kind = "push" /\ e \in Events BY <1>1, PlaceTells DEF QInv
<1>3. Holds(tasks[t], e) BY <1>1, <1>2 DEF Holds
<1>4. /\ tasks' \in [Tasks -> Task] /\ Only(t) /\ Coherent(tasks[t])'
      /\ \A x \in Events : ~Holds(tasks'[t], x)
  BY <1>1, Ended DEF QInv
<1> QED BY <1>1, <1>2, <1>3, <1>4, KeyRemoved

-----------------------------------------------------------------------------
(* Drains                                                                    *)

LEMMA StartDrainKeeps ==
  ASSUME QInv, NEW t \in Tasks, NEW o \in Owners, StartDrain(t, o)
  PROVE  QInv'
<1> DEFINE r == [Idle(o) EXCEPT !.kind = "drain", !.pc = "pop"]
<1>1. tasks \in [Tasks -> Task] BY DEF QInv, TasksOK
<1>2. Idle(o) \in Task BY IdleIsCoherent
<1>3. r \in Task BY <1>2 DEF Task, PCs
<1>4. tasks' = [tasks EXCEPT ![t] = r] BY DEF StartDrain
<1>5. r.kind = "drain" /\ r.held = <<>> /\ r.event = NoEvent /\ r.pc = "pop"
  BY DEF Idle
<1> HIDE DEF r
<1>6. tasks' \in [Tasks -> Task] /\ Only(t) /\ tasks'[t] = r
  BY <1>1, <1>3, <1>4 DEF Only
<1>7. DOMAIN r.held = {} /\ NoEvent \notin Events BY <1>5, ConstantsAssumption
<1>8. Coherent(r) BY <1>5, <1>7 DEF Coherent, Drainer, OneInHand
<1>9. \A x \in Events : ~Holds(r, x) BY <1>5, <1>7 DEF Holds
<1>10. queue' = queue /\ dedup' = dedup BY DEF StartDrain
<1> QED BY <1>6, <1>8, <1>9, <1>10, NoCopyTaken

\* The drain takes the head of the list over, to dispatch it or to hold it.
LEMMA HeadTaken ==
  ASSUME QInv, NEW t \in Tasks, queue # <<>>, queue' = Tail(queue), dedup' = dedup,
         tasks' \in [Tasks -> Task], Coherent(tasks[t])', Only(t),
         \A x \in Events : Holds(tasks'[t], x) => x = Head(queue) \/ Holds(tasks[t], x)
  PROVE  QInv'
<1>1. /\ Head(queue) \in Events /\ Lists(queue, Head(queue))
      /\ queue' \in Seq(Events)
      /\ \A i, j \in DOMAIN queue' : queue'[i] = queue'[j] => i = j
      /\ ~Lists(queue', Head(queue))
      /\ \A x \in Events : Lists(queue', x) => Lists(queue, x)
  BY TailKeeps DEF QInv, ListOK
<1>2. Head(queue) \in dedup /\ \A s \in Tasks : ~Holds(tasks[s], Head(queue))
  BY <1>1 DEF QInv, ListOK, HeldOnce
<1>3. ListOK' BY <1>1 DEF QInv, ListOK
<1>4. \A s \in Tasks : \A x \in Events : Holds(tasks[s], x) =>
        x \in dedup' /\ ~Lists(queue', x)
  BY <1>1 DEF QInv, HeldOnce
<1>5. \A x \in Events : Holds(tasks'[t], x) =>
        /\ x \in dedup' /\ ~Lists(queue', x)
        /\ \A s \in Tasks : s # t => ~Holds(tasks[s], x)
  BY <1>1, <1>2, <1>4 DEF QInv, HeldOnce
<1> QED BY <1>3, <1>4, <1>5, OneTask

LEMMA PopKeeps ==
  ASSUME QInv, NEW t \in Tasks, Pop(t)
  PROVE  QInv'
<1> DEFINE e == Head(queue)
           h == tasks[t].held
<1>1. tasks[t].pc = "pop" /\ dedup' = dedup BY DEF Pop, At
<1>2. tasks \in [Tasks -> Task] BY DEF QInv, TasksOK
<1>3. /\ tasks[t] \in Task /\ Coherent(tasks[t]) /\ tasks[t].kind = "drain"
      /\ h \in Seq(Events) /\ tasks[t].event \notin Events
  BY <1>1, PlaceTells DEF QInv, Coherent, OneInHand
<1>4. CASE queue' = queue /\ Goto(t, "putBack")
  <2>1. Coherent([tasks[t] EXCEPT !.pc = "putBack"])
    BY <1>3 DEF Coherent, Task, Drainer, OneInHand
  <2> QED BY <1>1, <1>3, <1>4, <2>1, GoesOn DEF PCs
<1>5. CASE /\ queue # <<>> /\ tasks[t].popped < Batch /\ queue' = Tail(queue)
           /\ tasks' = IF Owner[e] = tasks[t].owner
                       THEN [tasks EXCEPT ![t].pc = "check", ![t].event = e,
                                          ![t].popped = @ + 1]
                       ELSE [tasks EXCEPT ![t].held = Append(@, e), ![t].popped = @ + 1]
  <2>1. e \in Events /\ Lists(queue, e)
    BY <1>5, TailKeeps DEF QInv, ListOK
  <2>2. ~Holds(tasks[t], e) BY <2>1 DEF QInv, HeldOnce
  <2>3. ~Lists(h, e) /\ \A i, j \in DOMAIN h : h[i] = h[j] => i = j
    BY <1>3, <2>2 DEF Holds, Lists, Coherent
  <2>4. tasks[t].popped + 1 \in 0..Batch
    <3>1. tasks[t].popped \in 0..Batch /\ Batch \in Nat
      BY <1>3, ConstantsAssumption DEF Task
    <3> QED BY <1>5, <3>1
  <2>5. CASE Owner[e] = tasks[t].owner
    <3> DEFINE r == [tasks[t] EXCEPT !.pc = "check", !.event = e, !.popped = @ + 1]
    <3>1. /\ r \in Task /\ r.kind = "drain" /\ r.pc = "check" /\ r.event = e /\ r.held = h
      BY <1>3, <2>1, <2>4 DEF Task, PCs
    <3>2. tasks' = [tasks EXCEPT ![t] = r] BY <1>2, <1>5, <2>5
    <3> HIDE DEF r
    <3>3. tasks' \in [Tasks -> Task] /\ Only(t) /\ tasks'[t] = r
      BY <1>2, <3>1, <3>2 DEF Only
    <3>4. Coherent(r) BY <2>1, <2>3, <3>1 DEF Coherent, Drainer, OneInHand, Lists
    <3>5. \A x \in Events : Holds(r, x) => x = e \/ Holds(tasks[t], x)
      BY <1>3, <3>1 DEF Holds
    <3> QED BY <1>1, <1>5, <3>3, <3>4, <3>5, HeadTaken
  <2>6. CASE Owner[e] # tasks[t].owner
    <3> DEFINE r == [tasks[t] EXCEPT !.held = Append(h, e), !.popped = @ + 1]
    <3>1. /\ Append(h, e) \in Seq(Events)
          /\ \A i, j \in DOMAIN Append(h, e) : Append(h, e)[i] = Append(h, e)[j] => i = j
          /\ \A x : Lists(Append(h, e), x) => x = e \/ Lists(h, x)
      BY <1>3, <2>1, <2>3, HoldOneMore
    <3>2. /\ r \in Task /\ r.kind = "drain" /\ r.pc = "pop" /\ r.event = tasks[t].event
          /\ r.held = Append(h, e)
      BY <1>1, <1>3, <2>4, <3>1 DEF Task
    <3>3. tasks' = [tasks EXCEPT ![t] = r] BY <1>2, <1>5, <2>6
    <3> HIDE DEF r
    <3>4. tasks' \in [Tasks -> Task] /\ Only(t) /\ tasks'[t] = r
      BY <1>2, <3>2, <3>3 DEF Only
    <3>5. \A i \in DOMAIN r.held : r.held[i] \in Events BY <3>1, <3>2
    <3>6. Coherent(r) BY <1>3, <3>1, <3>2, <3>5 DEF Coherent, Drainer, OneInHand
    <3>7. \A x \in Events : Holds(r, x) => x = e \/ Holds(tasks[t], x)
      BY <1>3, <3>1, <3>2 DEF Holds, Lists
    <3> QED BY <1>1, <1>5, <3>4, <3>6, <3>7, HeadTaken
  <2> QED BY <2>5, <2>6
<1> QED BY <1>4, <1>5 DEF Pop

LEMMA CheckKeeps ==
  ASSUME QInv, NEW t \in Tasks, Check(t)
  PROVE  QInv'
<1> DEFINE label == IF tasks[t].event \in recorded THEN "clear" ELSE "dispatch"
<1>1. /\ tasks[t].pc = "check" /\ queue' = queue /\ dedup' = dedup /\ Goto(t, label)
  BY DEF Check, At
<1>2. tasks[t] \in Task /\ Coherent(tasks[t]) /\ tasks[t].kind = "drain"
  BY <1>1, PlaceTells DEF QInv
<1>3. label \in {"clear", "dispatch"} OBVIOUS
<1> HIDE DEF label
<1>4. Coherent([tasks[t] EXCEPT !.pc = label])
  BY <1>1, <1>2, <1>3 DEF Coherent, Task, Drainer, OneInHand
<1> QED BY <1>1, <1>2, <1>3, <1>4, GoesOn DEF PCs

LEMMA ClearKeeps ==
  ASSUME QInv, NEW t \in Tasks, Clear(t)
  PROVE  QInv'
<1> DEFINE e == tasks[t].event
           r == [tasks[t] EXCEPT !.pc = "pop", !.event = NoEvent]
<1>1. tasks[t].pc = "clear" /\ queue' = queue /\ dedup' = dedup \ {e}
  BY DEF Clear, At
<1>2. tasks \in [Tasks -> Task] BY DEF QInv, TasksOK
<1>3. /\ tasks[t] \in Task /\ Coherent(tasks[t]) /\ tasks[t].kind = "drain"
      /\ e \in Events /\ tasks[t].held \in Seq(Events)
  BY <1>1, PlaceTells DEF QInv, OneInHand
<1>4. /\ r \in Task /\ r.kind = "drain" /\ r.pc = "pop" /\ r.event = NoEvent
      /\ r.held = tasks[t].held
  BY <1>3 DEF Task, PCs
<1>5. tasks' = [tasks EXCEPT ![t] = r] BY <1>2 DEF Clear
<1> HIDE DEF r
<1>6. tasks' \in [Tasks -> Task] /\ Only(t) /\ tasks'[t] = r
  BY <1>2, <1>4, <1>5 DEF Only
<1>7. NoEvent \notin Events BY ConstantsAssumption
<1>8. \A i \in DOMAIN r.held : r.held[i] \in Events BY <1>3, <1>4
<1>9. Coherent(r) BY <1>3, <1>4, <1>7, <1>8 DEF Coherent, Drainer, OneInHand
<1>10. \A x \in Events : Holds(r, x) => x # e /\ Holds(tasks[t], x)
  BY <1>3, <1>4, <1>7 DEF Holds, Coherent
<1>11. Holds(tasks[t], e) BY <1>3 DEF Holds
<1> QED BY <1>1, <1>3, <1>6, <1>9, <1>10, <1>11, KeyRemoved

\* An event that is put back passes from the hands of the drain to the list; the one
\* whose call fails is lost to both.
LEMMA PutBackKeeps ==
  ASSUME QInv, NEW t \in Tasks, PutBack(t)
  PROVE  QInv'
<1> DEFINE h == tasks[t].held
           e == Last(h)
<1>1. tasks[t].pc = "putBack" /\ dedup' = dedup BY DEF PutBack, At
<1>2. tasks \in [Tasks -> Task] BY DEF QInv, TasksOK
<1>3. /\ tasks[t] \in Task /\ Coherent(tasks[t]) /\ tasks[t].kind = "drain"
      /\ h \in Seq(Events) /\ tasks[t].event \notin Events
  BY <1>1, PlaceTells DEF QInv, Coherent, OneInHand
<1>4. CASE queue' = queue /\ End(t) BY <1>1, <1>4, Ends
<1>5. CASE /\ h # <<>> /\ queue' \in {queue, <<e>> \o queue}
           /\ tasks' = [tasks EXCEPT ![t].held = Front(@)]
  <2> DEFINE r == [tasks[t] EXCEPT !.held = Front(h)]
  <2>1. /\ e \in Events /\ Lists(h, e) /\ Front(h) \in Seq(Events)
        /\ \A i, j \in DOMAIN Front(h) : Front(h)[i] = Front(h)[j] => i = j
        /\ ~Lists(Front(h), e)
        /\ \A x : Lists(Front(h), x) => Lists(h, x)
    BY <1>3, <1>5, HoldOneLess DEF Coherent
  <2>2. /\ r \in Task /\ r.kind = "drain" /\ r.pc = "putBack"
        /\ r.event = tasks[t].event /\ r.held = Front(h)
    BY <1>1, <1>3, <2>1 DEF Task
  <2>3. tasks' = [tasks EXCEPT ![t] = r] BY <1>2, <1>5
  <2> HIDE DEF r
  <2>4. tasks' \in [Tasks -> Task] /\ Only(t) /\ tasks'[t] = r
    BY <1>2, <2>2, <2>3 DEF Only
  <2>5. \A i \in DOMAIN r.held : r.held[i] \in Events BY <2>1, <2>2
  <2>6. Coherent(r) BY <1>3, <2>1, <2>2, <2>5 DEF Coherent, Drainer, OneInHand
  <2>7. \A x \in Events : Holds(r, x) => x # e /\ Holds(tasks[t], x)
    BY <1>3, <2>1, <2>2 DEF Holds, Lists
  <2>8. CASE queue' = queue
    BY <1>1, <2>4, <2>6, <2>7, <2>8, NoCopyTaken
  <2>9. CASE queue' = <<e>> \o queue
    <3>1. Holds(tasks[t], e) BY <1>3, <2>1 DEF Holds, Lists
    <3>2. e \in dedup /\ ~Lists(queue, e) /\ \A s \in Tasks : Holds(tasks[s], e) => s = t
      BY <2>1, <3>1 DEF QInv, HeldOnce
    <3>3. /\ queue' \in Seq(Events)
          /\ \A i, j \in DOMAIN queue' : queue'[i] = queue'[j] => i = j
          /\ \A x \in Events : Lists(queue', x) => x = e \/ Lists(queue, x)
      BY <2>1, <2>9, <3>2, PrependKeeps DEF QInv, ListOK
    <3>4. ListOK' BY <1>1, <3>2, <3>3 DEF QInv, ListOK
    <3>5. \A s \in Tasks : s # t => \A x \in Events : Holds(tasks[s], x) =>
            x \in dedup' /\ ~Lists(queue', x)
      BY <1>1, <3>2, <3>3 DEF QInv, HeldOnce
    <3>6. \A x \in Events : Holds(r, x) =>
            /\ x \in dedup' /\ ~Lists(queue', x)
            /\ \A s \in Tasks : s # t => ~Holds(tasks[s], x)
      BY <1>1, <2>7, <3>3 DEF QInv, HeldOnce
    <3> QED BY <2>4, <2>6, <3>4, <3>5, <3>6, OneTask
  <2> QED BY <1>5, <2>8, <2>9
<1> QED BY <1>4, <1>5 DEF PutBack

-----------------------------------------------------------------------------
(* The theorem                                                               *)

LEMMA QInvInit == ASSUME Init PROVE QInv
<1>1. PICK o \in Owners : tasks = [t \in Tasks |-> Idle(o)] BY DEF Init
<1>2. \A t \in Tasks : tasks[t] = Idle(o) BY <1>1
<1>3. TasksOK BY <1>1, <1>2, IdleIsCoherent DEF TasksOK
<1>4. HeldOnce BY <1>2, IdleIsCoherent DEF HeldOnce
<1>5. queue \in Seq(Events) /\ DOMAIN queue = {} BY DEF Init
<1>6. ListOK BY <1>5 DEF ListOK, Lists
<1> QED BY <1>3, <1>4, <1>6 DEF QInv

LEMMA QInvStep == ASSUME QInv, [Next]_vars PROVE QInv'
<1>1. CASE \E t \in Tasks : TaskStep(t)
  BY <1>1, DispatchKeeps, SendKeeps, RollbackKeeps, EnqueueKeeps, AppendEventKeeps, UndoKeeps,
     PopKeeps, CheckKeeps, ClearKeeps, PutBackKeeps DEF TaskStep
<1>2. CASE \E t \in Tasks, e \in Events : StartPush(t, e) BY <1>2, StartPushKeeps
<1>3. CASE \E t \in Tasks, o \in Owners : StartDrain(t, o) BY <1>3, StartDrainKeeps
<1>4. CASE (\E o \in Owners : Connect(o) \/ Disconnect(o)) \/ UNCHANGED vars
  <2>1. queue' = queue /\ dedup' = dedup /\ tasks' = tasks
    BY <1>4 DEF Connect, Disconnect, vars
  <2> QED BY <2>1 DEF QInv, TasksOK, ListOK, HeldOnce
<1> QED BY <1>1, <1>2, <1>3, <1>4 DEF Next

LEMMA QInvImplies == ASSUME QInv PROVE QueuedOnce
<1> SUFFICES ASSUME NEW e \in Events
    PROVE LET places == {i \in DOMAIN queue : queue[i] = e} IN
          /\ \A i, j \in places : i = j
          /\ \A s, t \in Carriers(e) : s = t
          /\ places = {} \/ Carriers(e) = {}
          /\ \A t \in Carriers(e) : IsInjective(tasks[t].held)
  BY DEF QueuedOnce
<1>1. \A t \in Carriers(e) : t \in Tasks /\ Holds(tasks[t], e)
  <2> SUFFICES ASSUME NEW t \in Carriers(e) PROVE t \in Tasks /\ Holds(tasks[t], e)
    OBVIOUS
  <2>1. tasks[t].held \in Seq(Events) BY PlaceTells DEF QInv, Carriers
  <2>2. \A i \in 1..Len(tasks[t].held) : i \in DOMAIN tasks[t].held BY <2>1
  <2> QED BY <2>2 DEF Carriers, InHand, Contains, Holds
<1>2. \A s, t \in Carriers(e) : s = t BY <1>1 DEF QInv, HeldOnce
<1>3. Carriers(e) # {} => ~Lists(queue, e) BY <1>1 DEF QInv, HeldOnce
<1>4. \A t \in Carriers(e) : IsInjective(tasks[t].held)
  BY <1>1, PlaceTells DEF QInv, Coherent, IsInjective
<1> QED BY <1>2, <1>3, <1>4 DEF Lists, QInv, ListOK

\* However pushes, drains, failures and reconnections interleave, an event is in the list
\* or with one drain, never twice (enqueueDelegateEvent, drainQueuedDelegateEvents).
THEOREM NeverQueuedTwice == Spec => []QueuedOnce
<1>1. Init => QInv BY QInvInit
<1>2. QInv /\ [Next]_vars => QInv' BY QInvStep
<1>3. QInv => QueuedOnce BY QInvImplies
<1> QED BY <1>1, <1>2, <1>3, PTL DEF Spec

-----------------------------------------------------------------------------
(* Types                                                                     *)

\* The types beside those of the list and of the tasks.
RestTypes ==
  /\ dedup \subseteq Events /\ recorded \subseteq Events
  /\ online \subseteq Owners
  /\ accepted \subseteq Events
  /\ arrived \in Seq(Events)
  /\ book \in [pushes : [Events -> 0..MaxPushes], faults : 0..MaxFaults]

LEMMA FaultTyped ==
  ASSUME RestTypes, Fault
  PROVE  book' \in [pushes : [Events -> 0..MaxPushes], faults : 0..MaxFaults]
<1>1. book.faults \in 0..MaxFaults /\ book.faults < MaxFaults BY DEF RestTypes, Fault
<1>2. book.faults + 1 \in 0..MaxFaults BY <1>1, ConstantsAssumption
<1> QED BY <1>2 DEF RestTypes, Fault

LEMMA ArrivesTyped ==
  ASSUME RestTypes, NEW e \in Events, Arrives(e)
  PROVE  arrived' \in Seq(Events)
<1> DEFINE i == CHOOSE j \in DOMAIN arrived : arrived[j] = e
           others == IF Contains(arrived, e) THEN RemoveAt(arrived, i) ELSE arrived
<1>1. arrived' = Append(others, e) BY DEF Arrives
<1>2. arrived \in Seq(Events) BY DEF RestTypes
<1>3. Contains(arrived, e) => i \in 1..Len(arrived)
  <2> SUFFICES ASSUME Contains(arrived, e) PROVE i \in 1..Len(arrived) OBVIOUS
  <2>1. \E j \in DOMAIN arrived : arrived[j] = e BY <1>2 DEF Contains
  <2>2. DOMAIN arrived = 1..Len(arrived) BY <1>2
  <2> QED BY <2>1, <2>2
<1> HIDE DEF i
<1>4. Contains(arrived, e) => RemoveAt(arrived, i) \in Seq(Events)
  BY <1>2, <1>3 DEF RemoveAt
<1>5. others \in Seq(Events) BY <1>2, <1>4
<1> HIDE DEF others
<1> QED BY <1>1, <1>5

LEMMA RestTypesInit == ASSUME Init PROVE RestTypes
BY ConstantsAssumption DEF Init, RestTypes

LEMMA PushTyped ==
  ASSUME RestTypes, NEW t \in Tasks, NEW e \in Events, StartPush(t, e)
  PROVE  RestTypes'
<1>1. book.pushes[e] + 1 \in 0..MaxPushes
  BY ConstantsAssumption DEF RestTypes, StartPush
<1>2. book' \in [pushes : [Events -> 0..MaxPushes], faults : 0..MaxFaults]
  BY <1>1 DEF RestTypes, StartPush
<1> QED BY <1>2 DEF RestTypes, StartPush

\* What a step adds to a set is the event in hand.
LEMMA TaskTyped ==
  ASSUME RestTypes, QInv, NEW t \in Tasks, TaskStep(t)
  PROVE  RestTypes'
<1>1. CASE Dispatch(t) \/ Send(t) \/ Enqueue(t) \/ AppendEvent(t)
  <2>1. tasks[t].event \in Events
    BY <1>1, PlaceTells DEF QInv, Dispatch, Send, Enqueue, AppendEvent, At, Coherent, OneInHand, Drainer
  <2>2. accepted' \subseteq Events
    BY <1>1, <2>1 DEF RestTypes, Dispatch, Send, Enqueue, AppendEvent, Dispatched, Accept
  <2>3. recorded' \subseteq Events /\ dedup' \subseteq Events /\ online' = online
    BY <1>1, <2>1 DEF RestTypes, Dispatch, Send, Enqueue, AppendEvent
  <2>4. arrived' \in Seq(Events)
    BY <1>1, <2>1, ArrivesTyped DEF RestTypes, Dispatch, Send, Enqueue, AppendEvent
  <2>5. UNCHANGED book \/ Fault BY <1>1 DEF Dispatch, Send, Enqueue, AppendEvent
  <2> QED BY <2>2, <2>3, <2>4, <2>5, FaultTyped DEF RestTypes
<1>2. CASE Rollback(t) \/ Undo(t) \/ Pop(t) \/ Check(t) \/ Clear(t) \/ PutBack(t)
  <2>1. UNCHANGED <<online, accepted, arrived>> /\ recorded' \subseteq recorded
        /\ dedup' \subseteq dedup /\ (UNCHANGED book \/ Fault)
    BY <1>2 DEF Rollback, Undo, Pop, Check, Clear, PutBack
  <2> QED BY <2>1, FaultTyped DEF RestTypes
<1> QED BY <1>1, <1>2 DEF TaskStep

LEMMA RestTypesStep == ASSUME RestTypes, QInv, [Next]_vars PROVE RestTypes'
<1>1. CASE \E t \in Tasks : TaskStep(t) BY <1>1, TaskTyped
<1>2. CASE \E t \in Tasks, e \in Events : StartPush(t, e) BY <1>2, PushTyped
<1>3. CASE \/ \E t \in Tasks, o \in Owners : StartDrain(t, o)
           \/ \E o \in Owners : Connect(o) \/ Disconnect(o)
           \/ UNCHANGED vars
  BY <1>3 DEF StartDrain, Connect, Disconnect, vars, RestTypes
<1> QED BY <1>1, <1>2, <1>3 DEF Next

\* All state keeps its type: above all every task in the midst of a push or a drain has
\* what its next call needs, and the list holds nothing but events (AppendEvent, PutBack).
THEOREM TypeCorrect == Spec => []TypeOK
<1>1. Init => QInv /\ RestTypes BY QInvInit, RestTypesInit
<1>2. QInv /\ RestTypes /\ [Next]_vars => (QInv /\ RestTypes)' BY QInvStep, RestTypesStep
<1>3. QInv /\ RestTypes => TypeOK BY DEF QInv, TasksOK, ListOK, RestTypes, TypeOK
<1> QED BY <1>1, <1>2, <1>3, PTL DEF Spec
=============================================================================
