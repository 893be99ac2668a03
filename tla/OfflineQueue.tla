------------------------------ MODULE OfflineQueue ------------------------------
(***************************************************************************)
(* The offline queue of a shared agent (ws/agentapi delegate_queue).        *)
(*                                                                         *)
(* An event that cannot be dispatched is appended to one Redis list per     *)
(* agent, behind a deduplication key per event.  Every connection of the    *)
(* agent, one per owner it is shared with, drains that list with each       *)
(* heartbeat: it pops from the head, dispatches the events of its own owner *)
(* and puts the others back when it is done.  Pushes and drains interleave  *)
(* at every Redis call.                                                    *)
(***************************************************************************)
EXTENDS Naturals, Sequences, SequencesExt

CONSTANTS
  Events, Owners,
  Owner,       \* owner of each event
  Tasks,       \* goroutines that push or drain
  NoEvent,
  Batch,       \* queuedDelegateEventDrainBatch
  MaxKeep,     \* queuedDelegateEventMaxKeep
  MaxPushes,   \* bound: pushes of each event
  MaxFaults    \* bound: failed calls to the connection or to Redis

ASSUME ConstantsAssumption ==
  /\ Owner \in [Events -> Owners]
  /\ NoEvent \notin Events
  /\ Batch \in Nat \ {0} /\ MaxKeep \in Nat \ {0}
  /\ MaxPushes \in Nat \ {0} /\ MaxFaults \in Nat

VARIABLES
  queue,     \* Redis list of the agent
  dedup,     \* events whose deduplication key is set
  recorded,  \* events with a durable record: DispatchTracking has them
  online,    \* owners whose connection is up
  tasks,
  accepted,  \* events whose push returned true
  arrived,   \* events ever appended to the list, latest last
  book       \* the bounds

vars == <<queue, dedup, recorded, online, tasks, accepted, arrived, book>>

PCs == {"idle", "dispatch", "send", "rollback", "enqueue", "append", "undo", "pop",
        "check", "clear", "putBack"}

\* kind: a push or the drain of a connection. event: the one in hand. held: popped
\* events to put back. popped: how many of the batch are used up.
Task == [kind : {"push", "drain"}, pc : PCs, event : Events \cup {NoEvent}, owner : Owners,
         held : Seq(Events), popped : 0..Batch]

TypeOK ==
  /\ queue \in Seq(Events)
  /\ dedup \subseteq Events /\ recorded \subseteq Events
  /\ online \subseteq Owners
  /\ \A t \in Tasks : tasks[t] \in Task
  /\ accepted \subseteq Events
  /\ arrived \in Seq(Events)
  /\ book \in [pushes : [Events -> 0..MaxPushes], faults : 0..MaxFaults]

At(t, label) == tasks[t].pc = label
Goto(t, label) == tasks' = [tasks EXCEPT ![t].pc = label]
Idle(o) == [kind |-> "push", pc |-> "idle", event |-> NoEvent, owner |-> o, held |-> <<>>,
            popped |-> 0]
End(t) == tasks' = [tasks EXCEPT ![t] = Idle(tasks[t].owner)]
Fault == book.faults < MaxFaults /\ book' = [book EXCEPT !.faults = @ + 1]

Init ==
  /\ queue = <<>> /\ dedup = {} /\ recorded = {}
  /\ online \in SUBSET Owners
  /\ tasks \in {[t \in Tasks |-> Idle(o)] : o \in Owners}
  /\ accepted = {} /\ arrived = <<>>
  /\ book = [pushes |-> [e \in Events |-> 0], faults |-> 0]

-----------------------------------------------------------------------------
(* Push (pushDelegateEvent, enqueueDelegateEvent)                            *)

\* To the connection of the event's owner, or else to the queue.
StartPush(t, e) ==
  /\ At(t, "idle") /\ book.pushes[e] < MaxPushes
  /\ tasks' = [tasks EXCEPT ![t] =
       [Idle(Owner[e]) EXCEPT !.event = e,
                              !.pc = IF Owner[e] \in online THEN "dispatch" ELSE "enqueue"]]
  /\ book' = [book EXCEPT !.pushes[e] = @ + 1]
  /\ UNCHANGED <<queue, dedup, recorded, online, accepted, arrived>>

Accept(t) == accepted' = accepted \cup {tasks[t].event}

\* A dispatch that ends well ends a push; a drain goes on to clear the key.
Dispatched(t) ==
  IF tasks[t].kind = "push" THEN Accept(t) /\ End(t)
  ELSE Goto(t, "clear") /\ UNCHANGED accepted

\* registerPendingEventAck: an event with a record is accepted without a send.
Dispatch(t) ==
  LET e == tasks[t].event IN
  /\ At(t, "dispatch")
  /\ \/ e \in recorded /\ Dispatched(t) /\ UNCHANGED recorded
     \/ /\ e \notin recorded
        /\ recorded' = recorded \cup {e}
        /\ Goto(t, "send") /\ UNCHANGED accepted
  /\ UNCHANGED <<queue, dedup, online, arrived, book>>

\* The write fails when the connection is gone or its send buffer full.
Send(t) ==
  /\ At(t, "send")
  /\ \/ tasks[t].owner \in online /\ Dispatched(t) /\ UNCHANGED book
     \/ /\ Goto(t, "rollback")
        /\ IF tasks[t].owner \in online THEN Fault ELSE UNCHANGED book
        /\ UNCHANGED accepted
  /\ UNCHANGED <<queue, dedup, recorded, online, arrived>>

\* Mutant: puts the event down before it holds it.
RollbackSwapped(t) ==
  /\ At(t, "rollback") /\ tasks[t].kind = "drain"
  /\ recorded' = recorded \ {tasks[t].event}
  /\ tasks' = [tasks EXCEPT ![t].pc = "putBack", ![t].event = NoEvent,
                            ![t].held = Append(@, NoEvent)]
  /\ UNCHANGED <<queue, dedup, online, accepted, arrived, book>>

\* rollbackPendingEventAck, after which a push turns to the queue and a drain holds
\* the event and stops.
Rollback(t) ==
  LET e == tasks[t].event IN
  /\ At(t, "rollback")
  /\ recorded' = recorded \ {e}
  /\ tasks' = IF tasks[t].kind = "push" THEN [tasks EXCEPT ![t].pc = "enqueue"]
              ELSE [tasks EXCEPT ![t].pc = "putBack", ![t].event = NoEvent,
                                 ![t].held = Append(@, e)]
  /\ UNCHANGED <<queue, dedup, online, accepted, arrived, book>>

\* Mutant: overlooks a key that is set.
EnqueueAlways(t) ==
  /\ At(t, "enqueue")
  /\ dedup' = dedup \cup {tasks[t].event}
  /\ Goto(t, "append")
  /\ UNCHANGED <<queue, recorded, online, accepted, arrived, book>>

\* SETNX: an event whose key is set counts as queued. On an error the push returns false.
Enqueue(t) ==
  LET e == tasks[t].event IN
  /\ At(t, "enqueue")
  /\ \/ e \in dedup /\ Accept(t) /\ End(t) /\ UNCHANGED <<dedup, book>>
     \/ /\ e \notin dedup
        /\ dedup' = dedup \cup {e}
        /\ Goto(t, "append") /\ UNCHANGED <<accepted, book>>
     \/ Fault /\ End(t) /\ UNCHANGED <<dedup, accepted>>
  /\ UNCHANGED <<queue, recorded, online, arrived>>

\* RPUSH and LTRIM in one transaction.
LastKept(q) == IF Len(q) > MaxKeep THEN SubSeq(q, Len(q) - MaxKeep + 1, Len(q)) ELSE q

\* The events in the order of their latest arrival.
Arrives(e) ==
  LET others == IF Contains(arrived, e)
                  THEN RemoveAt(arrived, CHOOSE i \in DOMAIN arrived : arrived[i] = e)
                  ELSE arrived
  IN arrived' = Append(others, e)

AppendEvent(t) ==
  LET e == tasks[t].event IN
  /\ At(t, "append")
  /\ \/ /\ queue' = LastKept(Append(queue, e))
        /\ Arrives(e)
        /\ Accept(t) /\ End(t) /\ UNCHANGED book
     \/ Fault /\ Goto(t, "undo") /\ UNCHANGED <<queue, arrived, accepted>>
  /\ UNCHANGED <<dedup, recorded, online>>

\* The list could not be written: the key goes, and the push returns false.
Undo(t) ==
  /\ At(t, "undo")
  /\ dedup' = dedup \ {tasks[t].event}
  /\ End(t)
  /\ UNCHANGED <<queue, recorded, online, accepted, arrived, book>>

-----------------------------------------------------------------------------
(* Drain (drainQueuedDelegateEvents)                                         *)

StartDrain(t, o) ==
  /\ At(t, "idle") /\ o \in online /\ queue # <<>>
  /\ tasks' = [tasks EXCEPT ![t] = [Idle(o) EXCEPT !.kind = "drain", !.pc = "pop"]]
  /\ UNCHANGED <<queue, dedup, recorded, online, accepted, arrived, book>>

\* LPOP, up to a batch. An event of another owner is held.
Pop(t) ==
  LET e == Head(queue) IN
  /\ At(t, "pop")
  /\ \/ /\ queue = <<>> \/ tasks[t].popped = Batch
        /\ Goto(t, "putBack") /\ UNCHANGED <<queue, book>>
     \/ Fault /\ Goto(t, "putBack") /\ UNCHANGED queue
     \/ /\ queue # <<>> /\ tasks[t].popped < Batch
        /\ queue' = Tail(queue)
        /\ tasks' = IF Owner[e] = tasks[t].owner
                    THEN [tasks EXCEPT ![t].pc = "check", ![t].event = e,
                                       ![t].popped = @ + 1]
                    ELSE [tasks EXCEPT ![t].held = Append(@, e), ![t].popped = @ + 1]
        /\ UNCHANGED book
  /\ UNCHANGED <<dedup, recorded, online, accepted, arrived>>

\* A durable record means that this item is the residue of a retry.
Check(t) ==
  /\ At(t, "check")
  /\ Goto(t, IF tasks[t].event \in recorded THEN "clear" ELSE "dispatch")
  /\ UNCHANGED <<queue, dedup, recorded, online, accepted, arrived, book>>

\* clearQueuedDelegateEventDedup.
Clear(t) ==
  /\ At(t, "clear")
  /\ dedup' = dedup \ {tasks[t].event}
  /\ tasks' = [tasks EXCEPT ![t].pc = "pop", ![t].event = NoEvent]
  /\ UNCHANGED <<queue, recorded, online, accepted, arrived, book>>

\* LPUSH of the held events, last one first, each in a call of its own: an event whose
\* call fails is only logged.
PutBack(t) ==
  LET held == tasks[t].held
      rest == tasks' = [tasks EXCEPT ![t].held = Front(@)] IN
  /\ At(t, "putBack")
  /\ \/ held = <<>> /\ End(t) /\ UNCHANGED <<queue, book>>
     \/ held # <<>> /\ queue' = <<Last(held)>> \o queue /\ rest /\ UNCHANGED book
     \/ held # <<>> /\ Fault /\ rest /\ UNCHANGED queue
  /\ UNCHANGED <<dedup, recorded, online, accepted, arrived>>

-----------------------------------------------------------------------------
Connect(o) ==
  /\ o \notin online
  /\ online' = online \cup {o}
  /\ UNCHANGED <<queue, dedup, recorded, tasks, accepted, arrived, book>>

Disconnect(o) ==
  /\ o \in online
  /\ online' = online \ {o}
  /\ UNCHANGED <<queue, dedup, recorded, tasks, accepted, arrived, book>>

TaskStep(t) ==
  \/ Dispatch(t) \/ Send(t) \/ Rollback(t) \/ Enqueue(t) \/ AppendEvent(t) \/ Undo(t)
  \/ Pop(t) \/ Check(t) \/ Clear(t) \/ PutBack(t)

Next ==
  \/ \E t \in Tasks : TaskStep(t)
  \/ \E t \in Tasks, e \in Events : StartPush(t, e)
  \/ \E t \in Tasks, o \in Owners : StartDrain(t, o)
  \/ \E o \in Owners : Connect(o) \/ Disconnect(o)

Spec == Init /\ [][Next]_vars

\* Goroutines run, and the connection of every owner heartbeats.
Fairness ==
  /\ \A t \in Tasks : WF_vars(TaskStep(t))
  /\ \A o \in Owners : SF_vars(\E t \in Tasks : StartDrain(t, o))

FairSpec == Spec /\ Fairness

-----------------------------------------------------------------------------
(* Properties                                                                *)

InHand(t, e) == tasks[t].event = e \/ Contains(tasks[t].held, e)

\* Where drains carry event e.
Carriers(e) == {t \in Tasks : tasks[t].kind = "drain" /\ InHand(t, e)}

\* However often an event is pushed while drains pop it, fail and put it back, the
\* list and the drains never hold it twice: it would be answered twice.
QueuedOnce ==
  \A e \in Events :
    LET places == {i \in DOMAIN queue : queue[i] = e} IN
    /\ \A i, j \in places : i = j
    /\ \A s, t \in Carriers(e) : s = t
    /\ places = {} \/ Carriers(e) = {}
    /\ \A t \in Carriers(e) : IsInjective(tasks[t].held)

-----------------------------------------------------------------------------
(* What comments of the code state and TLC refutes; the README says how. No   *)
(* run checks these.                                                          *)

\* "Offline means queued": an event whose push was accepted is in the list, in the hands
\* of a push or a drain, or has its durable record. Until the list overflows.
AcceptedIsHeld ==
  \A e \in accepted :
    \/ e \in recorded \/ Contains(queue, e)
    \/ \E t \in Tasks : InHand(t, e)
    \/ Len(arrived) > MaxKeep

\* "Put the undelivered events back at the head of the queue, keeping their relative
\* order": the events of one owner stay in the list in the order they came.
OrderKept ==
  \A i, j \in DOMAIN queue : i < j /\ Owner[queue[i]] = Owner[queue[j]] =>
    \E m, n \in DOMAIN arrived : m < n /\ arrived[m] = queue[i] /\ arrived[n] = queue[j]

\* "Each connection is resent the backlog of its own owner (the queue is isolated by
\* agent and owner)": the backlog of an owner whose connection stays up is dispatched.
OwnBacklogDrained ==
  \A e \in Events :
    []<>(Owner[e] \notin online) \/ (Contains(queue, e) ~> e \in recorded)
=============================================================================
