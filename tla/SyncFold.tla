--------------------------------- MODULE SyncFold ---------------------------------
(***************************************************************************)
(* The sync stream of one user, as data: what the rows of user_sync_events *)
(* hold, how a page of them is shaped for a connection (syncstream/fold),  *)
(* and what the app does with the events of a batch                        *)
(* (local_db_sync_repository.dart).                                        *)
(*                                                                         *)
(* One session is followed.  Every part of a row has a cursor of its own:  *)
(* log is the sequence of parts by cursor, rows the set of the cursors the *)
(* rows of the table have.  A row holds the parts since the row before it: *)
(* one in a classic row; a compound message row also embeds the session    *)
(* and the unread state that the same write moved.                         *)
(***************************************************************************)
EXTENDS Integers, Sequences, FiniteSets, FiniteSetsExt

CONSTANTS
  Messages,  \* message ids
  Commands,  \* commands of the app's outbox
  NoCmd,
  PageRows   \* bound: rows of a page (syncstream.MaxBatchSize)

Session == "session"
Member == "member"
Entities == Messages \cup {Session, Member}

ASSUME FoldAssumption ==
  /\ NoCmd \notin Commands /\ PageRows \in Nat \ {0}
  /\ Session \notin Messages /\ Member \notin Messages

Kinds == {"message", "revoke", "session", "remove", "unread", "read"}

\* val is the unread count of an unread or a read part.
Part(kind, id, ver, cmd, val) == [kind |-> kind, id |-> id, ver |-> ver, cmd |-> cmd, val |-> val]

\* What the parts of a kind are about.
Subjects(kind) == IF kind \in {"message", "revoke"} THEN Messages
                  ELSE IF kind \in {"session", "remove"} THEN {Session} ELSE {Member}

Parts == {p \in [kind : Kinds, id : Entities, ver : Nat, cmd : Commands \cup {NoCmd}, val : Nat] :
            p.id \in Subjects(p.kind)}

Tombstone(p) == p.kind \in {"revoke", "remove"}

-----------------------------------------------------------------------------
(* Pages. *)

HeadCursor(log) == Len(log)

\* Where a page ends: after PageRows of the rows between a cursor and a frozen head.
PageEnd(rows, from, head) ==
  LET After(c) == {d \in rows : from < d /\ d <= c}
  IN  Max({from} \cup {c \in After(head) : Cardinality(After(c)) <= PageRows})

\* For a client without compound_v1 it is cut at whole rows: one at least, PageRows
\* events at most.
ClassicEnd(rows, from, to) ==
  LET page == {d \in rows : from < d /\ d <= to}
  IN  Max({from} \cup {c \in page : c - from <= PageRows \/ \A d \in page : c <= d})

Supersedes(q, p) ==
  /\ q.id = p.id
  /\ \/ q.kind = p.kind /\ p.kind # "remove"
     \/ q.kind = "revoke" /\ p.kind = "message"

\* Mutant of Folded: a superseded part is dropped with the receipt it carries.
FoldedWithReceipts(log, from, to) ==
  {c \in from+1..to : \A d \in c+1..to : ~Supersedes(log[d], log[c])}

\* The parts that survive: nothing later replaces them, or they carry the only
\* receipt of a command.
Folded(log, from, to) ==
  LET Later(c) == {d \in c+1..to : Supersedes(log[d], log[c])}
  IN  {c \in from+1..to :
         Later(c) = {} \/ log[c].cmd \notin {NoCmd, log[Max(Later(c))].cmd}}

\* Mutant of SessionBeforeUnread: nothing is kept again.
NothingAgain(log, from, kept) == {}

\* The app applies unread state only to a session it knows: where folding left
\* none before the first unread since a removal, the latest one is kept again.
SessionBeforeUnread(log, from, kept) ==
  LET Unread == {c \in kept : log[c].kind \in {"unread", "read"}}
      Since(c) == Max({from} \cup {d \in from+1..c-1 : log[d].kind = "remove"})
      Upserts(c) == {d \in Since(c)+1..c-1 : log[d].kind = "session"}
      Bare(c) == /\ Upserts(c) # {} /\ Upserts(c) \cap kept = {}
                 /\ \A d \in Unread : d < c /\ Since(d) = Since(c) => Upserts(d) = {}
  IN  {Max(Upserts(c)) : c \in {u \in Unread : Bare(u)}}

\* The events of a page, by cursor: a row's surviving parts go out as one event if
\* the message is among them, and one by one if not.  An event spans the cursors
\* since the event before it.
Emit(log, rows, from, to, kept) ==
  LET Row(c) == {d \in from+1..to : \A r \in rows : r < d <=> r < c}
      ends == {c \in kept : Min(Row(c)) \in kept => \A d \in Row(c) \cap kept : d <= c}
      First(e) == Max({from} \cup {d \in ends : d < e}) + 1
  IN  [e \in ends |-> [first |-> First(e), parts |-> [c \in kept \cap First(e)..e |-> log[c]]]]

CompoundEvents(log, rows, from, to, fold) ==
  LET folded == Folded(log, from, to)
  IN  Emit(log, rows, from, to,
           IF fold THEN folded \cup SessionBeforeUnread(log, from, folded) ELSE from+1..to)

\* For a client without compound_v1 every part is an event of its own.
ClassicEvents(log, from, to) ==
  [e \in from+1..to |-> [first |-> e, parts |-> [c \in {e} |-> log[c]]]]

-----------------------------------------------------------------------------
(* The projection of the app. *)

EmptyLocal ==
  [msgs |-> {}, session |-> FALSE, unread |-> 0, ver |-> [e \in Entities |-> -1],
   tomb |-> {}, acked |-> {}]

Locals == [msgs : SUBSET Messages, session : BOOLEAN, unread : Nat, ver : [Entities -> Nat \cup {-1}],
           tomb : SUBSET Entities, acked : SUBSET Commands]

EntityOf(p) == IF p.kind \in {"unread", "read"} THEN Member
               ELSE IF p.kind \in {"session", "remove"} THEN Session ELSE p.id

\* Behind the version barrier of its entity.
Stale(local, p) ==
  LET e == EntityOf(p) IN
    p.ver < local.ver[e] \/ (p.ver = local.ver[e] /\ e \in local.tomb /\ ~Tombstone(p))

\* The batch is refused: a message whose row is missing would be skipped.
Refused(local, p) ==
  Stale(local, p) /\ p.kind = "message" /\ p.id \notin local.tomb \cup local.msgs

Effect(local, p) ==
  CASE p.kind = "message" -> [local EXCEPT !.msgs = @ \cup {p.id}]
    [] p.kind = "revoke"  -> [local EXCEPT !.msgs = @ \ {p.id}]
    [] p.kind = "session" -> [local EXCEPT !.session = TRUE]
    [] p.kind = "remove"  -> [local EXCEPT !.session = FALSE, !.unread = 0, !.msgs = {}]
    [] OTHER -> IF local.session /\ Session \notin local.tomb
                THEN [local EXCEPT !.unread = p.val] ELSE local

ApplyPart(local, p) ==
  LET e == EntityOf(p)
      done == IF Stale(local, p) THEN local
              ELSE [Effect(local, p) EXCEPT
                      !.ver[e] = p.ver,
                      !.tomb = IF Tombstone(p) THEN @ \cup {e} ELSE @ \ {e}]
  IN  [done EXCEPT !.acked = IF p.cmd = NoCmd THEN @ ELSE @ \cup {p.cmd}]

\* The parts of a batch's events, by cursor.
PartsOf(events) ==
  [c \in UNION {DOMAIN events[e].parts : e \in DOMAIN events} |->
     events[CHOOSE e \in DOMAIN events : c \in DOMAIN events[e].parts].parts[c]]

\* Parts between two cursors are applied in the order of their cursors.
ApplyParts(local, parts, from, to) ==
  LET after[c \in from..to] ==
        IF c = from THEN local
        ELSE IF c \in DOMAIN parts THEN ApplyPart(after[c - 1], parts[c])
        ELSE after[c - 1]
  IN  after[to]

\* Mutant of ApplySnapshot: the counts the events left are kept.
KeepsCounts(local, unread) == local

\* The unread counts of the final snapshot overwrite those of known sessions.
ApplySnapshot(local, unread) ==
  IF local.session /\ Session \notin local.tomb THEN [local EXCEPT !.unread = unread] ELSE local

\* The cursors of a batch follow one another and end at next.
Contiguous(events, from, next) ==
  /\ \A e \in DOMAIN events :
       /\ events[e].first = Max({from} \cup {d \in DOMAIN events : d < e}) + 1
       /\ events[e].first <= e
  /\ next = Max({from} \cup DOMAIN events)

\* No part of the batch is refused where it stands.
Acceptable(local, parts, from, to) ==
  \A c \in DOMAIN parts : ~Refused(ApplyParts(local, parts, from, c - 1), parts[c])
================================================================================
