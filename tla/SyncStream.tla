-------------------------------- MODULE SyncStream --------------------------------
(***************************************************************************)
(* sync_v2: one stream of changes per user in PostgreSQL, and a device     *)
(* that replays it over a WebSocket connection (ws/handler/sync_v2.go,     *)
(* im_service_sync_v2.dart).                                               *)
(*                                                                         *)
(* The device names a generation and the cursor it has committed; the node *)
(* then sends one batch at a time and waits for its acknowledgement.  A    *)
(* drain of the node is several reads of the database, between which       *)
(* writers commit.  Wake-ups get lost, reads fail, connections drop.       *)
(***************************************************************************)
EXTENDS SyncFold

CONSTANTS
  Compound,    \* whether devices declare compound_v1: a set of BOOLEANs
  Rowing,      \* whether writers commit compound rows: a set of BOOLEANs
  Folding,     \* whether pages are folded: a set of BOOLEANs
  Writes,      \* bound: the kinds of writes
  MaxWrites,   \* bound: transactions on the stream
  MaxBacklog,  \* bound: transactions before the device first connects
  MaxResumes,  \* bound: generations of the device
  MaxErrors,   \* bound: database errors
  Failing      \* where they strike: "resume", "load", "ack"

Gens == 1..MaxResumes

ASSUME StreamAssumption ==
  /\ MaxWrites \in Nat /\ MaxBacklog \in Nat /\ MaxResumes \in Nat \ {0} /\ MaxErrors \in Nat
  /\ {Compound, Rowing, Folding} \subseteq SUBSET BOOLEAN \ {{}}
  /\ Failing \subseteq {"resume", "load", "ack"}
  /\ Writes \subseteq {"deliver", "send", "edit", "read", "revoke", "reset"}

VARIABLES
  log,     \* the parts of user_sync_events, by cursor
  rows,    \* the cursors of its rows
  db,      \* the rows the events are drawn from
  node,    \* of each generation, the syncV2State and what its drain has read
  phase,   \* of each generation, where its drain is
  current, \* the generation in syncV2States, 0 for none
  up,      \* the connection
  req,     \* sync_resume and sync_ack under way to the node
  down,    \* batches under way to the device
  dev,     \* the device: generation, committed cursor, catching up, capability
  local,   \* its database
  errors

vars == <<log, rows, db, node, phase, current, up, req, down, dev, local, errors>>

NoState == [compound |-> FALSE, cursor |-> 0, pending |-> FALSE,
            to |-> 0, dirty |-> FALSE, head |-> 0, events |-> <<>>]

Cursors == 0..3 * (MaxWrites + MaxBacklog)

Init ==
  /\ log = <<>> /\ rows = {}
  /\ db = [msgs |-> [m \in Messages |-> 0], revoked |-> {}, session |-> 0,
           member |-> 0, unread |-> 0, claimed |-> {}, writes |-> 0]
  /\ node = [g \in Gens |-> NoState] /\ phase = [g \in Gens |-> "idle"] /\ current = 0
  /\ up = FALSE /\ req = <<>> /\ down = <<>>
  /\ dev \in [gen : {0}, committed : {0}, catching : {FALSE}, compound : Compound]
  /\ local = EmptyLocal
  /\ errors = 0

TypeOK ==
  /\ log \in Seq(Parts) /\ Len(log) \in Cursors /\ rows \subseteq DOMAIN log
  /\ db \in [msgs : [Messages -> Nat], revoked : SUBSET Messages, session : Nat, member : Nat,
             unread : Nat, claimed : SUBSET Commands, writes : Nat]
  /\ phase \in [Gens -> {"idle", "head", "rows", "send"}]
  /\ \A g \in Gens : /\ {node[g].cursor, node[g].to, node[g].head} \subseteq Cursors
                     /\ {node[g].pending, node[g].dirty, node[g].compound} \subseteq BOOLEAN
                     /\ \A e \in DOMAIN node[g].events :
                          e \in Cursors /\ \A c \in DOMAIN node[g].events[e].parts :
                            c \in Cursors /\ node[g].events[e].parts[c] \in Parts
  /\ current \in 0..MaxResumes /\ up \in BOOLEAN /\ errors \in 0..MaxErrors
  /\ dev \in [gen : 0..MaxResumes, committed : Cursors, catching : BOOLEAN, compound : Compound]
  /\ local \in Locals

-----------------------------------------------------------------------------
(* Writers: the business rows, the events and the head in one transaction. *)

\* The cursors of one row per part, or of one compound row for all of them.
RowsOf(parts, compound) ==
  LET head == HeadCursor(log)
  IN  IF compound THEN {head + Len(parts)} ELSE head + 1 .. head + Len(parts)

Unchanged == UNCHANGED <<node, phase, current, up, req, down, dev, local, errors>>

Commit(parts, compound, after) ==
  /\ log' = log \o parts /\ rows' = rows \cup RowsOf(parts, compound)
  /\ db' = [after EXCEPT !.writes = @ + 1]
  /\ Unchanged

\* The command is claimed in the transaction; a second attempt does nothing.
Claims(cmd) == cmd = NoCmd \/ cmd \notin db.claimed

\* A message id that is not in use yet.
New(m) == /\ \E n \in Messages : db.msgs[n] = 0
          /\ m = CHOOSE n \in Messages : db.msgs[n] = 0
Shown == {m \in Messages : db.msgs[m] > 0} \ db.revoked
AfterClaim(cmd) == [db EXCEPT !.claimed = @ \cup ({cmd} \ {NoCmd})]

SessionPart(ver) == Part("session", Session, ver, NoCmd, 0)
UnreadPart(ver, count, cmd) == Part("unread", Member, ver, cmd, count)

\* A message for the user: the row also moves the session and the unread count,
\* to 0 if the user has the session open.
Deliver(m, compound) ==
  /\ "deliver" \in Writes /\ New(m)
  /\ \E count \in {0, db.unread + 1} :
       Commit(<<Part("message", m, 1, NoCmd, 0), SessionPart(db.session + 1),
                UnreadPart(db.member + 1, count, NoCmd)>>, compound,
              [db EXCEPT !.msgs[m] = 1, !.session = @ + 1, !.member = @ + 1, !.unread = count])

\* A message of the user: the sender gets no unread state.
Send(m, cmd, compound) ==
  /\ "send" \in Writes /\ New(m) /\ cmd # NoCmd /\ Claims(cmd)
  /\ Commit(<<Part("message", m, 1, cmd, 0), SessionPart(db.session + 1)>>, compound,
            [AfterClaim(cmd) EXCEPT !.msgs[m] = 1, !.session = @ + 1])

\* An edit under a command stays in classic rows: its session event is a receipt.
Edit(m, cmd, compound) ==
  /\ "edit" \in Writes /\ m \in Shown /\ Claims(cmd)
  /\ Commit(<<Part("message", m, db.msgs[m] + 1, cmd, 0),
              [SessionPart(db.session + 1) EXCEPT !.cmd = cmd]>>, compound /\ cmd = NoCmd,
            [AfterClaim(cmd) EXCEPT !.msgs[m] = @ + 1, !.session = @ + 1])

\* What is left unread is counted anew; a read that changes nothing only answers
\* its command.
Read(cmd) ==
  /\ "read" \in Writes /\ Claims(cmd)
  /\ \/ /\ db.unread = 0 /\ cmd # NoCmd
        /\ Commit(<<Part("read", Member, db.member, cmd, 0)>>, FALSE, AfterClaim(cmd))
     \/ db.unread > 0 /\ \E left \in 0..db.unread - 1 :
          Commit(<<Part("read", Member, db.member + 1, cmd, left),
                   UnreadPart(db.member + 1, left, cmd)>>, FALSE,
                 [AfterClaim(cmd) EXCEPT !.member = @ + 1, !.unread = left])

\* Mutant of Falls: the count is lowered whatever it is.
FallsAnyway == {0, 1}

\* The unread count falls if the user had not read the message.
Falls == {0, IF db.unread > 0 THEN 1 ELSE 0}

Revoke(m, cmd) ==
  /\ "revoke" \in Writes /\ m \in Shown /\ Claims(cmd)
  /\ \E fall \in Falls :
       Commit(<<Part("revoke", m, db.msgs[m] + 1, cmd, 0),
                UnreadPart(db.member + fall, db.unread - fall, NoCmd),
                [SessionPart(db.session + 1) EXCEPT !.cmd = cmd]>>, FALSE,
              [AfterClaim(cmd) EXCEPT !.msgs[m] = @ + 1, !.revoked = @ \cup {m},
                 !.session = @ + 1, !.member = @ + fall, !.unread = @ - fall])

HistoryReset(cmd) ==
  /\ "reset" \in Writes /\ cmd # NoCmd /\ Claims(cmd)
  /\ Commit(<<Part("remove", Session, db.session + 1, cmd, 0)>>, FALSE,
            [AfterClaim(cmd) EXCEPT !.session = @ + 1])

Write ==
  /\ db.writes < IF dev.gen = 0 THEN MaxBacklog ELSE MaxWrites
  /\ \E cmd \in Commands \cup {NoCmd}, compound \in Rowing, m \in Messages :
       \/ cmd = NoCmd /\ Deliver(m, compound)
       \/ Send(m, cmd, compound)
       \/ Edit(m, cmd, compound)
       \/ (Revoke(m, cmd) \/ Read(cmd) \/ HistoryReset(cmd))

-----------------------------------------------------------------------------
(* The node. *)

Fails(where) == where \in Failing /\ errors < MaxErrors /\ errors' = errors + 1

\* A call to drainSyncV2 on the state s: nothing happens while a batch waits for
\* its acknowledgement or another drain is under way.
Drained(g, s) ==
  LET starts == phase[g] = "idle" /\ ~s.pending /\ s.dirty
  IN  /\ node' = [node EXCEPT ![g] = [s EXCEPT !.dirty = @ /\ ~starts]]
      /\ phase' = [phase EXCEPT ![g] = IF starts THEN "head" ELSE @]

\* HandleSyncResume: the head is read and the cursor recorded, then a state of
\* its own starts with a first drain.  A failure leaves no state.
HandleResume ==
  /\ req # <<>> /\ Head(req).cmd = "resume"
  /\ req' = Tail(req)
  /\ \/ /\ current' = Head(req).gen
        /\ Drained(Head(req).gen, [NoState EXCEPT !.dirty = TRUE, !.cursor = Head(req).cursor,
                                                  !.compound = Head(req).compound])
        /\ UNCHANGED errors
     \/ Fails("resume") /\ UNCHANGED <<node, phase, current>>
  /\ UNCHANGED <<log, rows, db, up, down, dev, local>>

\* The one acknowledgement the node waits for.
Expected(ack) ==
  current # 0 /\ ack.gen = current /\ node[current].pending /\ ack.cursor = node[current].to

\* HandleSyncAck: the cursor is recorded, then the next batch is drained.
HandleAck ==
  /\ req # <<>> /\ Head(req).cmd = "ack"
  /\ req' = Tail(req)
  /\ \/ /\ Expected(Head(req))
        /\ Drained(current, [node[current] EXCEPT !.cursor = Head(req).cursor, !.pending = FALSE])
        /\ UNCHANGED errors
     \/ ~Expected(Head(req)) /\ UNCHANGED <<node, phase, errors>>
     \/ Expected(Head(req)) /\ Fails("ack") /\ UNCHANGED <<node, phase>>
  /\ UNCHANGED <<log, rows, db, current, up, down, dev, local>>

\* A wake-up reaches the state the hooks belong to: after a commit, or for any
\* legacy push of the connection.
Wake ==
  /\ current # 0 /\ ~node[current].dirty
  /\ Drained(current, [node[current] EXCEPT !.dirty = TRUE])
  /\ UNCHANGED <<log, rows, db, current, up, req, down, dev, local, errors>>

\* Mutant of Poll: the heartbeat leaves a connection alone that is marked dirty.
PollIfClean ==
  /\ current # 0 /\ phase[current] = "idle" /\ ~node[current].pending
  /\ HeadCursor(log) > node[current].cursor /\ ~node[current].dirty
  /\ Drained(current, [node[current] EXCEPT !.dirty = TRUE])
  /\ UNCHANGED <<log, rows, db, current, up, req, down, dev, local, errors>>

\* PollSyncV2: the heartbeat looks whether the head is ahead.
Poll ==
  /\ current # 0 /\ phase[current] = "idle" /\ ~node[current].pending
  /\ HeadCursor(log) > node[current].cursor
  /\ Drained(current, [node[current] EXCEPT !.dirty = TRUE])
  /\ UNCHANGED <<log, rows, db, current, up, req, down, dev, local, errors>>

\* A read of a drain that fails gives up and leaves the state dirty.
GiveUp(g) ==
  /\ phase' = [phase EXCEPT ![g] = "idle"]
  /\ node' = [node EXCEPT ![g].dirty = TRUE, ![g].head = 0, ![g].to = 0, ![g].events = <<>>]

\* First statement: the boundary of the page is frozen.
LoadHead(g) ==
  /\ phase[g] = "head"
  /\ \/ /\ node' = [node EXCEPT ![g].head = HeadCursor(log)]
        /\ phase' = [phase EXCEPT ![g] = "rows"]
        /\ UNCHANGED errors
     \/ Fails("load") /\ GiveUp(g)
  /\ UNCHANGED <<log, rows, db, current, up, req, down, dev, local>>

\* Mutant of LoadRows: a page that is not full ends at the head of this moment.
LoadRowsToHead(g) ==
  /\ phase[g] = "rows"
  /\ LET s == node[g]
         page == PageEnd(rows, s.cursor, s.head)
         to == IF s.compound THEN page ELSE ClassicEnd(rows, s.cursor, page)
     IN  \E fold \in Folding :
           node' = [node EXCEPT ![g] = [s EXCEPT
             !.to = IF page = s.head THEN HeadCursor(log) ELSE to,
             !.events = IF s.compound THEN CompoundEvents(log, rows, s.cursor, to, fold)
                        ELSE ClassicEvents(log, s.cursor, to)]]
  /\ phase' = [phase EXCEPT ![g] = "send"]
  /\ UNCHANGED <<log, rows, db, current, up, req, down, dev, local, errors>>

\* Second statement: the rows up to the boundary, shaped for the connection.
LoadRows(g) ==
  /\ phase[g] = "rows"
  /\ LET s == node[g]
         page == PageEnd(rows, s.cursor, s.head)
         to == IF s.compound THEN page ELSE ClassicEnd(rows, s.cursor, page)
     IN  \/ /\ \E fold \in Folding :
                 node' = [node EXCEPT ![g] = [s EXCEPT
                   !.to = to,
                   !.events = IF s.compound THEN CompoundEvents(log, rows, s.cursor, to, fold)
                              ELSE ClassicEvents(log, s.cursor, to)]]
            /\ phase' = [phase EXCEPT ![g] = "send"]
            /\ UNCHANGED errors
         \/ Fails("load") /\ GiveUp(g)
  /\ UNCHANGED <<log, rows, db, current, up, req, down, dev, local>>

\* Third and fourth statement: the head once more as a hint that there is more
\* (if it fails the frozen one serves), and if not the unread counts.
SendBatch(g) ==
  /\ phase[g] = "send"
  /\ LET s == node[g] IN
     \E latest \in {HeadCursor(log), s.head} :
       LET more == s.to < latest IN
       \/ /\ node' = [node EXCEPT ![g] = [s EXCEPT !.pending = TRUE, !.dirty = @ \/ more,
                                                   !.head = 0, !.events = <<>>]]
          /\ phase' = [phase EXCEPT ![g] = "idle"]
          /\ down' = Append(down, [gen |-> g, from |-> s.cursor, next |-> s.to, more |-> more,
                                    events |-> s.events, unread |-> IF more THEN 0 ELSE db.unread])
          /\ UNCHANGED errors
       \/ ~more /\ Fails("load") /\ GiveUp(g) /\ UNCHANGED down
  /\ UNCHANGED <<log, rows, db, current, up, req, dev, local>>

-----------------------------------------------------------------------------
(* The device. *)

\* prepareSyncGeneration and sync_resume: from the cursor on disk.
Resume(rest) ==
  /\ dev.gen < MaxResumes
  /\ dev' = [dev EXCEPT !.gen = @ + 1, !.catching = TRUE]
  /\ req' = Append(rest, [cmd |-> "resume", gen |-> dev.gen + 1, cursor |-> dev.committed,
                          compound |-> dev.compound])

Reconnect ==
  /\ ~up /\ up' = TRUE
  /\ Resume(<<>>)
  /\ UNCHANGED <<log, rows, db, node, phase, current, down, local, errors>>

\* Back in the foreground on the same connection, unless a catch-up is open.
ForegroundResume ==
  /\ up /\ ~dev.catching
  /\ Resume(req)
  /\ UNCHANGED <<log, rows, db, node, phase, current, up, down, local, errors>>

\* What was under way is lost, and the node cleans its state up.
Drop ==
  /\ up /\ up' = FALSE /\ dev.gen < MaxResumes
  /\ req' = <<>> /\ down' = <<>>
  /\ node' = [g \in Gens |-> NoState] /\ phase' = [g \in Gens |-> "idle"] /\ current' = 0
  /\ UNCHANGED <<log, rows, db, dev, local, errors>>

Projected(b) ==
  LET applied == ApplyParts(local, PartsOf(b.events), b.from, b.next)
  IN  IF b.more THEN applied ELSE ApplySnapshot(applied, b.unread)

\* Events, snapshot and cursor are one transaction; then the batch is
\* acknowledged.  That the checks of the batch never refuse it is BatchesApply.
ApplyBatch ==
  /\ down # <<>> /\ Head(down).gen = dev.gen
  /\ LET b == Head(down) IN
     /\ local' = Projected(b)
     /\ dev' = [dev EXCEPT !.committed = b.next, !.catching = b.more]
     /\ req' = Append(req, [cmd |-> "ack", gen |-> b.gen, cursor |-> b.next, compound |-> FALSE])
  /\ down' = Tail(down)
  /\ UNCHANGED <<log, rows, db, node, phase, current, up, errors>>

\* A batch of an older generation is ignored.
Discard ==
  /\ down # <<>> /\ Head(down).gen # dev.gen
  /\ down' = Tail(down)
  /\ UNCHANGED <<log, rows, db, node, phase, current, up, req, dev, local, errors>>

-----------------------------------------------------------------------------
Drain(g) == LoadHead(g) \/ LoadRows(g) \/ SendBatch(g)

Next == Write \/ Wake \/ Poll \/ Reconnect \/ ForegroundResume \/ Drop
        \/ HandleResume \/ HandleAck \/ ApplyBatch \/ Discard \/ \E g \in Gens : Drain(g)

Spec == Init /\ [][Next]_vars

\* A drain under way moves on, and what is under way on the connection is taken
\* from its queue: each is a step of the actions above.
Drains == \E g \in Gens, p \in {"idle", "rows", "send"} :
            phase[g] \notin {"idle", p} /\ phase' = [phase EXCEPT ![g] = p]
Requests == req # <<>> /\ req' = Tail(req)
Batches == down # <<>> /\ down' = Tail(down)

\* A call of the node returns, a connection delivers, the client keeps its
\* heartbeat and reconnects.  Wake-ups may all get lost.
FairSpec == Spec /\ WF_phase(Drains) /\ WF_req(Requests) /\ WF_down(Batches)
                 /\ WF_vars(Poll) /\ WF_vars(Reconnect)

-----------------------------------------------------------------------------
(* Properties. *)

\* Every batch of the device's generation starts where the device is, its
\* cursors are contiguous and no message of it is skipped by a version barrier:
\* the device, which answers a batch it refuses by reconnecting from the same
\* cursor, never refuses the same batch for ever (applyBatch).
BatchesApply ==
  \A i \in DOMAIN down :
    LET b == down[i] IN
    b.gen = dev.gen => /\ b.from = dev.committed
                       /\ Contiguous(b.events, b.from, b.next)
                       /\ Acceptable(local, PartsOf(b.events), b.from, b.next)

WithoutUnread(l) == [l EXCEPT !.unread = 0]

\* The device has what a replay of every row up to its cursor gives: no commit
\* that lands between two reads of a drain is skipped, no page applied twice,
\* no receipt of a command lost, over all generations.
ReplayExact ==
  WithoutUnread(local) = WithoutUnread(ApplyParts(EmptyLocal, log, 0, dev.committed))

\* Shaping a page changes nothing of what applying it does: for the device that
\* stands at its start, the folded or split events of the page give the same
\* messages, session, unread count and receipts as its rows (fold.Page).
PagesKeepMeaning ==
  \A g \in Gens :
    LET s == node[g]
    IN  phase[g] = "send" /\ g = dev.gen /\ s.cursor = dev.committed
          => ApplyParts(local, PartsOf(s.events), s.cursor, s.to)
               = ApplyParts(local, log, s.cursor, s.to)

\* Once the device is at the head it shows the unread count of the server, also
\* after the events have removed and re-created the session.
UnreadSettled ==
  dev.committed = HeadCursor(log) /\ local.session => local.unread = db.unread

\* The node has no acknowledgement of its last batch, or no state of the device's
\* generation, and nothing is under way that would bring one: HandleSyncAck or
\* HandleSyncResume could not write, and the app does not ask again.
Unanswered ==
  /\ up /\ req = <<>> /\ down = <<>>
  /\ current # dev.gen \/ node[current].pending

\* A resume from the head was answered by a drain that failed: no batch goes out,
\* and the heartbeat sees no newer head (drainSyncV2AfterHead).
GaveUpAtHead ==
  /\ up /\ req = <<>> /\ down = <<>> /\ current = dev.gen
  /\ phase[current] = "idle" /\ node[current].dirty /\ ~node[current].pending
  /\ node[current].cursor = HeadCursor(log)

\* The device reaches the head and closes its catch-up window again and again,
\* however many wake-ups are lost, reads of a drain fail and connections drop: the
\* heartbeat is enough, unless an acknowledgement or a resume could not be recorded,
\* or the drain of a resume that found nothing new failed.
CatchesUp ==
  []<>((dev.committed = HeadCursor(log) /\ ~dev.catching) \/ Unanswered \/ GaveUpAtHead)

-----------------------------------------------------------------------------
(* What a comment of the app states and TLC refutes; no run checks it.       *)

\* _sendSyncV2Resume: "The server answers every resume with at least one batch,
\* so the window always closes on a has_more=false batch of this generation."
WindowCloses == []<>~dev.catching
================================================================================
