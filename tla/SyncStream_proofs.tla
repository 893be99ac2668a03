----------------------------- MODULE SyncStream_proofs -----------------------------
(***************************************************************************)
(* Proofs about SyncStream, for every number of messages, commands,        *)
(* writes, generations and errors, and every page size: what the device    *)
(* applies is what the rows up to its cursor say.                          *)
(***************************************************************************)
EXTENDS SyncStream, SyncFold_proofs

-----------------------------------------------------------------------------
(* The inductive invariant                                                   *)

Dbs == [msgs : [Messages -> Nat], revoked : SUBSET Messages, session : Nat, member : Nat,
        unread : Nat, claimed : SUBSET Commands, writes : Nat]

Requested == [cmd : {"resume", "ack"}, gen : Nat, cursor : Nat, compound : BOOLEAN]

\* The last version that an entity was given.
Version(d, e) == IF e = Session THEN d.session ELSE IF e = Member THEN d.member ELSE d.msgs[e]

\* Every write appends at most three parts, each with the next version of its entity.
LogInv ==
  /\ log \in Seq(Parts) /\ rows \subseteq DOMAIN log
  /\ db \in Dbs
  /\ db.writes <= MaxWrites + MaxBacklog /\ Len(log) <= 3 * db.writes
  /\ Ascending(log)
  /\ \A c \in DOMAIN log : log[c].ver <= Version(db, log[c].id)

\* The events hold the parts of a page that folding has to keep.
IsPage(lg, events, from, to) ==
  /\ from \in Nat /\ to \in from..Len(lg)
  /\ \E kept : Keeps(lg, from, to, kept) /\ Page(lg, events, from, to, kept)

Fields == {"compound", "cursor", "pending", "to", "dirty", "head", "events"}

\* A state of a connection and where its drain is: while a batch waits for its
\* acknowledgement there is none.
GenOk(lg, s, p) ==
  /\ DOMAIN s = Fields
  /\ s.compound \in BOOLEAN /\ s.pending \in BOOLEAN /\ s.dirty \in BOOLEAN
  /\ s.cursor \in 0..Len(lg) /\ s.to \in 0..Len(lg) /\ s.head \in 0..Len(lg)
  /\ p \in {"idle", "head", "rows", "send"}
  /\ p # "send" => s.events = <<>>
  /\ p = "send" => IsPage(lg, s.events, s.cursor, s.to)
  /\ s.pending => p = "idle"

NodeInv ==
  /\ DOMAIN node = Gens /\ phase \in [Gens -> {"idle", "head", "rows", "send"}]
  /\ current \in 0..MaxResumes /\ up \in BOOLEAN /\ errors \in 0..MaxErrors
  /\ \A g \in Gens : /\ GenOk(log, node[g], phase[g])
                     /\ g > current => node[g] = NoState /\ phase[g] = "idle"

\* A batch up to the head says so, with the count of the moment.
BatchOk(lg, d, b) ==
  /\ b.gen \in Gens /\ b.more \in BOOLEAN /\ b.unread \in Nat
  /\ IsPage(lg, b.events, b.from, b.next)
  /\ b.next = Len(lg) => ~b.more /\ b.unread = d.unread

\* What is under way: generations that the device has begun, resumes in their order and
\* newer than what the node has.
Flow ==
  /\ dev \in [gen : 0..MaxResumes, committed : 0..Len(log), catching : BOOLEAN, compound : Compound]
  /\ current <= dev.gen
  /\ req \in Seq(Requested) /\ \E S : down \in Seq(S)
  /\ \A k \in DOMAIN req : /\ req[k].gen \in 1..dev.gen /\ req[k].cursor \in 0..Len(log)
                           /\ req[k].cmd = "resume" => req[k].gen > current
  /\ \A j, k \in DOMAIN req : j < k /\ req[j].cmd = "resume" /\ req[k].cmd = "resume"
                                => req[j].gen < req[k].gen
  /\ \A i \in DOMAIN down : BatchOk(log, db, down[i]) /\ down[i].gen <= dev.gen

\* The requests or the batches of a generation.
Of(q, g) == {k \in DOMAIN q : q[k].gen = g}

\* The node and the device in one generation: a batch or its acknowledgement is under
\* way, never both or two, and it is about the cursor of the device.
Hand(g, s, asks, sent, cur, at) ==
  /\ \A k \in Of(asks, g) :
       /\ asks[k].cursor = at
       /\ asks[k].cmd = "ack" => /\ cur = g /\ s.pending /\ s.to = at
                                 /\ \A j \in Of(asks, g) : j = k
  /\ \A i \in Of(sent, g) :
       /\ cur = g /\ s.pending /\ sent[i].from = at /\ sent[i].next = s.to
       /\ Of(asks, g) = {} /\ \A j \in Of(sent, g) : j = i
  /\ cur = g /\ ~s.pending => s.cursor = at

HandInv == dev.gen # 0 => Hand(dev.gen, node[dev.gen], req, down, current, dev.committed)

\* The database of the device is behind everything that is still to come.
Data ==
  /\ local \in Locals /\ Fresh(local, log, dev.committed)
  /\ \A e \in Entities : local.ver[e] <= Version(db, e)

Inv == LogInv /\ NodeInv /\ Flow /\ HandInv /\ Data /\ ReplayExact /\ UnreadSettled

-----------------------------------------------------------------------------
(* Queues                                                                    *)

LEMMA TailOf ==
  ASSUME NEW S, NEW s \in Seq(S), s # <<>>
  PROVE  /\ Tail(s) \in Seq(S) /\ 1 \in DOMAIN s /\ Head(s) = s[1] /\ s[1] \in S
         /\ \A i \in DOMAIN Tail(s) : i \in Nat \ {0} /\ i + 1 \in DOMAIN s /\ Tail(s)[i] = s[i + 1]
  OBVIOUS

LEMMA AppendOf ==
  ASSUME NEW S, NEW s \in Seq(S), NEW x \in S
  PROVE  /\ Append(s, x) \in Seq(S) /\ DOMAIN s \subseteq Nat
         /\ DOMAIN Append(s, x) = DOMAIN s \cup {Len(s) + 1}
         /\ \A i \in DOMAIN s : i < Len(s) + 1 /\ Append(s, x)[i] = s[i]
         /\ Append(s, x)[Len(s) + 1] = x /\ Len(s) + 1 \in Nat
  OBVIOUS

LEMMA ConcatOf ==
  ASSUME NEW S, NEW s \in Seq(S), NEW t \in Seq(S)
  PROVE  /\ s \o t \in Seq(S) /\ Len(s \o t) = Len(s) + Len(t)
         /\ DOMAIN s = 1..Len(s) /\ DOMAIN t = 1..Len(t) /\ DOMAIN (s \o t) = 1..Len(s) + Len(t)
         /\ Len(s) \in Nat /\ Len(t) \in Nat
         /\ \A c \in 1..Len(s) : (s \o t)[c] = s[c]
         /\ \A c \in 1..Len(s) + Len(t) : c > Len(s) => c - Len(s) \in DOMAIN t /\ (s \o t)[c] = t[c - Len(s)]
  OBVIOUS

-----------------------------------------------------------------------------
(* Writers                                                                   *)

\* What a write brings: one to three parts, each with the next version of its entity.
Moves(parts, d, e) ==
  /\ parts \in Seq(Parts) /\ Len(parts) \in 1..3
  /\ e \in Dbs /\ e.writes = d.writes
  /\ \A x \in Entities : Version(d, x) <= Version(e, x)
  /\ \A i \in DOMAIN parts : /\ Ahead(parts[i], Version(d, parts[i].id))
                             /\ parts[i].ver <= Version(e, parts[i].id)
  /\ \A i, j \in DOMAIN parts : i < j /\ parts[i].id = parts[j].id => Ahead(parts[j], parts[i].ver)

LEMMA PartIs ==
  ASSUME NEW kind \in Kinds, NEW id \in Subjects(kind), NEW ver \in Nat,
         NEW cmd \in Commands \cup {NoCmd}, NEW val \in Nat
  PROVE  LET p == Part(kind, id, ver, cmd, val) IN
         p \in Parts /\ p.id = id /\ p.ver = ver /\ p.kind = kind
  <1>1. id \in Entities
    BY DEF Subjects, Entities
  <1> QED BY <1>1 DEF Part, Parts

LEMMA SessionPartIs ==
  ASSUME NEW ver \in Nat, NEW cmd \in Commands \cup {NoCmd}
  PROVE  /\ SessionPart(ver) \in Parts /\ SessionPart(ver).id = Session /\ SessionPart(ver).ver = ver
         /\ LET p == [SessionPart(ver) EXCEPT !.cmd = cmd] IN
            p \in Parts /\ p.id = Session /\ p.ver = ver
  <1>1. [SessionPart(ver) EXCEPT !.cmd = cmd] = Part("session", Session, ver, cmd, 0)
    BY DEF SessionPart, Part
  <1>2. Session \in Subjects("session") /\ "session" \in Kinds
    BY DEF Subjects, Kinds
  <1> HIDE DEF Session
  <1> QED BY <1>1, <1>2, PartIs DEF SessionPart

LEMMA MemberPartIs ==
  ASSUME NEW ver \in Nat, NEW cmd \in Commands \cup {NoCmd}, NEW val \in Nat, NEW kind \in {"unread", "read"}
  PROVE  LET p == Part(kind, Member, ver, cmd, val) IN
         p \in Parts /\ p.id = Member /\ p.ver = ver
  <1>1. Member \in Subjects(kind) /\ kind \in Kinds
    BY DEF Subjects, Kinds
  <1> HIDE DEF Member
  <1> QED BY <1>1, PartIs

LEMMA MessagePartIs ==
  ASSUME NEW ver \in Nat, NEW cmd \in Commands \cup {NoCmd}, NEW m \in Messages, NEW kind \in {"message", "revoke"}
  PROVE  LET p == Part(kind, m, ver, cmd, 0) IN
         p \in Parts /\ p.id = m /\ p.ver = ver
  <1>1. m \in Subjects(kind) /\ kind \in Kinds
    BY DEF Subjects, Kinds
  <1> QED BY <1>1, PartIs

\* The entities are three kinds of things.
LEMMA Apart ==
  Session # Member /\ \A m \in Messages : m # Session /\ m # Member
  BY FoldAssumption DEF Session, Member

LEMMA OneMoves ==
  ASSUME NEW p \in Parts, NEW d, NEW e \in Dbs, e.writes = d.writes,
         \A x \in Entities : Version(d, x) <= Version(e, x),
         Ahead(p, Version(d, p.id)), p.ver <= Version(e, p.id)
  PROVE  Moves(<<p>>, d, e)
  <1> DEFINE s == <<p>>
  <1>1. s \in Seq(Parts) /\ Len(s) = 1 /\ DOMAIN s = {1} /\ s[1] = p
    OBVIOUS
  <1> HIDE DEF s
  <1>2. Moves(s, d, e)
    BY <1>1 DEF Moves
  <1> QED BY <1>2 DEF s

LEMMA TwoMove ==
  ASSUME NEW p \in Parts, NEW q \in Parts, NEW d, NEW e \in Dbs, e.writes = d.writes,
         \A x \in Entities : Version(d, x) <= Version(e, x),
         Ahead(p, Version(d, p.id)), p.ver <= Version(e, p.id),
         Ahead(q, Version(d, q.id)), q.ver <= Version(e, q.id),
         p.id # q.id \/ Ahead(q, p.ver)
  PROVE  Moves(<<p, q>>, d, e)
  <1> DEFINE s == <<p, q>>
  <1>1. s \in Seq(Parts) /\ Len(s) = 2 /\ DOMAIN s = {1, 2} /\ s[1] = p /\ s[2] = q
    OBVIOUS
  <1> HIDE DEF s
  <1>2. Moves(s, d, e)
    BY <1>1 DEF Moves
  <1> QED BY <1>2 DEF s

LEMMA ThreeMove ==
  ASSUME NEW p \in Parts, NEW q \in Parts, NEW r \in Parts, NEW d, NEW e \in Dbs, e.writes = d.writes,
         \A x \in Entities : Version(d, x) <= Version(e, x),
         Ahead(p, Version(d, p.id)), p.ver <= Version(e, p.id),
         Ahead(q, Version(d, q.id)), q.ver <= Version(e, q.id),
         Ahead(r, Version(d, r.id)), r.ver <= Version(e, r.id),
         p.id # q.id, p.id # r.id, q.id # r.id
  PROVE  Moves(<<p, q, r>>, d, e)
  <1> DEFINE s == <<p, q, r>>
  <1>1. s \in Seq(Parts) /\ Len(s) = 3 /\ DOMAIN s = {1, 2, 3} /\ s[1] = p /\ s[2] = q /\ s[3] = r
    OBVIOUS
  <1> HIDE DEF s
  <1>2. Moves(s, d, e)
    BY <1>1 DEF Moves
  <1> QED BY <1>2 DEF s

LEMMA Claiming ==
  ASSUME db \in Dbs, NEW cmd \in Commands \cup {NoCmd}
  PROVE  /\ AfterClaim(cmd) \in Dbs /\ AfterClaim(cmd).msgs = db.msgs
         /\ AfterClaim(cmd).session = db.session /\ AfterClaim(cmd).member = db.member
         /\ AfterClaim(cmd).unread = db.unread /\ AfterClaim(cmd).writes = db.writes
         /\ AfterClaim(cmd).revoked = db.revoked
  BY DEF AfterClaim, Dbs

\* The rows that a write leaves.
LEMMA DbAfterReset ==
  ASSUME NEW d \in Dbs, NEW session \in Nat
  PROVE  [d EXCEPT !.session = session] \in Dbs
  BY DEF Dbs

LEMMA DbAfterEdit ==
  ASSUME NEW d \in Dbs, NEW msgs \in [Messages -> Nat], NEW session \in Nat
  PROVE  [d EXCEPT !.msgs = msgs, !.session = session] \in Dbs
  BY DEF Dbs

LEMMA DbAfterRead ==
  ASSUME NEW d \in Dbs, NEW member \in Nat, NEW unread \in Nat
  PROVE  [d EXCEPT !.member = member, !.unread = unread] \in Dbs
  BY DEF Dbs

LEMMA DbAfterRevoke ==
  ASSUME NEW d \in Dbs, NEW msgs \in [Messages -> Nat], NEW revoked \in SUBSET Messages,
         NEW session \in Nat, NEW member \in Nat, NEW unread \in Nat
  PROVE  [d EXCEPT !.msgs = msgs, !.revoked = revoked, !.session = session,
                   !.member = member, !.unread = unread] \in Dbs
  BY DEF Dbs

LEMMA DeliverMoves ==
  ASSUME db \in Dbs, NEW m \in Messages, NEW compound \in BOOLEAN, Deliver(m, compound)
  PROVE  \E parts, after, row : Moves(parts, db, after) /\ Commit(parts, row, after)
  <1>1. db.msgs[m] = 0 /\ db.msgs \in [Messages -> Nat] /\ db.session \in Nat
        /\ db.member \in Nat /\ db.unread \in Nat
    BY DEF Deliver, New, Dbs
  <1>2. PICK count \in {0, db.unread + 1} :
          Commit(<<Part("message", m, 1, NoCmd, 0), SessionPart(db.session + 1),
                   UnreadPart(db.member + 1, count, NoCmd)>>, compound,
                 [db EXCEPT !.msgs[m] = 1, !.session = @ + 1, !.member = @ + 1, !.unread = count])
    BY DEF Deliver
  <1> DEFINE after == [db EXCEPT !.msgs[m] = 1, !.session = @ + 1, !.member = @ + 1, !.unread = count]
             session == db.session + 1
             member == db.member + 1
             p == Part("message", m, 1, NoCmd, 0)
             q == SessionPart(session)
             r == UnreadPart(member, count, NoCmd)
  <1>3. count \in Nat /\ session \in Nat /\ member \in Nat
    BY <1>1
  <1>4. Commit(<<p, q, r>>, compound, after)
    BY <1>2
  <1>5. after \in Dbs /\ after.writes = db.writes
    BY <1>3 DEF Dbs
  <1>6. after.session = session /\ after.member = member /\ after.msgs = [db.msgs EXCEPT ![m] = 1]
    BY <1>3 DEF Dbs
  <1>7. db.session < session /\ db.member < member
    BY <1>1
  <1> HIDE DEF after, session, member
  <1>8. p \in Parts /\ p.id = m /\ p.ver = 1
    BY MessagePartIs
  <1>9. q \in Parts /\ q.id = Session /\ q.ver = session
    BY <1>3, SessionPartIs
  <1>10. r \in Parts /\ r.id = Member /\ r.ver = member
    BY <1>3, MemberPartIs DEF UnreadPart
  <1> HIDE DEF p, q, r
  <1>11. \A x \in Entities : Version(db, x) <= Version(after, x)
    BY <1>1, <1>3, <1>6, <1>7 DEF Version, Entities
  <1>12. /\ Version(db, m) = 0 /\ Version(after, m) = 1
         /\ Version(db, Session) = db.session /\ Version(after, Session) = session
         /\ Version(db, Member) = db.member /\ Version(after, Member) = member
    BY <1>1, <1>6, Apart DEF Version
  <1>13. /\ Ahead(p, Version(db, p.id)) /\ p.ver <= Version(after, p.id)
         /\ Ahead(q, Version(db, q.id)) /\ q.ver <= Version(after, q.id)
         /\ Ahead(r, Version(db, r.id)) /\ r.ver <= Version(after, r.id)
    BY <1>1, <1>3, <1>7, <1>8, <1>9, <1>10, <1>12, Apart DEF Ahead
  <1>14. p.id # q.id /\ p.id # r.id /\ q.id # r.id
    BY <1>8, <1>9, <1>10, Apart
  <1>15. Moves(<<p, q, r>>, db, after)
    BY <1>5, <1>8, <1>9, <1>10, <1>11, <1>13, <1>14, ThreeMove
  <1> QED BY <1>4, <1>15

LEMMA SendMoves ==
  ASSUME db \in Dbs, NEW m \in Messages, NEW cmd \in Commands \cup {NoCmd}, NEW compound \in BOOLEAN,
         Send(m, cmd, compound)
  PROVE  \E parts, after, row : Moves(parts, db, after) /\ Commit(parts, row, after)
  <1> DEFINE base == AfterClaim(cmd)
             session == db.session + 1
             after == [base EXCEPT !.msgs[m] = 1, !.session = @ + 1]
             p == Part("message", m, 1, cmd, 0)
             q == SessionPart(session)
  <1>1. db.msgs[m] = 0 /\ db.msgs \in [Messages -> Nat] /\ db.session \in Nat
    BY DEF Send, New, Dbs
  <1>2. Commit(<<p, q>>, compound, after)
    BY DEF Send
  <1>3. base \in Dbs /\ base.msgs = db.msgs /\ base.session = db.session /\ base.member = db.member
        /\ base.writes = db.writes
    BY Claiming
  <1> HIDE DEF base
  <1>4. after \in Dbs /\ after.writes = db.writes
    <2> DEFINE ms == [db.msgs EXCEPT ![m] = 1]
    <2>1. after = [base EXCEPT !.msgs = ms, !.session = session]
      BY <1>3
    <2>2. ms \in [Messages -> Nat] /\ session \in Nat
      BY <1>1
    <2> HIDE DEF ms, session
    <2>3. [base EXCEPT !.msgs = ms, !.session = session] \in Dbs
      BY <1>3, <2>2, DbAfterEdit
    <2>4. after.writes = db.writes
      BY <1>3 DEF Dbs
    <2> HIDE DEF after
    <2> QED BY <2>1, <2>3, <2>4
  <1>5. after.session = session /\ after.member = db.member /\ after.msgs = [db.msgs EXCEPT ![m] = 1]
    BY <1>3 DEF Dbs
  <1>6. session \in Nat /\ db.session < session
    BY <1>1
  <1> HIDE DEF after, session
  <1>7. p \in Parts /\ p.id = m /\ p.ver = 1
    BY MessagePartIs
  <1>8. q \in Parts /\ q.id = Session /\ q.ver = session
    BY <1>6, SessionPartIs
  <1> HIDE DEF p, q
  <1>9. \A x \in Entities : Version(db, x) <= Version(after, x)
    BY <1>1, <1>5, <1>6 DEF Version, Entities, Dbs
  <1>10. /\ Version(db, m) = 0 /\ Version(after, m) = 1
         /\ Version(db, Session) = db.session /\ Version(after, Session) = session
    BY <1>1, <1>5, Apart DEF Version
  <1>11. /\ Ahead(p, Version(db, p.id)) /\ p.ver <= Version(after, p.id)
         /\ Ahead(q, Version(db, q.id)) /\ q.ver <= Version(after, q.id)
    BY <1>1, <1>6, <1>7, <1>8, <1>10, Apart DEF Ahead
  <1>12. p.id # q.id
    BY <1>7, <1>8, Apart
  <1>13. Moves(<<p, q>>, db, after)
    BY <1>4, <1>7, <1>8, <1>9, <1>11, <1>12, TwoMove
  <1> QED BY <1>2, <1>13

LEMMA EditMoves ==
  ASSUME db \in Dbs, NEW m \in Messages, NEW cmd \in Commands \cup {NoCmd}, NEW compound \in BOOLEAN,
         Edit(m, cmd, compound)
  PROVE  \E parts, after, row : Moves(parts, db, after) /\ Commit(parts, row, after)
  <1> DEFINE base == AfterClaim(cmd)
             session == db.session + 1
             edited == db.msgs[m] + 1
             after == [base EXCEPT !.msgs[m] = @ + 1, !.session = @ + 1]
             p == Part("message", m, edited, cmd, 0)
             q == [SessionPart(session) EXCEPT !.cmd = cmd]
  <1>1. db.msgs[m] \in Nat /\ db.msgs \in [Messages -> Nat] /\ db.session \in Nat
    BY DEF Dbs
  <1>2. Commit(<<p, q>>, compound /\ cmd = NoCmd, after)
    BY DEF Edit
  <1>3. base \in Dbs /\ base.msgs = db.msgs /\ base.session = db.session /\ base.member = db.member
        /\ base.writes = db.writes
    BY Claiming
  <1> HIDE DEF base
  <1>4. after \in Dbs /\ after.writes = db.writes
    <2> DEFINE ms == [db.msgs EXCEPT ![m] = edited]
    <2>1. after = [base EXCEPT !.msgs = ms, !.session = session]
      BY <1>3
    <2>2. ms \in [Messages -> Nat] /\ session \in Nat
      BY <1>1
    <2> HIDE DEF ms, session
    <2>3. [base EXCEPT !.msgs = ms, !.session = session] \in Dbs
      BY <1>3, <2>2, DbAfterEdit
    <2>4. after.writes = db.writes
      BY <1>3 DEF Dbs
    <2> HIDE DEF after
    <2> QED BY <2>1, <2>3, <2>4
  <1>5. after.session = session /\ after.member = db.member /\ after.msgs = [db.msgs EXCEPT ![m] = edited]
    BY <1>3 DEF Dbs
  <1>6. session \in Nat /\ db.session < session /\ edited \in Nat /\ db.msgs[m] < edited
    BY <1>1
  <1> HIDE DEF after, session, edited
  <1>7. p \in Parts /\ p.id = m /\ p.ver = edited
    BY <1>6, MessagePartIs
  <1>8. q \in Parts /\ q.id = Session /\ q.ver = session
    BY <1>6, SessionPartIs
  <1> HIDE DEF p, q
  <1>9. \A x \in Entities : Version(db, x) <= Version(after, x)
    BY <1>1, <1>5, <1>6 DEF Version, Entities, Dbs
  <1>10. /\ Version(db, m) = db.msgs[m] /\ Version(after, m) = edited
         /\ Version(db, Session) = db.session /\ Version(after, Session) = session
    BY <1>1, <1>5, Apart DEF Version
  <1>11. /\ Ahead(p, Version(db, p.id)) /\ p.ver <= Version(after, p.id)
         /\ Ahead(q, Version(db, q.id)) /\ q.ver <= Version(after, q.id)
    BY <1>1, <1>6, <1>7, <1>8, <1>10, Apart DEF Ahead
  <1>12. p.id # q.id
    BY <1>7, <1>8, Apart
  <1>13. Moves(<<p, q>>, db, after)
    BY <1>4, <1>7, <1>8, <1>9, <1>11, <1>12, TwoMove
  <1> QED BY <1>2, <1>13

LEMMA ReadMoves ==
  ASSUME db \in Dbs, NEW cmd \in Commands \cup {NoCmd}, Read(cmd)
  PROVE  \E parts, after, row : Moves(parts, db, after) /\ Commit(parts, row, after)
  <1> DEFINE base == AfterClaim(cmd)
             member == db.member + 1
  <1>1. db.msgs \in [Messages -> Nat] /\ db.session \in Nat /\ db.member \in Nat /\ db.unread \in Nat
    BY DEF Dbs
  <1>2. base \in Dbs /\ base.msgs = db.msgs /\ base.session = db.session /\ base.member = db.member
        /\ base.writes = db.writes
    BY Claiming
  <1>3. member \in Nat /\ db.member < member
    BY <1>1
  <1>4. CASE Commit(<<Part("read", Member, db.member, cmd, 0)>>, FALSE, AfterClaim(cmd))
    <2> DEFINE p == Part("read", Member, db.member, cmd, 0)
    <2>1. p \in Parts /\ p.id = Member /\ p.ver = db.member
      <3> DEFINE ver == db.member
      <3>1. ver \in Nat /\ 0 \in Nat /\ p = Part("read", Member, ver, cmd, 0)
        BY <1>1
      <3> HIDE DEF p, ver
      <3>2. p \in Parts /\ p.id = Member /\ p.ver = ver
        BY <3>1, MemberPartIs
      <3> QED BY <3>2 DEF ver
    <2>2. Commit(<<p>>, FALSE, base)
      BY <1>4
    <2> HIDE DEF base, p
    <2>3. \A x \in Entities : Version(db, x) <= Version(base, x)
      BY <1>1, <1>2 DEF Version, Entities
    <2>4. Ahead(p, Version(db, p.id)) /\ p.ver <= Version(base, p.id)
      BY <1>1, <1>2, <2>1, Apart DEF Ahead, Version
    <2>5. Moves(<<p>>, db, base)
      BY <1>2, <2>1, <2>3, <2>4, OneMoves
    <2> QED BY <2>2, <2>5
  <1>5. ASSUME NEW left \in 0..db.unread - 1, db.unread > 0,
               Commit(<<Part("read", Member, db.member + 1, cmd, left),
                        UnreadPart(db.member + 1, left, cmd)>>, FALSE,
                      [AfterClaim(cmd) EXCEPT !.member = @ + 1, !.unread = left])
        PROVE  \E parts, after, row : Moves(parts, db, after) /\ Commit(parts, row, after)
    <2> DEFINE after == [base EXCEPT !.member = @ + 1, !.unread = left]
               p == Part("read", Member, member, cmd, left)
               q == UnreadPart(member, left, cmd)
    <2>1. Commit(<<p, q>>, FALSE, after)
      BY <1>5
    <2> HIDE DEF base
    <2>2. left \in Nat
      BY <1>1
    <2>3. after \in Dbs /\ after.writes = db.writes
      <3>1. after = [base EXCEPT !.member = member, !.unread = left]
        BY <1>2
      <3> HIDE DEF member
      <3>2. [base EXCEPT !.member = member, !.unread = left] \in Dbs
        BY <1>2, <1>3, <2>2, DbAfterRead
      <3>3. after.writes = db.writes
        BY <1>2 DEF Dbs
      <3> HIDE DEF after
      <3> QED BY <3>1, <3>2, <3>3
    <2>4. after.session = db.session /\ after.member = member /\ after.msgs = db.msgs
      BY <1>2 DEF Dbs
    <2> HIDE DEF after, member
    <2>5. p \in Parts /\ p.id = Member /\ p.ver = member
      BY <1>3, <2>2, MemberPartIs
    <2>6. q \in Parts /\ q.id = Member /\ q.ver = member
      BY <1>3, <2>2, MemberPartIs DEF UnreadPart
    <2> HIDE DEF p, q
    <2>7. \A x \in Entities : Version(db, x) <= Version(after, x)
      BY <1>1, <1>3, <2>4 DEF Version, Entities
    <2>8. Version(db, Member) = db.member /\ Version(after, Member) = member
      BY <2>4, Apart DEF Version
    <2>9. /\ Ahead(p, Version(db, p.id)) /\ p.ver <= Version(after, p.id)
          /\ Ahead(q, Version(db, q.id)) /\ q.ver <= Version(after, q.id)
          /\ Ahead(q, p.ver)
      BY <1>1, <1>3, <2>5, <2>6, <2>8 DEF Ahead
    <2>10. Moves(<<p, q>>, db, after)
      BY <2>3, <2>5, <2>6, <2>7, <2>9, TwoMove
    <2> QED BY <2>1, <2>10
  <1> HIDE DEF base, member
  <1> QED BY <1>4, <1>5 DEF Read

LEMMA RevokeMoves ==
  ASSUME db \in Dbs, NEW m \in Messages, NEW cmd \in Commands \cup {NoCmd}, Revoke(m, cmd)
  PROVE  \E parts, after, row : Moves(parts, db, after) /\ Commit(parts, row, after)
  <1> DEFINE base == AfterClaim(cmd)
             session == db.session + 1
             revoked == db.msgs[m] + 1
  <1>1. db.msgs[m] \in Nat /\ db.msgs \in [Messages -> Nat] /\ db.session \in Nat
        /\ db.member \in Nat /\ db.unread \in Nat
    BY DEF Dbs
  <1>2. base \in Dbs /\ base.msgs = db.msgs /\ base.session = db.session /\ base.member = db.member
        /\ base.writes = db.writes /\ base.unread = db.unread
    BY Claiming
  <1>3. PICK fall \in Falls :
          Commit(<<Part("revoke", m, db.msgs[m] + 1, cmd, 0),
                   UnreadPart(db.member + fall, db.unread - fall, NoCmd),
                   [SessionPart(db.session + 1) EXCEPT !.cmd = cmd]>>, FALSE,
                 [AfterClaim(cmd) EXCEPT !.msgs[m] = @ + 1, !.revoked = @ \cup {m},
                    !.session = @ + 1, !.member = @ + fall, !.unread = @ - fall])
    BY DEF Revoke
  <1> DEFINE member == db.member + fall
             left == db.unread - fall
             after == [base EXCEPT !.msgs[m] = @ + 1, !.revoked = @ \cup {m},
                         !.session = @ + 1, !.member = @ + fall, !.unread = @ - fall]
             p == Part("revoke", m, revoked, cmd, 0)
             q == UnreadPart(member, left, NoCmd)
             r == [SessionPart(session) EXCEPT !.cmd = cmd]
  <1>4. Commit(<<p, q, r>>, FALSE, after)
    BY <1>3
  <1>5. fall \in Nat /\ left \in Nat /\ member \in Nat /\ db.member <= member
        /\ session \in Nat /\ db.session < session /\ revoked \in Nat /\ db.msgs[m] < revoked
    BY <1>1 DEF Falls
  <1> HIDE DEF base
  <1>6. base.revoked \cup {m} \in SUBSET Messages
    BY <1>2 DEF Dbs
  <1>7. after \in Dbs /\ after.writes = db.writes
    <2> DEFINE ms == [db.msgs EXCEPT ![m] = revoked]
               shown == base.revoked \cup {m}
               new == [base EXCEPT !.msgs = ms, !.revoked = shown, !.session = session,
                                   !.member = member, !.unread = left]
    <2>1. after = new
      BY <1>2
    <2>2. ms \in [Messages -> Nat] /\ shown \in SUBSET Messages
      BY <1>1, <1>6
    <2> HIDE DEF ms, session, member, left, shown
    <2>3. new \in Dbs
      BY <1>2, <1>5, <2>2, DbAfterRevoke
    <2>4. after.writes = db.writes
      BY <1>2 DEF Dbs
    <2> HIDE DEF after, new
    <2> QED BY <2>1, <2>3, <2>4
  <1>8. after.session = session /\ after.member = member /\ after.msgs = [db.msgs EXCEPT ![m] = revoked]
    BY <1>2 DEF Dbs
  <1> HIDE DEF after, session, revoked, member, left
  <1>9. p \in Parts /\ p.id = m /\ p.ver = revoked
    BY <1>5, MessagePartIs
  <1>10. q \in Parts /\ q.id = Member /\ q.ver = member
    BY <1>5, MemberPartIs DEF UnreadPart
  <1>11. r \in Parts /\ r.id = Session /\ r.ver = session
    BY <1>5, SessionPartIs
  <1> HIDE DEF p, q, r
  <1>12. \A x \in Entities : Version(db, x) <= Version(after, x)
    BY <1>1, <1>5, <1>8 DEF Version, Entities
  <1>13. /\ Version(db, m) = db.msgs[m] /\ Version(after, m) = revoked
         /\ Version(db, Session) = db.session /\ Version(after, Session) = session
         /\ Version(db, Member) = db.member /\ Version(after, Member) = member
    BY <1>1, <1>8, Apart DEF Version
  <1>14. /\ Ahead(p, Version(db, p.id)) /\ p.ver <= Version(after, p.id)
         /\ Ahead(q, Version(db, q.id)) /\ q.ver <= Version(after, q.id)
         /\ Ahead(r, Version(db, r.id)) /\ r.ver <= Version(after, r.id)
    BY <1>1, <1>5, <1>9, <1>10, <1>11, <1>13, Apart DEF Ahead
  <1>15. p.id # q.id /\ p.id # r.id /\ q.id # r.id
    BY <1>9, <1>10, <1>11, Apart
  <1>16. Moves(<<p, q, r>>, db, after)
    BY <1>7, <1>9, <1>10, <1>11, <1>12, <1>14, <1>15, ThreeMove
  <1> QED BY <1>4, <1>16

LEMMA HistoryResetMoves ==
  ASSUME db \in Dbs, NEW cmd \in Commands \cup {NoCmd}, HistoryReset(cmd)
  PROVE  \E parts, after, row : Moves(parts, db, after) /\ Commit(parts, row, after)
  <1> DEFINE base == AfterClaim(cmd)
             session == db.session + 1
             after == [base EXCEPT !.session = @ + 1]
             p == Part("remove", Session, session, cmd, 0)
  <1>1. db.msgs \in [Messages -> Nat] /\ db.session \in Nat /\ db.member \in Nat
    BY DEF Dbs
  <1>2. Commit(<<p>>, FALSE, after)
    BY DEF HistoryReset
  <1>3. base \in Dbs /\ base.msgs = db.msgs /\ base.session = db.session /\ base.member = db.member
        /\ base.writes = db.writes
    BY Claiming
  <1> HIDE DEF base
  <1>4. after \in Dbs /\ after.writes = db.writes
    <2>1. after = [base EXCEPT !.session = session]
      BY <1>3
    <2>2. session \in Nat
      BY <1>1
    <2> HIDE DEF session
    <2>3. [base EXCEPT !.session = session] \in Dbs
      BY <1>3, <2>2, DbAfterReset
    <2>4. after.writes = db.writes
      BY <1>3 DEF Dbs
    <2> HIDE DEF after
    <2> QED BY <2>1, <2>3, <2>4
  <1>5. after.session = session /\ after.member = db.member /\ after.msgs = db.msgs
    BY <1>3 DEF Dbs
  <1>6. session \in Nat /\ db.session < session
    BY <1>1
  <1> HIDE DEF after, session
  <1>7. p \in Parts /\ p.id = Session /\ p.ver = session
    <2>1. Session \in Subjects("remove") /\ "remove" \in Kinds
      BY DEF Subjects, Kinds
    <2> HIDE DEF Session
    <2> QED BY <1>6, <2>1, PartIs
  <1> HIDE DEF p
  <1>8. \A x \in Entities : Version(db, x) <= Version(after, x)
    BY <1>1, <1>5, <1>6 DEF Version, Entities
  <1>9. Ahead(p, Version(db, p.id)) /\ p.ver <= Version(after, p.id)
    BY <1>1, <1>5, <1>6, <1>7, Apart DEF Ahead, Version
  <1>10. Moves(<<p>>, db, after)
    BY <1>4, <1>7, <1>8, <1>9, OneMoves
  <1> QED BY <1>2, <1>10

\* Every write commits such parts, within the bound on writes.
LEMMA WriteMoves ==
  ASSUME db \in Dbs, Write
  PROVE  /\ db.writes < MaxWrites + MaxBacklog
         /\ \E parts, after, row : Moves(parts, db, after) /\ Commit(parts, row, after)
  <1>1. db.writes < MaxWrites + MaxBacklog
    BY StreamAssumption DEF Write, Dbs
  <1>2. PICK cmd \in Commands \cup {NoCmd}, compound \in Rowing, m \in Messages :
          \/ Deliver(m, compound)
          \/ Send(m, cmd, compound)
          \/ Edit(m, cmd, compound)
          \/ Revoke(m, cmd) \/ Read(cmd) \/ HistoryReset(cmd)
    BY DEF Write
  <1>3. compound \in BOOLEAN
    BY StreamAssumption
  <1>4. \E parts, after, row : Moves(parts, db, after) /\ Commit(parts, row, after)
    BY <1>2, <1>3, DeliverMoves, SendMoves, EditMoves, RevokeMoves, ReadMoves, HistoryResetMoves
  <1> QED BY <1>1, <1>4

LEMMA DbAfterWrite ==
  ASSUME NEW d \in Dbs
  PROVE  LET e == [d EXCEPT !.writes = @ + 1] IN
         /\ e \in Dbs /\ e.writes = d.writes + 1
         /\ \A x : Version(e, x) = Version(d, x)
  <1> DEFINE writes == d.writes + 1
             e == [d EXCEPT !.writes = @ + 1]
  <1>1. e = [d EXCEPT !.writes = writes] /\ writes \in Nat /\ e.writes = writes
    BY DEF Dbs
  <1>2. e.session = d.session /\ e.member = d.member /\ e.msgs = d.msgs
    BY DEF Dbs
  <1> HIDE DEF writes, e
  <1>3. [d EXCEPT !.writes = writes] \in Dbs
    BY <1>1 DEF Dbs
  <1> QED BY <1>1, <1>2, <1>3 DEF Version, e, writes

LEMMA VersionIs ==
  ASSUME NEW d \in Dbs, NEW x \in Entities
  PROVE  Version(d, x) \in Nat
  BY DEF Version, Dbs, Entities

\* A page stays one when the log grows.
LEMMA IsPageStays ==
  ASSUME NEW lg \in Seq(Parts), NEW more \in Seq(Parts), Len(lg) <= Len(more),
         \A c \in 1..Len(lg) : more[c] = lg[c],
         NEW events, NEW from, NEW to, IsPage(lg, events, from, to)
  PROVE  IsPage(more, events, from, to)
  <1>1. from \in Nat /\ to \in Nat /\ to \in from..Len(lg) /\ to \in from..Len(more)
        /\ Len(lg) \in Nat /\ Len(more) \in Nat
    BY DEF IsPage
  <1>2. PICK kept : Keeps(lg, from, to, kept) /\ Page(lg, events, from, to, kept)
    BY DEF IsPage
  <1>3. \A c \in from + 1..to : more[c] = lg[c]
    BY <1>1
  <1>4. Keeps(more, from, to, kept) /\ Page(more, events, from, to, kept)
    BY <1>1, <1>2, <1>3, PageStays
  <1> QED BY <1>1, <1>4 DEF IsPage

\* The log after a write.
LEMMA CommitLog ==
  ASSUME LogInv, NEW parts, NEW after, NEW row, Moves(parts, db, after), Commit(parts, row, after),
         db.writes < MaxWrites + MaxBacklog
  PROVE  /\ LogInv' /\ Len(log) < Len(log)' /\ log' \in Seq(Parts)
         /\ Len(log) \in Nat /\ Len(log)' \in Nat
         /\ DOMAIN log = 1..Len(log) /\ DOMAIN log' = 1..Len(log)'
         /\ \A c \in 1..Len(log) : log'[c] = log[c]
         /\ \A c \in 1..Len(log)' : c > Len(log) => Ahead(log'[c], Version(db, log'[c].id))
         /\ \A x \in Entities : Version(db, x) <= Version(db', x)
         /\ UNCHANGED <<node, phase, current, up, req, down, dev, local, errors>>
  <1> DEFINE head == Len(log)
             new == Len(parts)
  <1>1. /\ log \in Seq(Parts) /\ parts \in Seq(Parts) /\ log' = log \o parts
        /\ new \in 1..3 /\ db \in Dbs /\ after \in Dbs /\ db' = [after EXCEPT !.writes = @ + 1]
        /\ rows' = rows \cup RowsOf(parts, row) /\ rows \subseteq DOMAIN log
        /\ after.writes = db.writes
    BY DEF LogInv, Moves, Commit
  <1>2. /\ log' \in Seq(Parts) /\ Len(log') = head + new
        /\ DOMAIN log = 1..head /\ DOMAIN parts = 1..new /\ DOMAIN log' = 1..head + new
        /\ head \in Nat /\ new \in Nat
        /\ \A c \in 1..head : log'[c] = log[c]
        /\ \A c \in 1..head + new : c > head => c - head \in DOMAIN parts /\ log'[c] = parts[c - head]
    BY <1>1, ConcatOf
  <1>3. /\ db' \in Dbs /\ db'.writes = db.writes + 1
        /\ \A x : Version(db', x) = Version(after, x)
    BY <1>1, DbAfterWrite
  <1>4. \A c \in 1..head : log[c] \in Parts /\ log[c].id \in Entities /\ log[c].ver \in Nat
    BY <1>1, <1>2, PartsAbout
  <1>5. \A i \in 1..new : parts[i] \in Parts /\ parts[i].id \in Entities /\ parts[i].ver \in Nat
    BY <1>1, <1>2, PartsAbout
  <1>6. \A x \in Entities : Version(db, x) \in Nat /\ Version(after, x) \in Nat
    BY <1>1, VersionIs
  <1>7. \A x \in Entities : Version(db, x) <= Version(after, x)
    BY DEF Moves
  <1>8. \A i \in 1..new : /\ Ahead(parts[i], Version(db, parts[i].id))
                          /\ parts[i].ver <= Version(after, parts[i].id)
    BY <1>2 DEF Moves
  <1>9. \A c \in 1..head : log[c].ver <= Version(db, log[c].id)
    BY <1>2 DEF LogInv
  <1>10. ASSUME NEW c \in 1..head + new, NEW d \in 1..head + new, c < d, log'[c].id = log'[d].id
         PROVE  Ahead(log'[d], log'[c].ver)
    <2>1. CASE d <= head
      <3>1. c \in 1..head /\ d \in 1..head
        BY <1>2, <1>10, <2>1
      <3>2. log'[c] = log[c] /\ log'[d] = log[d] /\ c \in DOMAIN log /\ d \in DOMAIN log
        BY <1>2, <3>1
      <3> QED BY <1>10, <3>2 DEF LogInv, Ascending
    <2>2. CASE c > head
      <3>1. d > head
        BY <1>2, <1>10, <2>2
      <3> DEFINE i == c - head
                 j == d - head
      <3>2. i \in DOMAIN parts /\ j \in DOMAIN parts /\ log'[c] = parts[i] /\ log'[d] = parts[j]
        BY <1>2, <2>2, <3>1
      <3>3. i < j
        BY <1>2, <1>10
      <3> HIDE DEF i, j
      <3> QED BY <1>10, <3>2, <3>3 DEF Moves
    <2>3. CASE c <= head /\ d > head
      <3> DEFINE j == d - head
                 v == Version(db, parts[j].id)
      <3>1. j \in 1..new /\ log'[d] = parts[j] /\ c \in 1..head /\ log'[c] = log[c]
        BY <1>2, <2>3
      <3> HIDE DEF j
      <3>2. Ahead(parts[j], v) /\ log[c].ver <= v
        BY <1>8, <1>9, <1>10, <3>1
      <3>3. v \in Nat /\ log[c].ver \in Nat /\ parts[j].ver \in Nat
        BY <1>4, <1>5, <1>6, <3>1
      <3> HIDE DEF v
      <3>4. Ahead(parts[j], log[c].ver)
        BY <3>2, <3>3 DEF Ahead
      <3> QED BY <3>1, <3>4
    <2> QED BY <1>2, <2>1, <2>2, <2>3
  <1>11. Ascending(log')
    BY <1>2, <1>10 DEF Ascending
  <1>12. ASSUME NEW c \in 1..head + new PROVE log'[c].ver <= Version(db', log'[c].id)
    <2>1. CASE c <= head
      <3>1. c \in 1..head /\ log'[c] = log[c]
        BY <1>2, <2>1
      <3> QED BY <1>3, <1>4, <1>6, <1>7, <1>9, <3>1
    <2>2. CASE c > head
      <3> DEFINE i == c - head
      <3>1. i \in 1..new /\ log'[c] = parts[i]
        BY <1>2, <2>2
      <3> HIDE DEF i
      <3> QED BY <1>3, <1>8, <3>1
    <2> QED BY <1>2, <2>1, <2>2
  <1>13. ASSUME NEW c \in 1..head + new, c > head
         PROVE  Ahead(log'[c], Version(db, log'[c].id))
    <2> DEFINE i == c - head
    <2>1. i \in 1..new /\ log'[c] = parts[i]
      BY <1>2, <1>13
    <2> HIDE DEF i
    <2> QED BY <1>8, <2>1
  <1>14. rows' \subseteq DOMAIN log'
    <2>1. RowsOf(parts, row) \subseteq 1..head + new
      BY <1>1, <1>2 DEF RowsOf, HeadCursor
    <2>2. 1..head \subseteq 1..head + new
      BY <1>2
    <2> HIDE DEF head, new
    <2> QED BY <1>1, <1>2, <2>1, <2>2
  <1>15. db'.writes <= MaxWrites + MaxBacklog /\ Len(log') <= 3 * db'.writes
    <2>1. head <= 3 * db.writes /\ db.writes \in Nat
      BY DEF LogInv, Dbs
    <2>2. head + new <= 3 * (db.writes + 1)
      <3> DEFINE writes == db.writes
      <3>1. head <= 3 * writes /\ writes \in Nat
        BY <2>1
      <3> HIDE DEF head, new, writes
      <3>2. new \in 1..3 /\ head \in Nat
        BY <1>1, <1>2
      <3>3. head + new <= 3 * (writes + 1)
        BY <3>1, <3>2
      <3> QED BY <3>3 DEF writes
    <2>3. db.writes + 1 <= MaxWrites + MaxBacklog
      BY <2>1, StreamAssumption
    <2> HIDE DEF head, new
    <2> QED BY <1>2, <1>3, <2>2, <2>3
  <1>16. LogInv'
    <2> HIDE DEF head, new
    <2> QED BY <1>2, <1>3, <1>11, <1>12, <1>14, <1>15 DEF LogInv
  <1>17. UNCHANGED <<node, phase, current, up, req, down, dev, local, errors>>
    BY DEF Commit, Unchanged
  <1>18. \A x \in Entities : Version(db, x) <= Version(db', x)
    BY <1>3, <1>7
  <1>19. Len(log) < Len(log)' /\ Len(log)' = head + new
    BY <1>1, <1>2
  <1> HIDE DEF new
  <1> QED BY <1>2, <1>13, <1>16, <1>17, <1>18, <1>19

\* A write keeps the invariant.
LEMMA WriteKeeps ==
  ASSUME Inv, Write
  PROVE  Inv'
  <1>1. LogInv /\ NodeInv /\ Flow /\ HandInv /\ Data /\ ReplayExact /\ UnreadSettled
    BY DEF Inv
  <1>2. db \in Dbs /\ db.writes < MaxWrites + MaxBacklog
    BY <1>1, WriteMoves DEF LogInv
  <1>3. PICK parts, after, row : Moves(parts, db, after) /\ Commit(parts, row, after)
    BY <1>1, WriteMoves DEF LogInv
  <1> DEFINE head == Len(log)
             head2 == Len(log')
  <1>4. /\ LogInv' /\ head < head2 /\ log \in Seq(Parts) /\ log' \in Seq(Parts)
        /\ head \in Nat /\ head2 \in Nat
        /\ DOMAIN log = 1..head /\ DOMAIN log' = 1..head2
        /\ \A c \in 1..head : log'[c] = log[c]
        /\ \A c \in 1..head2 : c > head => Ahead(log'[c], Version(db, log'[c].id))
        /\ \A x \in Entities : Version(db, x) <= Version(db', x)
    BY <1>1, <1>2, <1>3, CommitLog DEF LogInv
  <1>5. UNCHANGED <<node, phase, current, up, req, down, dev, local, errors>>
    BY <1>1, <1>2, <1>3, CommitLog
  <1>6. ASSUME NEW events, NEW from, NEW to, IsPage(log, events, from, to)
        PROVE  IsPage(log', events, from, to) /\ to < head2 /\ to \in Nat
    <2>1. to \in from..head /\ from \in Nat
      BY <1>6 DEF IsPage
    <2>2. IsPage(log', events, from, to)
      BY <1>4, <1>6, IsPageStays
    <2>3. to \in Nat /\ to < head2
      BY <1>4, <2>1
    <2> QED BY <2>2, <2>3
  <1>7. NodeInv'
    <2>1. ASSUME NEW g \in Gens PROVE GenOk(log', node[g], phase[g])
      <3> DEFINE s == node[g]
                 p == phase[g]
      <3>1. GenOk(log, s, p)
        BY <1>1 DEF NodeInv
      <3> HIDE DEF s, p
      <3>2. s.cursor \in 0..head2 /\ s.to \in 0..head2 /\ s.head \in 0..head2
        BY <1>4, <3>1 DEF GenOk
      <3>3. p = "send" => IsPage(log', s.events, s.cursor, s.to)
        BY <1>6, <3>1 DEF GenOk
      <3>4. GenOk(log', s, p)
        BY <3>1, <3>2, <3>3 DEF GenOk
      <3> QED BY <3>4 DEF s, p
    <2> QED BY <1>1, <1>5, <2>1 DEF NodeInv
  <1>8. Flow'
    <2>1. ASSUME NEW i \in DOMAIN down PROVE BatchOk(log', db', down[i])
      <3> DEFINE b == down[i]
      <3>1. BatchOk(log, db, b)
        BY <1>1 DEF Flow
      <3> HIDE DEF b
      <3>2. IsPage(log', b.events, b.from, b.next) /\ b.next < head2 /\ b.next \in Nat
        BY <1>6, <3>1 DEF BatchOk
      <3>3. b.next # head2
        BY <1>4, <3>2
      <3>4. BatchOk(log', db', b)
        BY <3>1, <3>2, <3>3 DEF BatchOk
      <3> QED BY <3>4 DEF b
    <2>2. dev \in [gen : 0..MaxResumes, committed : 0..head2, catching : BOOLEAN, compound : Compound]
      <3>1. dev \in [gen : 0..MaxResumes, committed : 0..head, catching : BOOLEAN, compound : Compound]
        BY <1>1 DEF Flow
      <3>2. 0..head \subseteq 0..head2
        BY <1>4
      <3> HIDE DEF head, head2
      <3> QED BY <3>1, <3>2
    <2>3. \A k \in DOMAIN req : req[k].cursor \in 0..head2
      <3>1. \A k \in DOMAIN req : req[k].cursor \in 0..head
        BY <1>1 DEF Flow
      <3> QED BY <1>4, <3>1
    <2> QED BY <1>1, <1>5, <2>1, <2>2, <2>3 DEF Flow
  <1>9. HandInv'
    BY <1>1, <1>5 DEF HandInv
  <1>10. dev.committed \in 0..head
    BY <1>1 DEF Flow
  <1>11. Data'
    <2>1. local \in Locals /\ Fresh(local, log, dev.committed)
      BY <1>1 DEF Data
    <2>2. \A e \in Entities : local.ver[e] <= Version(db, e)
      BY <1>1 DEF Data
    <2>3. ASSUME NEW e \in Entities PROVE local.ver[e] \in Int /\ Version(db, e) \in Nat /\ Version(db', e) \in Nat
      <3>1. Version(db, e) \in Nat /\ Version(db', e) \in Nat
        BY <1>2, <1>4, VersionIs DEF LogInv
      <3>2. local.ver[e] \in Nat \cup {-1}
        BY <2>1 DEF Locals
      <3> QED BY <3>1, <3>2
    <2>4. \A e \in Entities : local.ver[e] <= Version(db', e)
      BY <1>4, <2>2, <2>3
    <2>5. ASSUME NEW c \in 1..head2, c > dev.committed
          PROVE  Ahead(log'[c], local.ver[log'[c].id])
      <3>1. CASE c <= head
        <4>1. c \in DOMAIN log /\ log'[c] = log[c]
          BY <1>4, <3>1
        <4> QED BY <2>1, <2>5, <4>1 DEF Fresh
      <3>2. CASE c > head
        <4> DEFINE p == log'[c]
                   v == Version(db, p.id)
                   w == local.ver[p.id]
        <4>1. p \in Parts
          BY <1>4
        <4>2. p.id \in Entities /\ p.ver \in Nat
          BY <4>1, PartsAbout
        <4>3. Ahead(p, v)
          BY <1>4, <3>2
        <4>4. w <= v /\ w \in Int /\ v \in Nat
          BY <2>2, <2>3, <4>2
        <4> HIDE DEF p, v, w
        <4>5. Ahead(p, w)
          BY <4>2, <4>3, <4>4 DEF Ahead
        <4> QED BY <4>5 DEF p, w
      <3> QED BY <1>4, <3>1, <3>2
    <2>6. Fresh(local, log', dev.committed)
      BY <1>4, <2>1, <2>5 DEF Fresh
    <2> QED BY <1>5, <2>1, <2>4, <2>6 DEF Data
  <1>12. ReplayExact'
    <2>1. ApplyParts(EmptyLocal, log', 0, dev.committed) = ApplyParts(EmptyLocal, log, 0, dev.committed)
      <3> DEFINE to == dev.committed
      <3>1. to \in Nat /\ 0 \in Nat /\ 0 <= to
        BY <1>10
      <3>2. \A c \in 0 + 1..to : /\ c \in DOMAIN log' <=> c \in DOMAIN log
                                 /\ c \in DOMAIN log' => log'[c] = log[c]
        BY <1>4, <1>10
      <3> HIDE DEF to
      <3>3. ApplyParts(EmptyLocal, log', 0, to) = ApplyParts(EmptyLocal, log, 0, to)
        BY <3>1, <3>2, ApplySame
      <3> QED BY <3>3 DEF to
    <2> QED BY <1>1, <1>5, <2>1 DEF ReplayExact
  <1>13. UnreadSettled'
    <2>1. dev.committed # head2
      BY <1>4, <1>10
    <2> QED BY <1>5, <2>1 DEF UnreadSettled, HeadCursor
  <1> QED BY <1>4, <1>7, <1>8, <1>9, <1>11, <1>12, <1>13 DEF Inv

-----------------------------------------------------------------------------
(* The node                                                                  *)

LEMMA LogSame ==
  ASSUME LogInv, UNCHANGED <<log, rows, db>>
  PROVE  LogInv'
  BY DEF LogInv

LEMMA DataSame ==
  ASSUME Data, ReplayExact, UnreadSettled, UNCHANGED <<log, db, dev, local>>
  PROVE  Data' /\ ReplayExact' /\ UnreadSettled'
  <1>1. Data'
    BY DEF Data
  <1>2. ReplayExact'
    BY DEF ReplayExact
  <1>3. UnreadSettled'
    BY DEF UnreadSettled
  <1> QED BY <1>1, <1>2, <1>3

LEMMA FlowSame ==
  ASSUME Flow, UNCHANGED <<log, db, dev, req, down, current>>
  PROVE  Flow'
  BY DEF Flow

LEMMA ErrorCounted ==
  ASSUME NodeInv, NEW where, Fails(where)
  PROVE  errors' \in 0..MaxErrors
  BY StreamAssumption DEF NodeInv, Fails

\* One state of the node changes.
LEMMA OneGen ==
  ASSUME NodeInv, UNCHANGED log, NEW g \in Gens, NEW s, NEW p,
         node' = [node EXCEPT ![g] = s], phase' = [phase EXCEPT ![g] = p], GenOk(log, s, p),
         current' \in 0..MaxResumes, current <= current', g <= current',
         up' \in BOOLEAN, errors' \in 0..MaxErrors
  PROVE  NodeInv'
  <1>1. DOMAIN node = Gens /\ phase \in [Gens -> {"idle", "head", "rows", "send"}] /\ current \in 0..MaxResumes
    BY DEF NodeInv
  <1>2. p \in {"idle", "head", "rows", "send"}
    BY DEF GenOk
  <1>3. DOMAIN node' = Gens /\ phase' \in [Gens -> {"idle", "head", "rows", "send"}]
    BY <1>1, <1>2
  <1>4. /\ node'[g] = s /\ phase'[g] = p
        /\ \A h \in Gens : h # g => node'[h] = node[h] /\ phase'[h] = phase[h]
    BY <1>1
  <1>5. ASSUME NEW h \in Gens
        PROVE  GenOk(log', node'[h], phase'[h]) /\ (h > current' => node'[h] = NoState /\ phase'[h] = "idle")
    <2>1. CASE h = g
      <3>1. h \in Int /\ current' \in Int /\ ~(h > current')
        BY <2>1, StreamAssumption DEF Gens
      <3> QED BY <1>4, <2>1, <3>1
    <2>2. CASE h # g
      <3>1. h \in Int /\ current' \in Int /\ current \in Int
        BY <1>1, StreamAssumption DEF Gens
      <3>2. GenOk(log, node[h], phase[h]) /\ (h > current => node[h] = NoState /\ phase[h] = "idle")
        BY DEF NodeInv
      <3> QED BY <1>4, <2>2, <3>1, <3>2
    <2> QED BY <2>1, <2>2
  <1> QED BY <1>3, <1>5 DEF NodeInv

\* A step of a state by itself: whether it waits, its cursor and what it waits for stay.
LEMMA QuietStep ==
  ASSUME Inv, UNCHANGED <<log, rows, db, current, up, req, down, dev, local>>,
         NEW g \in Gens, NEW s, NEW p,
         node' = [node EXCEPT ![g] = s], phase' = [phase EXCEPT ![g] = p], GenOk(log, s, p),
         g <= current, errors' \in 0..MaxErrors,
         s.pending <=> node[g].pending, s.cursor = node[g].cursor,
         s.pending => s.to = node[g].to
  PROVE  Inv'
  <1>1. LogInv /\ NodeInv /\ Flow /\ HandInv /\ Data /\ ReplayExact /\ UnreadSettled
    BY DEF Inv
  <1>2. LogInv' /\ Flow' /\ Data' /\ ReplayExact' /\ UnreadSettled'
    BY <1>1, LogSame, FlowSame, DataSame
  <1>3. NodeInv'
    <2>1. current' \in 0..MaxResumes /\ current <= current' /\ g <= current' /\ up' \in BOOLEAN
      BY <1>1 DEF NodeInv
    <2> QED BY <1>1, <2>1, OneGen
  <1>4. HandInv'
    <2> SUFFICES ASSUME dev.gen # 0
                 PROVE  Hand(dev.gen, node'[dev.gen], req, down, current, dev.committed)
      BY DEF HandInv
    <2> DEFINE G == dev.gen
               r == node[G]
               t == node'[G]
    <2>1. G \in Gens
      BY <1>1, StreamAssumption DEF Flow, Gens
    <2>2. Hand(G, r, req, down, current, dev.committed)
      BY <1>1 DEF HandInv
    <2>3. (t.pending <=> r.pending) /\ t.cursor = r.cursor /\ (r.pending => t.to = r.to)
      BY <1>1, <2>1 DEF NodeInv
    <2> HIDE DEF G, r, t
    <2>4. Hand(G, t, req, down, current, dev.committed)
      BY <2>2, <2>3 DEF Hand
    <2> QED BY <2>4 DEF G, t
  <1> QED BY <1>2, <1>3, <1>4 DEF Inv

\* What a call to drainSyncV2 leaves.
LEMMA DrainedIs ==
  ASSUME NEW g \in Gens, NEW s, GenOk(log, s, phase[g]), Drained(g, s)
  PROVE  \E t, p : /\ node' = [node EXCEPT ![g] = t] /\ phase' = [phase EXCEPT ![g] = p]
                   /\ GenOk(log, t, p) /\ (t.pending <=> s.pending) /\ t.cursor = s.cursor /\ t.to = s.to
  <1> DEFINE starts == phase[g] = "idle" /\ ~s.pending /\ s.dirty
             t == [s EXCEPT !.dirty = @ /\ ~starts]
             p == IF starts THEN "head" ELSE phase[g]
  <1>1. node' = [node EXCEPT ![g] = t] /\ phase' = [phase EXCEPT ![g] = p]
    BY DEF Drained
  <1>2. DOMAIN s = Fields
    BY DEF GenOk
  <1>3. /\ DOMAIN t = Fields /\ t.compound = s.compound /\ t.pending = s.pending
        /\ t.cursor = s.cursor /\ t.to = s.to /\ t.head = s.head /\ t.events = s.events
        /\ t.dirty \in BOOLEAN
    BY <1>2 DEF Fields
  <1>4. CASE starts
    <2>1. p = "head" /\ ~s.pending /\ phase[g] = "idle"
      BY <1>4
    <2> HIDE DEF t, p
    <2>2. GenOk(log, t, p)
      BY <1>3, <2>1 DEF GenOk
    <2> QED BY <1>1, <1>3, <2>2
  <1>5. CASE ~starts
    <2>1. p = phase[g]
      BY <1>5
    <2> HIDE DEF t, p
    <2>2. GenOk(log, t, p)
      BY <1>3, <2>1 DEF GenOk
    <2> QED BY <1>1, <1>3, <2>2
  <1> QED BY <1>4, <1>5

\* A wake-up and the poll of the heartbeat.
LEMMA NudgeKeeps ==
  ASSUME Inv, current # 0, Drained(current, [node[current] EXCEPT !.dirty = TRUE]),
         UNCHANGED <<log, rows, db, current, up, req, down, dev, local, errors>>
  PROVE  Inv'
  <1>1. LogInv /\ NodeInv
    BY DEF Inv
  <1>2. current \in Gens /\ current <= current
    BY <1>1, StreamAssumption DEF NodeInv, Gens
  <1> DEFINE s == node[current]
             r == [s EXCEPT !.dirty = TRUE]
  <1>3. GenOk(log, s, phase[current]) /\ errors \in 0..MaxErrors
    BY <1>1, <1>2 DEF NodeInv
  <1>4. DOMAIN s = Fields
    BY <1>3 DEF GenOk
  <1>5. /\ DOMAIN r = Fields /\ r.compound = s.compound /\ r.pending = s.pending
        /\ r.cursor = s.cursor /\ r.to = s.to /\ r.head = s.head /\ r.events = s.events
        /\ r.dirty = TRUE
    BY <1>4 DEF Fields
  <1>6. Drained(current, r)
    OBVIOUS
  <1> HIDE DEF r
  <1>7. GenOk(log, r, phase[current])
    BY <1>3, <1>5 DEF GenOk
  <1>8. PICK t, p : /\ node' = [node EXCEPT ![current] = t] /\ phase' = [phase EXCEPT ![current] = p]
                    /\ GenOk(log, t, p) /\ (t.pending <=> r.pending) /\ t.cursor = r.cursor /\ t.to = r.to
    BY <1>2, <1>6, <1>7, DrainedIs
  <1>9. (t.pending <=> s.pending) /\ t.cursor = s.cursor /\ t.to = s.to
    BY <1>5, <1>8
  <1> QED BY <1>2, <1>3, <1>8, <1>9, QuietStep

\* A drain under way is one of a generation that the node has, and none waits.
LEMMA Draining ==
  ASSUME NodeInv, NEW g \in Gens, phase[g] # "idle"
  PROVE  /\ g <= current /\ GenOk(log, node[g], phase[g]) /\ ~node[g].pending
         /\ DOMAIN node[g] = Fields /\ errors \in 0..MaxErrors
  <1>1. GenOk(log, node[g], phase[g]) /\ (g > current => phase[g] = "idle") /\ current \in 0..MaxResumes
        /\ errors \in 0..MaxErrors
    BY DEF NodeInv
  <1>2. g \in Int /\ current \in Int
    BY <1>1, StreamAssumption DEF Gens
  <1>3. g <= current
    BY <1>1, <1>2
  <1> DEFINE s == node[g]
  <1> HIDE DEF s
  <1>4. ~s.pending /\ DOMAIN s = Fields
    BY <1>1 DEF GenOk, s
  <1> QED BY <1>1, <1>3, <1>4 DEF s

LEMMA GiveUpKeeps ==
  ASSUME Inv, NEW g \in Gens, phase[g] # "idle", GiveUp(g), errors' \in 0..MaxErrors,
         UNCHANGED <<log, rows, db, current, up, req, down, dev, local>>
  PROVE  Inv'
  <1>1. NodeInv /\ DOMAIN node = Gens /\ log \in Seq(Parts)
    BY DEF Inv, NodeInv, LogInv
  <1> DEFINE s == node[g]
             t == [s EXCEPT !.dirty = TRUE, !.head = 0, !.to = 0, !.events = <<>>]
  <1>2. g <= current /\ GenOk(log, s, phase[g]) /\ ~s.pending /\ DOMAIN s = Fields
    BY <1>1, Draining
  <1>3. node' = [node EXCEPT ![g] = t]
    BY <1>1 DEF GiveUp
  <1>4. phase' = [phase EXCEPT ![g] = "idle"]
    BY DEF GiveUp
  <1>5. /\ DOMAIN t = Fields /\ t.compound = s.compound /\ (t.pending <=> s.pending) /\ t.cursor = s.cursor
        /\ t.dirty = TRUE /\ t.head = 0 /\ t.to = 0 /\ t.events = <<>>
    BY <1>2 DEF Fields
  <1> HIDE DEF s, t
  <1>6. ~t.pending /\ t.pending \in BOOLEAN
    <2>1. t.pending = FALSE
      BY <1>2 DEF t, s, Fields, GenOk
    <2> QED BY <2>1
  <1>7. GenOk(log, t, "idle")
    <2>1. 0 \in 0..Len(log)
      BY <1>1
    <2> QED BY <1>2, <1>5, <1>6, <2>1 DEF GenOk
  <1>8. (t.pending => t.to = node[g].to) /\ t.cursor = node[g].cursor /\ (t.pending <=> node[g].pending)
    BY <1>5, <1>6 DEF s
  <1> QED BY <1>2, <1>3, <1>4, <1>7, <1>8, QuietStep

LEMMA LoadHeadKeeps ==
  ASSUME Inv, NEW g \in Gens, LoadHead(g)
  PROVE  Inv'
  <1>1. NodeInv /\ DOMAIN node = Gens /\ log \in Seq(Parts)
    BY DEF Inv, NodeInv, LogInv
  <1>2. phase[g] = "head" /\ UNCHANGED <<log, rows, db, current, up, req, down, dev, local>>
    BY DEF LoadHead
  <1>3. CASE Fails("load") /\ GiveUp(g)
    <2>1. errors' \in 0..MaxErrors
      BY <1>1, <1>3, ErrorCounted
    <2> QED BY <1>2, <1>3, <2>1, GiveUpKeeps
  <1>4. CASE /\ node' = [node EXCEPT ![g].head = HeadCursor(log)]
             /\ phase' = [phase EXCEPT ![g] = "rows"] /\ UNCHANGED errors
    <2> DEFINE s == node[g]
               t == [s EXCEPT !.head = Len(log)]
    <2>1. g <= current /\ GenOk(log, s, phase[g]) /\ ~s.pending /\ DOMAIN s = Fields
          /\ errors' \in 0..MaxErrors
      BY <1>1, <1>2, <1>4, Draining
    <2>2. node' = [node EXCEPT ![g] = t]
      BY <1>1, <1>4 DEF HeadCursor
    <2>3. /\ DOMAIN t = Fields /\ t.compound = s.compound /\ t.pending = s.pending /\ t.cursor = s.cursor
          /\ t.dirty = s.dirty /\ t.head = Len(log) /\ t.to = s.to /\ t.events = s.events
      BY <2>1 DEF Fields
    <2> HIDE DEF t
    <2>4. GenOk(log, t, "rows")
      BY <1>1, <1>2, <2>1, <2>3 DEF GenOk
    <2>5. (t.pending => t.to = node[g].to) /\ t.cursor = node[g].cursor /\ (t.pending <=> node[g].pending)
      BY <2>3
    <2> HIDE DEF s
    <2> QED BY <1>2, <1>4, <2>1, <2>2, <2>4, <2>5, QuietStep
  <1> QED BY <1>3, <1>4 DEF LoadHead

\* The events that a drain has read are a page.
LEMMA LoadedPage ==
  ASSUME log \in Seq(Parts), NEW rs \in SUBSET Nat, NEW from \in 0..Len(log), NEW head \in 0..Len(log),
         NEW compound \in BOOLEAN, NEW fold
  PROVE  LET page == PageEnd(rs, from, head)
             to == IF compound THEN page ELSE ClassicEnd(rs, from, page)
             events == IF compound THEN CompoundEvents(log, rs, from, to, fold)
                       ELSE ClassicEvents(log, from, to)
         IN  to \in 0..Len(log) /\ IsPage(log, events, from, to)
  <1> DEFINE page == PageEnd(rs, from, head)
             to == IF compound THEN page ELSE ClassicEnd(rs, from, page)
             events == IF compound THEN CompoundEvents(log, rs, from, to, fold)
                       ELSE ClassicEvents(log, from, to)
  <1> SUFFICES to \in 0..Len(log) /\ IsPage(log, events, from, to)
    OBVIOUS
  <1>1. from \in Nat /\ head \in Nat /\ Len(log) \in Nat
    OBVIOUS
  <1>2. page \in from..Len(log) /\ page \in Nat /\ from <= page
    <2>1. page \in Nat /\ from <= page /\ (page <= head \/ page = from)
      BY <1>1, PageEnds
    <2> HIDE DEF page
    <2> QED BY <1>1, <2>1
  <1>3. to \in from..Len(log)
    <2>1. ~compound => to \in from..page
      BY <1>1, <1>2, ClassicEnds
    <2>2. compound => to = page
      OBVIOUS
    <2> HIDE DEF to, page
    <2> QED BY <1>1, <1>2, <2>1, <2>2
  <1>4. CASE ~compound
    <2>1. events = ClassicEvents(log, from, to)
      BY <1>4
    <2> HIDE DEF events, to
    <2>3. to \in 0..Len(log) /\ to \in Nat /\ from <= to
      BY <1>1, <1>3
    <2> DEFINE all == from + 1..to
    <2>2. Page(log, events, from, to, all) /\ Keeps(log, from, to, all)
      BY <1>1, <2>1, <2>3, ClassicPage, AllKeeps
    <2> HIDE DEF all
    <2> QED BY <1>1, <1>3, <2>2, <2>3 DEF IsPage
  <1>5. CASE compound
    <2>1. events = CompoundEvents(log, rs, from, to, fold)
      BY <1>5
    <2> HIDE DEF events, to
    <2>2. from <= to /\ to \in Nat /\ to \in 0..Len(log)
      BY <1>1, <1>3
    <2>3. ASSUME NEW kept, Keeps(log, from, to, kept), from < to => to \in kept,
                 events = Emit(log, rs, from, to, kept)
          PROVE  IsPage(log, events, from, to)
      <3>1. kept \in SUBSET (from + 1..to)
        BY <2>3 DEF Keeps
      <3>2. Page(log, events, from, to, kept)
        BY <1>1, <2>2, <2>3, <3>1, EmittedPage
      <3> QED BY <1>1, <1>3, <2>3, <3>2 DEF IsPage
    <2>4. CASE fold
      <3>1. events = Emit(log, rs, from, to, Kept(log, from, to))
        BY <2>1, <2>4 DEF CompoundEvents, Kept
      <3> DEFINE kept == Kept(log, from, to)
      <3>2. Keeps(log, from, to, kept) /\ (from < to => to \in kept)
        BY <1>1, <1>3, FoldKeeps
      <3> HIDE DEF kept
      <3>3. IsPage(log, events, from, to)
        <4>1. events = Emit(log, rs, from, to, kept)
          BY <3>1 DEF kept
        <4> QED BY <2>3, <3>2, <4>1
      <3> QED BY <2>2, <3>3
    <2>5. CASE ~fold
      <3>1. events = Emit(log, rs, from, to, from + 1..to)
        BY <2>1, <2>5 DEF CompoundEvents
      <3> DEFINE kept == from + 1..to
      <3>2. Keeps(log, from, to, kept) /\ (from < to => to \in kept)
        BY <1>1, <2>2, AllKeeps
      <3>3. events = Emit(log, rs, from, to, kept)
        BY <3>1
      <3> HIDE DEF kept
      <3>4. IsPage(log, events, from, to)
        BY <2>3, <3>2, <3>3
      <3> QED BY <2>2, <3>4
    <2> QED BY <2>4, <2>5
  <1> HIDE DEF events, to
  <1> QED BY <1>4, <1>5

LEMMA LoadRowsKeeps ==
  ASSUME Inv, NEW g \in Gens, LoadRows(g)
  PROVE  Inv'
  <1>1. NodeInv /\ DOMAIN node = Gens /\ log \in Seq(Parts) /\ rows \subseteq DOMAIN log
    BY DEF Inv, NodeInv, LogInv
  <1>2. phase[g] = "rows" /\ UNCHANGED <<log, rows, db, current, up, req, down, dev, local>>
    BY DEF LoadRows
  <1> DEFINE s == node[g]
             page == PageEnd(rows, s.cursor, s.head)
             to == IF s.compound THEN page ELSE ClassicEnd(rows, s.cursor, page)
             Events(fold) == IF s.compound THEN CompoundEvents(log, rows, s.cursor, to, fold)
                             ELSE ClassicEvents(log, s.cursor, to)
  <1>3. CASE Fails("load") /\ GiveUp(g)
    <2>1. errors' \in 0..MaxErrors
      BY <1>1, <1>3, ErrorCounted
    <2> QED BY <1>2, <1>3, <2>1, GiveUpKeeps
  <1>4. ASSUME NEW fold \in Folding, node' = [node EXCEPT ![g] = [s EXCEPT !.to = to, !.events = Events(fold)]],
               phase' = [phase EXCEPT ![g] = "send"], UNCHANGED errors
        PROVE  Inv'
    <2> DEFINE events == Events(fold)
               t == [s EXCEPT !.to = to, !.events = events]
    <2>1. g <= current /\ GenOk(log, s, phase[g]) /\ ~s.pending /\ DOMAIN s = Fields
          /\ errors' \in 0..MaxErrors
      BY <1>1, <1>2, <1>4, Draining
    <2>2. node' = [node EXCEPT ![g] = t]
      BY <1>4
    <2>3. to \in 0..Len(log) /\ IsPage(log, events, s.cursor, to)
      <3> DEFINE from == s.cursor
                 head == s.head
                 compound == s.compound
      <3>1. rows \in SUBSET Nat
        BY <1>1
      <3>2. from \in 0..Len(log) /\ head \in 0..Len(log) /\ compound \in BOOLEAN
        BY <2>1 DEF GenOk
      <3> HIDE DEF s
      <3> QED BY <1>1, <3>1, <3>2, LoadedPage
    <2> HIDE DEF events, to
    <2>4. /\ DOMAIN t = Fields /\ t.compound = s.compound /\ t.pending = s.pending /\ t.cursor = s.cursor
          /\ t.dirty = s.dirty /\ t.head = s.head /\ t.to = to /\ t.events = events
      BY <2>1 DEF Fields
    <2> HIDE DEF t
    <2>5. GenOk(log, t, "send")
      BY <1>1, <1>2, <2>1, <2>3, <2>4 DEF GenOk
    <2>6. (t.pending => t.to = node[g].to) /\ t.cursor = node[g].cursor /\ (t.pending <=> node[g].pending)
      BY <2>1, <2>4
    <2> HIDE DEF s
    <2> QED BY <1>2, <1>4, <2>1, <2>2, <2>5, <2>6, QuietStep
  <1>5. \/ \E fold \in Folding : /\ node' = [node EXCEPT ![g] = [s EXCEPT !.to = to, !.events = Events(fold)]]
                                 /\ phase' = [phase EXCEPT ![g] = "send"] /\ UNCHANGED errors
        \/ Fails("load") /\ GiveUp(g)
    BY DEF LoadRows
  <1> HIDE DEF s, page, to, Events
  <1> QED BY <1>3, <1>4, <1>5

LEMMA SendBatchKeeps ==
  ASSUME Inv, NEW g \in Gens, SendBatch(g)
  PROVE  Inv'
  <1>1. /\ LogInv /\ NodeInv /\ Flow /\ HandInv /\ Data /\ ReplayExact /\ UnreadSettled
        /\ DOMAIN node = Gens /\ log \in Seq(Parts) /\ Len(log) \in Nat /\ db \in Dbs
    BY DEF Inv, NodeInv, LogInv
  <1>2. phase[g] = "send" /\ UNCHANGED <<log, rows, db, current, up, req, dev, local>>
    BY DEF SendBatch
  <1> DEFINE s == node[g]
             More(latest) == s.to < latest
             Sent(more) == [s EXCEPT !.pending = TRUE, !.dirty = @ \/ more, !.head = 0, !.events = <<>>]
             Batch(more) == [gen |-> g, from |-> s.cursor, next |-> s.to, more |-> more,
                             events |-> s.events, unread |-> IF more THEN 0 ELSE db.unread]
  <1>3. g <= current /\ GenOk(log, s, phase[g]) /\ ~s.pending /\ DOMAIN s = Fields
        /\ errors \in 0..MaxErrors
    BY <1>1, <1>2, Draining
  <1>4. \E latest \in {Len(log), s.head} :
          \/ /\ node' = [node EXCEPT ![g] = Sent(More(latest))]
             /\ phase' = [phase EXCEPT ![g] = "idle"]
             /\ down' = Append(down, Batch(More(latest)))
             /\ UNCHANGED errors
          \/ Fails("load") /\ GiveUp(g) /\ UNCHANGED down
    BY DEF SendBatch, HeadCursor
  <1>5. CASE Fails("load") /\ GiveUp(g) /\ UNCHANGED down
    <2>1. errors' \in 0..MaxErrors
      BY <1>1, <1>5, ErrorCounted
    <2> QED BY <1>2, <1>5, <2>1, GiveUpKeeps
  <1>6. ASSUME NEW latest \in {Len(log), s.head},
               node' = [node EXCEPT ![g] = Sent(More(latest))],
               phase' = [phase EXCEPT ![g] = "idle"],
               down' = Append(down, Batch(More(latest))), UNCHANGED errors
        PROVE  Inv'
    <2> DEFINE more == More(latest)
               t == Sent(more)
               b == Batch(more)
               G == dev.gen
    <2>1. /\ s.cursor \in 0..Len(log) /\ s.to \in 0..Len(log) /\ s.head \in 0..Len(log)
          /\ IsPage(log, s.events, s.cursor, s.to) /\ s.compound \in BOOLEAN /\ s.dirty \in BOOLEAN
      BY <1>2, <1>3 DEF GenOk
    <2>2. more \in BOOLEAN /\ (s.to = Len(log) => ~more)
      BY <1>1, <2>1
    <2> HIDE DEF More
    <2>3. /\ DOMAIN t = Fields /\ t.compound = s.compound /\ t.pending = TRUE /\ t.cursor = s.cursor
          /\ t.head = 0 /\ t.to = s.to /\ t.events = <<>>
      BY <1>3 DEF Fields
    <2>4. t.dirty \in BOOLEAN
      BY <1>3, <2>1, <2>2 DEF Fields
    <2>5. /\ b.gen = g /\ b.from = s.cursor /\ b.next = s.to /\ b.more = more /\ b.events = s.events
          /\ b.unread = IF more THEN 0 ELSE db.unread
      OBVIOUS
    <2>6. node' = [node EXCEPT ![g] = t] /\ phase' = [phase EXCEPT ![g] = "idle"] /\ down' = Append(down, b)
      BY <1>6
    <2> HIDE DEF t, b, s, more
    <2>7. GenOk(log, t, "idle")
      <3>1. 0 \in 0..Len(log)
        BY <1>1
      <3> QED BY <2>1, <2>3, <2>4, <3>1 DEF GenOk
    <2>8. BatchOk(log, db, b)
      <3>1. db.unread \in Nat
        BY <1>1 DEF Dbs
      <3>2. b.unread \in Nat /\ (~more => b.unread = db.unread)
        BY <2>2, <2>5, <3>1
      <3> QED BY <2>1, <2>2, <2>5, <3>2 DEF BatchOk
    <2>9. NodeInv'
      <3>1. current' \in 0..MaxResumes /\ current <= current' /\ g <= current' /\ up' \in BOOLEAN
            /\ errors' \in 0..MaxErrors
        BY <1>1, <1>2, <1>3, <1>6 DEF NodeInv
      <3> QED BY <1>1, <1>2, <2>6, <2>7, <3>1, OneGen
    <2>10. /\ current \in 0..MaxResumes /\ G \in 0..MaxResumes /\ current <= G /\ g <= G
           /\ g \in Int /\ current \in Int /\ G \in Int
      <3>1. current \in 0..MaxResumes /\ G \in 0..MaxResumes /\ current <= G
        BY <1>1 DEF NodeInv, Flow
      <3> QED BY <1>3, <3>1, StreamAssumption DEF Gens
    <2>11. PICK S : down \in Seq(S)
      BY <1>1 DEF Flow
    <2> DEFINE T == S \cup {b}
               end == Len(down) + 1
    <2>12. down \in Seq(T) /\ b \in T
      BY <2>11
    <2>13. /\ down' \in Seq(T) /\ DOMAIN down' = DOMAIN down \cup {end} /\ down'[end] = b
           /\ \A i \in DOMAIN down : i # end /\ down'[i] = down[i]
      <3> HIDE DEF T
      <3>1. /\ Append(down, b) \in Seq(T) /\ DOMAIN down \subseteq Nat
            /\ DOMAIN Append(down, b) = DOMAIN down \cup {Len(down) + 1}
            /\ \A i \in DOMAIN down : i < Len(down) + 1 /\ Append(down, b)[i] = down[i]
            /\ Append(down, b)[Len(down) + 1] = b /\ Len(down) + 1 \in Nat
        BY <2>12, AppendOf
      <3>2. \A i \in DOMAIN down : i # end
        BY <3>1
      <3> QED BY <2>6, <3>1, <3>2
    <2> HIDE DEF end, T
    <2>14. Flow'
      <3>1. \A i \in DOMAIN down' : BatchOk(log, db, down'[i]) /\ down'[i].gen <= dev.gen
        BY <1>1, <2>5, <2>8, <2>10, <2>13 DEF Flow
      <3>2. \E R : down' \in Seq(R)
        BY <2>13
      <3> QED BY <1>1, <1>2, <3>1, <3>2 DEF Flow
    <2>15. HandInv'
      <3> SUFFICES ASSUME G # 0
                   PROVE  Hand(G, node'[G], req, down', current, dev.committed)
        BY <1>2 DEF HandInv
      <3>1. Hand(G, node[G], req, down, current, dev.committed) /\ G \in Gens
        BY <1>1, <2>10, StreamAssumption DEF HandInv, Gens
      <3>2. CASE g # G
        <4>1. node'[G] = node[G]
          BY <1>1, <2>6, <3>1, <3>2
        <4>2. Of(down', G) = Of(down, G)
          BY <2>5, <2>13, <3>2 DEF Of
        <4>3. \A i \in Of(down, G) : down'[i] = down[i]
          BY <2>13 DEF Of
        <4> HIDE DEF G
        <4> QED BY <3>1, <4>1, <4>2, <4>3 DEF Hand
      <3>3. CASE g = G
        <4>1. current = G
          BY <1>3, <2>10, <3>3
        <4>2. node[G] = s /\ node'[G] = t
          BY <1>1, <2>6, <3>1, <3>3 DEF s
        <4> HIDE DEF G
        <4>3. Of(down, G) = {} /\ s.cursor = dev.committed
          BY <1>3, <3>1, <4>1, <4>2 DEF Hand
        <4>4. Of(req, G) = {}
          <5> SUFFICES ASSUME NEW k \in Of(req, G) PROVE FALSE
            OBVIOUS
          <5>1. k \in DOMAIN req /\ req[k].gen = G
            BY DEF Of
          <5>2. req[k].cmd # "ack"
            BY <1>3, <3>1, <4>2 DEF Hand
          <5>3. req[k] \in Requested
            BY <1>1, <5>1 DEF Flow
          <5>4. req[k].cmd = "resume"
            BY <5>2, <5>3 DEF Requested
          <5>5. req[k].gen > current
            BY <1>1, <5>1, <5>4 DEF Flow
          <5> QED BY <2>10, <4>1, <5>1, <5>5
        <4>5. Of(down', G) = {end}
          BY <2>5, <2>13, <3>3, <4>3 DEF Of
        <4> QED BY <2>3, <2>5, <2>13, <4>1, <4>2, <4>3, <4>4, <4>5 DEF Hand
      <3> QED BY <3>2, <3>3
    <2>16. LogInv' /\ Data' /\ ReplayExact' /\ UnreadSettled'
      BY <1>1, <1>2, LogSame, DataSame
    <2> QED BY <2>9, <2>14, <2>15, <2>16 DEF Inv
  <1> HIDE DEF s, More, Sent, Batch
  <1> QED BY <1>4, <1>5, <1>6

\* The first request is taken.
LEMMA TailHand ==
  ASSUME NEW g, NEW s, NEW q \in Seq(Requested), q # <<>>, NEW b, NEW cur, NEW at,
         Hand(g, s, q, b, cur, at)
  PROVE  Hand(g, s, Tail(q), b, cur, at)
  <1>1. \A i \in DOMAIN Tail(q) : i \in Nat \ {0} /\ i + 1 \in DOMAIN q /\ Tail(q)[i] = q[i + 1]
    BY TailOf
  <1> DEFINE r == Tail(q)
  <1> HIDE DEF r
  <1>2. ASSUME NEW k \in Of(r, g) PROVE k \in Nat /\ k + 1 \in Of(q, g) /\ r[k] = q[k + 1]
    BY <1>1 DEF Of, r
  <1>3. ASSUME NEW k \in Of(r, g), r[k].cmd = "ack", NEW j \in Of(r, g) PROVE j = k
    <2> DEFINE m == k + 1
               n == j + 1
    <2>1. m \in Of(q, g) /\ n \in Of(q, g) /\ q[m].cmd = "ack" /\ j \in Nat /\ k \in Nat
      BY <1>2, <1>3
    <2> HIDE DEF m, n
    <2>2. n = m
      BY <2>1 DEF Hand
    <2> QED BY <2>1, <2>2 DEF m, n
  <1>4. ASSUME NEW k \in Of(r, g)
        PROVE  r[k].cursor = at /\ (r[k].cmd = "ack" => cur = g /\ s.pending /\ s.to = at)
    <2> DEFINE m == k + 1
    <2>1. m \in Of(q, g) /\ r[k] = q[m]
      BY <1>2
    <2> HIDE DEF m
    <2> QED BY <2>1 DEF Hand
  <1>5. Of(q, g) = {} => Of(r, g) = {}
    BY <1>2
  <1>6. Hand(g, s, r, b, cur, at)
    BY <1>3, <1>4, <1>5 DEF Hand
  <1> QED BY <1>6 DEF r

LEMMA TailFlow ==
  ASSUME Flow, LogInv, req # <<>>, req' = Tail(req), UNCHANGED <<log, db, dev, down>>,
         current' <= dev.gen,
         \A k \in DOMAIN req : k # 1 /\ req[k].cmd = "resume" => req[k].gen > current'
  PROVE  Flow'
  <1> DEFINE q == Tail(req)
  <1>1. /\ q \in Seq(Requested)
        /\ \A i \in DOMAIN q : i \in Nat \ {0} /\ i + 1 \in DOMAIN req /\ q[i] = req[i + 1]
    BY TailOf DEF Flow
  <1>2. req' = q
    OBVIOUS
  <1> HIDE DEF q
  <1>3. ASSUME NEW k \in DOMAIN q
        PROVE  /\ q[k].gen \in 1..dev.gen /\ q[k].cursor \in 0..Len(log)
               /\ q[k].cmd = "resume" => q[k].gen > current'
    <2> DEFINE m == k + 1
    <2>1. m \in DOMAIN req /\ q[k] = req[m] /\ m # 1
      BY <1>1
    <2> HIDE DEF m
    <2> QED BY <2>1 DEF Flow
  <1>4. ASSUME NEW j \in DOMAIN q, NEW k \in DOMAIN q, j < k, q[j].cmd = "resume", q[k].cmd = "resume"
        PROVE  q[j].gen < q[k].gen
    <2> DEFINE m == j + 1
               n == k + 1
    <2>1. m \in DOMAIN req /\ q[j] = req[m] /\ n \in DOMAIN req /\ q[k] = req[n] /\ m < n
      BY <1>1, <1>4
    <2> HIDE DEF m, n
    <2> QED BY <1>4, <2>1 DEF Flow
  <1>5. \A i \in DOMAIN down : BatchOk(log, db, down[i]) /\ down[i].gen <= dev.gen
    BY DEF Flow
  <1> QED BY <1>1, <1>2, <1>3, <1>4, <1>5 DEF Flow

\* What handling a resume or an acknowledgement leaves.
LEMMA Handled ==
  ASSUME Inv, req # <<>>, req' = Tail(req), UNCHANGED <<log, rows, db, up, down, dev, local>>,
         current' \in 0..MaxResumes, current <= current', current' <= dev.gen,
         \A k \in DOMAIN req : k # 1 /\ req[k].cmd = "resume" => req[k].gen > current',
         NodeInv', HandInv'
  PROVE  Inv'
  <1>1. LogInv /\ Flow /\ Data /\ ReplayExact /\ UnreadSettled
    BY DEF Inv
  <1>2. LogInv' /\ Data' /\ ReplayExact' /\ UnreadSettled'
    BY <1>1, LogSame, DataSame
  <1>3. Flow'
    BY <1>1, TailFlow
  <1> QED BY <1>2, <1>3 DEF Inv

\* A request that is not taken up.
LEMMA IgnoredKeeps ==
  ASSUME Inv, req # <<>>, req' = Tail(req),
         UNCHANGED <<log, rows, db, node, phase, current, up, down, dev, local>>, errors' \in 0..MaxErrors
  PROVE  Inv'
  <1>1. NodeInv /\ Flow /\ HandInv /\ req \in Seq(Requested)
    BY DEF Inv, Flow
  <1>2. NodeInv'
    BY <1>1 DEF NodeInv
  <1>3. current' \in 0..MaxResumes /\ current <= current' /\ current' <= dev.gen
    BY <1>1 DEF NodeInv, Flow
  <1>4. \A k \in DOMAIN req : k # 1 /\ req[k].cmd = "resume" => req[k].gen > current'
    BY <1>1 DEF Flow
  <1>5. HandInv'
    BY <1>1, TailHand DEF HandInv
  <1> QED BY <1>2, <1>3, <1>4, <1>5, Handled

LEMMA HandleResumeKeeps ==
  ASSUME Inv, HandleResume
  PROVE  Inv'
  <1>1. /\ LogInv /\ NodeInv /\ Flow /\ HandInv /\ DOMAIN node = Gens /\ log \in Seq(Parts)
        /\ req \in Seq(Requested) /\ dev \in [gen : 0..MaxResumes, committed : 0..Len(log),
                                             catching : BOOLEAN, compound : Compound]
    BY DEF Inv, NodeInv, LogInv, Flow
  <1> DEFINE h == req[1]
             r == [NoState EXCEPT !.dirty = TRUE, !.cursor = h.cursor, !.compound = h.compound]
             G == dev.gen
  <1>2. /\ req # <<>> /\ h.cmd = "resume" /\ req' = Tail(req) /\ h \in Requested /\ 1 \in DOMAIN req
        /\ UNCHANGED <<log, rows, db, up, down, dev, local>>
    BY <1>1, TailOf DEF HandleResume
  <1>3. CASE Fails("resume") /\ UNCHANGED <<node, phase, current>>
    <2>1. errors' \in 0..MaxErrors
      BY <1>1, <1>3, ErrorCounted
    <2> QED BY <1>2, <1>3, <2>1, IgnoredKeeps
  <1>4. CASE current' = h.gen /\ Drained(h.gen, r) /\ UNCHANGED errors
    <2>1. /\ h.gen \in 1..G /\ h.cursor \in 0..Len(log) /\ h.gen > current
          /\ current \in 0..MaxResumes /\ G \in 0..MaxResumes
      BY <1>1, <1>2 DEF Flow, NodeInv
    <2>2. h.gen \in Gens /\ h.gen <= G /\ h.gen \in Int /\ current \in Int /\ current < h.gen
      BY <2>1, StreamAssumption DEF Gens
    <2>3. /\ DOMAIN r = Fields /\ r.compound = h.compound /\ r.pending = FALSE /\ r.cursor = h.cursor
          /\ r.dirty = TRUE /\ r.head = 0 /\ r.to = 0 /\ r.events = <<>>
      BY DEF NoState, Fields
    <2>4. phase[h.gen] = "idle"
      BY <1>1, <2>1, <2>2 DEF NodeInv
    <2>5. h.compound \in BOOLEAN /\ h.cmd \in {"resume", "ack"}
      BY <1>2 DEF Requested
    <2> HIDE DEF h
    <2>6. Drained(h.gen, r)
      BY <1>4
    <2> HIDE DEF r
    <2>7. GenOk(log, r, phase[h.gen])
      <3>1. 0 \in 0..Len(log)
        BY <1>1
      <3> QED BY <2>1, <2>3, <2>4, <2>5, <3>1 DEF GenOk
    <2>8. PICK t, p : /\ node' = [node EXCEPT ![h.gen] = t] /\ phase' = [phase EXCEPT ![h.gen] = p]
                      /\ GenOk(log, t, p) /\ (t.pending <=> r.pending) /\ t.cursor = r.cursor /\ t.to = r.to
      BY <2>2, <2>6, <2>7, DrainedIs
    <2>9. current' \in 0..MaxResumes /\ current <= current' /\ h.gen <= current' /\ current' <= G
      BY <1>4, <2>1, <2>2, StreamAssumption DEF Gens
    <2>10. NodeInv'
      <3>1. up' \in BOOLEAN /\ errors' \in 0..MaxErrors
        BY <1>1, <1>2, <1>4 DEF NodeInv
      <3> QED BY <1>1, <1>2, <2>2, <2>8, <2>9, <3>1, OneGen
    <2>11. \A k \in DOMAIN req : k # 1 /\ req[k].cmd = "resume" => req[k].gen > current'
      <3> SUFFICES ASSUME NEW k \in DOMAIN req, k # 1, req[k].cmd = "resume"
                   PROVE  req[k].gen > h.gen
        BY <1>4
      <3>1. 1 < k
        BY <1>1
      <3>2. req[1].gen < req[k].gen
        BY <1>1, <1>2, <3>1 DEF Flow, h
      <3>3. req[k].gen \in 1..dev.gen
        BY <1>1 DEF Flow
      <3> QED BY <2>2, <3>2, <3>3 DEF h
    <2>12. HandInv'
      <3> SUFFICES ASSUME G # 0
                   PROVE  Hand(G, node'[G], req', down, current', dev.committed)
        BY <1>2 DEF HandInv
      <3>1. Hand(G, node[G], req, down, current, dev.committed) /\ G \in Gens
        BY <1>1, <2>1, StreamAssumption DEF HandInv, Gens
      <3>2. current # G /\ current # h.gen /\ G \in Int
        BY <2>1, <2>2
      <3>3. Of(down, G) = {} /\ \A k \in Of(req, G) : req[k].cursor = dev.committed /\ req[k].cmd # "ack"
        <4> HIDE DEF G
        <4> QED BY <3>1, <3>2 DEF Hand
      <3> DEFINE q == Tail(req)
      <3>4. \A i \in DOMAIN q : i \in Nat \ {0} /\ i + 1 \in DOMAIN req /\ q[i] = req[i + 1]
        BY <1>1, <1>2, TailOf
      <3> HIDE DEF q
      <3>5. ASSUME NEW k \in Of(q, G) PROVE q[k].cursor = dev.committed /\ q[k].cmd # "ack"
        <4> DEFINE m == k + 1
        <4>1. m \in Of(req, G) /\ q[k] = req[m]
          BY <3>4 DEF Of
        <4> HIDE DEF m
        <4> QED BY <3>3, <4>1
      <3>6. req' = q
        BY <1>2 DEF q
      <3>7. CASE h.gen = G
        <4>1. 1 \in Of(req, G)
          BY <1>2, <3>7 DEF Of, h
        <4>2. h.cursor = dev.committed
          BY <3>3, <4>1 DEF h
        <4>3. node'[G] = t /\ t.cursor = dev.committed
          BY <1>1, <2>3, <2>8, <3>1, <3>7, <4>2
        <4> HIDE DEF G
        <4> QED BY <3>3, <3>5, <3>6, <4>3 DEF Hand
      <3>8. CASE h.gen # G
        <4>1. current' # G
          BY <1>4, <3>8
        <4> HIDE DEF G
        <4> QED BY <3>3, <3>5, <3>6, <4>1 DEF Hand
      <3> QED BY <3>7, <3>8
    <2> HIDE DEF G
    <2> QED BY <1>2, <2>9, <2>10, <2>11, <2>12, Handled DEF G
  <1>5. \/ Fails("resume") /\ UNCHANGED <<node, phase, current>>
        \/ current' = h.gen /\ Drained(h.gen, r) /\ UNCHANGED errors
    <2>1. Head(req) = h
      BY <1>1, <1>2, TailOf
    <2> HIDE DEF h
    <2> QED BY <2>1 DEF HandleResume
  <1> HIDE DEF h, r, G
  <1> QED BY <1>3, <1>4, <1>5

LEMMA HandleAckKeeps ==
  ASSUME Inv, HandleAck
  PROVE  Inv'
  <1>1. /\ LogInv /\ NodeInv /\ Flow /\ HandInv /\ DOMAIN node = Gens /\ log \in Seq(Parts)
        /\ req \in Seq(Requested) /\ dev \in [gen : 0..MaxResumes, committed : 0..Len(log),
                                             catching : BOOLEAN, compound : Compound]
        /\ errors \in 0..MaxErrors
    BY DEF Inv, NodeInv, LogInv, Flow
  <1> DEFINE h == req[1]
             s == node[current]
             r == [s EXCEPT !.cursor = h.cursor, !.pending = FALSE]
             G == dev.gen
  <1>2. /\ req # <<>> /\ h.cmd = "ack" /\ req' = Tail(req) /\ h \in Requested /\ 1 \in DOMAIN req
        /\ UNCHANGED <<log, rows, db, current, up, down, dev, local>> /\ Head(req) = h
    BY <1>1, TailOf DEF HandleAck
  <1>3. CASE UNCHANGED <<node, phase>> /\ (UNCHANGED errors \/ Fails("ack"))
    <2>1. errors' \in 0..MaxErrors
      BY <1>1, <1>3, ErrorCounted
    <2> QED BY <1>2, <1>3, <2>1, IgnoredKeeps
  <1>4. CASE Expected(h) /\ Drained(current, r) /\ UNCHANGED errors
    <2>1. current # 0 /\ h.gen = current /\ s.pending /\ h.cursor = s.to
      BY <1>4 DEF Expected
    <2>2. current \in 0..MaxResumes /\ current <= G
      BY <1>1 DEF NodeInv, Flow
    <2>3. current \in Gens /\ current <= current
      BY <2>1, <2>2, StreamAssumption DEF Gens
    <2>4. GenOk(log, s, phase[current])
      BY <1>1, <2>3 DEF NodeInv
    <2>5. h.cursor \in 0..Len(log)
      BY <1>1, <1>2 DEF Flow
    <2>6. DOMAIN s = Fields
      BY <2>4 DEF GenOk
    <2> HIDE DEF h
    <2>7. /\ DOMAIN r = Fields /\ r.compound = s.compound /\ r.pending = FALSE /\ r.cursor = h.cursor
          /\ r.dirty = s.dirty /\ r.head = s.head /\ r.to = s.to /\ r.events = s.events
      BY <2>6 DEF Fields
    <2>8. Drained(current, r)
      BY <1>4
    <2> HIDE DEF r, s
    <2>9. GenOk(log, r, phase[current])
      BY <2>1, <2>4, <2>5, <2>7 DEF GenOk
    <2>10. PICK t, p : /\ node' = [node EXCEPT ![current] = t] /\ phase' = [phase EXCEPT ![current] = p]
                       /\ GenOk(log, t, p) /\ (t.pending <=> r.pending) /\ t.cursor = r.cursor /\ t.to = r.to
      BY <2>3, <2>8, <2>9, DrainedIs
    <2>11. current' \in 0..MaxResumes /\ current <= current' /\ current' <= G
      BY <1>2, <2>2, <2>3
    <2>12. NodeInv'
      <3>1. up' \in BOOLEAN /\ errors' \in 0..MaxErrors
        BY <1>1, <1>2, <1>4 DEF NodeInv
      <3> QED BY <1>1, <1>2, <2>3, <2>10, <2>11, <3>1, OneGen
    <2>13. \A k \in DOMAIN req : k # 1 /\ req[k].cmd = "resume" => req[k].gen > current'
      BY <1>1, <1>2 DEF Flow
    <2>14. HandInv'
      <3> SUFFICES ASSUME G # 0
                   PROVE  Hand(G, node'[G], req', down, current, dev.committed)
        BY <1>2 DEF HandInv
      <3>1. Hand(G, node[G], req, down, current, dev.committed) /\ G \in Gens
        BY <1>1, <2>2, StreamAssumption DEF HandInv, Gens
      <3>2. Hand(G, node[G], Tail(req), down, current, dev.committed)
        <4> HIDE DEF G
        <4> QED BY <1>1, <1>2, <3>1, TailHand
      <3>3. CASE current # G
        <4>1. node'[G] = node[G]
          BY <1>1, <2>10, <3>1, <3>3
        <4> QED BY <1>2, <3>2, <4>1
      <3>4. CASE current = G
        <4>1. 1 \in Of(req, G)
          BY <1>2, <2>1, <3>4 DEF Of, h
        <4>2. node'[G] = t
          BY <1>1, <2>10, <3>1, <3>4
        <4> HIDE DEF G
        <4>3. h.cursor = dev.committed /\ \A j \in Of(req, G) : j = 1
          BY <1>2, <3>1, <4>1 DEF Hand, h
        <4>4. Of(down, G) = {}
          BY <3>1, <4>1 DEF Hand
        <4> DEFINE q == Tail(req)
        <4>5. \A i \in DOMAIN q : i \in Nat \ {0} /\ i + 1 \in DOMAIN req /\ q[i] = req[i + 1]
          BY <1>1, <1>2, TailOf
        <4> HIDE DEF q
        <4>6. Of(q, G) = {}
          <5> SUFFICES ASSUME NEW k \in Of(q, G) PROVE FALSE
            OBVIOUS
          <5>1. k \in Nat \ {0} /\ k + 1 \in Of(req, G)
            BY <4>5 DEF Of
          <5> QED BY <4>3, <5>1
        <4>7. t.cursor = dev.committed /\ req' = q
          BY <1>2, <2>7, <2>10, <4>3 DEF q
        <4> QED BY <4>2, <4>4, <4>6, <4>7 DEF Hand
      <3> QED BY <3>3, <3>4
    <2> HIDE DEF G
    <2> QED BY <1>2, <2>11, <2>12, <2>13, <2>14, Handled DEF G
  <1>5. \/ UNCHANGED <<node, phase>> /\ (UNCHANGED errors \/ Fails("ack"))
        \/ Expected(h) /\ Drained(current, r) /\ UNCHANGED errors
    <2> HIDE DEF h
    <2> QED BY <1>2 DEF HandleAck
  <1> HIDE DEF h, r, s, G
  <1> QED BY <1>3, <1>4, <1>5

-----------------------------------------------------------------------------
(* The device                                                                *)

\* A new generation starts from the cursor on disk.
LEMMA ResumeKeeps ==
  ASSUME Inv, NEW rest \in {<<>>, req}, Resume(rest), up' \in BOOLEAN,
         UNCHANGED <<log, rows, db, node, phase, current, down, local, errors>>
  PROVE  Inv'
  <1>1. /\ LogInv /\ NodeInv /\ Flow /\ Data /\ ReplayExact /\ UnreadSettled /\ req \in Seq(Requested)
        /\ dev \in [gen : 0..MaxResumes, committed : 0..Len(log), catching : BOOLEAN, compound : Compound]
        /\ current \in 0..MaxResumes /\ current <= dev.gen
    BY DEF Inv, Flow, NodeInv
  <1> DEFINE G == dev.gen + 1
             x == [cmd |-> "resume", gen |-> G, cursor |-> dev.committed, compound |-> dev.compound]
             q == Append(rest, x)
             end == Len(rest) + 1
  <1>2. /\ dev.gen < MaxResumes /\ dev' = [dev EXCEPT !.gen = G, !.catching = TRUE] /\ req' = q
    BY <1>1 DEF Resume
  <1>3. /\ dev.gen \in Nat /\ G \in 1..MaxResumes /\ dev.gen < G /\ dev.committed \in 0..Len(log) /\ dev.committed \in Nat
        /\ dev.compound \in Compound /\ dev.compound \in BOOLEAN /\ current < G /\ current \in Int /\ G \in Int
    <2>1. dev.gen \in 0..MaxResumes /\ dev.committed \in 0..Len(log) /\ dev.compound \in Compound
      BY <1>1
    <2>2. dev.compound \in BOOLEAN
      BY <2>1, StreamAssumption
    <2> QED BY <1>1, <1>2, <2>1, <2>2, StreamAssumption
  <1>4. x \in Requested
    BY <1>3 DEF Requested
  <1>5. /\ dev' \in [gen : 0..MaxResumes, committed : 0..Len(log), catching : BOOLEAN, compound : Compound]
        /\ dev'.gen = G /\ dev'.committed = dev.committed
    <2>1. dev' = [dev EXCEPT !.gen = G, !.catching = TRUE] /\ G \in 0..MaxResumes
      BY <1>2, <1>3, StreamAssumption
    <2> HIDE DEF G
    <2>2. dev'.gen = G /\ dev'.committed = dev.committed
      BY <1>1, <2>1
    <2>3. dev' \in [gen : 0..MaxResumes, committed : 0..Len(log), catching : BOOLEAN, compound : Compound]
      BY <1>1, <2>1
    <2> QED BY <2>2, <2>3
  <1>6. /\ rest \in Seq(Requested) /\ DOMAIN rest \subseteq DOMAIN req
        /\ \A k \in DOMAIN rest : rest[k] = req[k]
    <2>1. CASE rest = req
      BY <1>1, <2>1
    <2>2. CASE rest = <<>>
      <3>1. <<>> \in Seq(Requested) /\ DOMAIN <<>> = {}
        OBVIOUS
      <3> QED BY <2>2, <3>1
    <2> QED BY <2>1, <2>2
  <1>7. x.cmd = "resume" /\ x.gen = G /\ x.cursor = dev.committed
    OBVIOUS
  <1> HIDE DEF x
  <1>8. /\ q \in Seq(Requested) /\ DOMAIN q = DOMAIN rest \cup {end} /\ q[end] = x
        /\ \A k \in DOMAIN rest : k < end /\ q[k] = rest[k]
        /\ DOMAIN rest \subseteq Nat /\ end \in Nat
    BY <1>4, <1>6, AppendOf
  <1> HIDE DEF G, q, end
  <1>9. \A k \in DOMAIN rest : /\ rest[k].gen \in 1..dev.gen /\ rest[k].cursor \in 0..Len(log)
                               /\ rest[k].cmd = "resume" => rest[k].gen > current
    BY <1>1, <1>6 DEF Flow
  <1>10. \A j, k \in DOMAIN rest : j < k /\ rest[j].cmd = "resume" /\ rest[k].cmd = "resume"
                                     => rest[j].gen < rest[k].gen
    BY <1>1, <1>6 DEF Flow
  <1>11. LogInv' /\ NodeInv'
    BY <1>1, LogSame DEF NodeInv
  <1>12. Flow'
    <2>1. \A k \in DOMAIN q : /\ q[k].gen \in 1..G /\ q[k].cursor \in 0..Len(log)
                              /\ q[k].cmd = "resume" => q[k].gen > current
      BY <1>3, <1>7, <1>8, <1>9
    <2>2. ASSUME NEW j \in DOMAIN q, NEW k \in DOMAIN q, j < k, q[j].cmd = "resume", q[k].cmd = "resume"
          PROVE  q[j].gen < q[k].gen
      <3>1. j # end
        <4> SUFFICES ASSUME j = end PROVE FALSE
          OBVIOUS
        <4>1. k < end \/ k = end
          BY <1>8
        <4>2. k \in Nat /\ end \in Nat
          BY <1>8
        <4> QED BY <2>2, <4>1, <4>2
      <3>2. j \in DOMAIN rest /\ q[j] = rest[j]
        BY <1>8, <3>1
      <3>3. CASE k \in DOMAIN rest
        BY <1>8, <1>10, <2>2, <3>2, <3>3
      <3>4. CASE k = end
        BY <1>3, <1>7, <1>8, <1>9, <3>2, <3>4
      <3> QED BY <1>8, <3>3, <3>4
    <2>3. \A i \in DOMAIN down : BatchOk(log, db, down[i]) /\ down[i].gen <= G
      <3>1. \A i \in DOMAIN down : BatchOk(log, db, down[i]) /\ down[i].gen <= dev.gen
        BY <1>1 DEF Flow
      <3>2. \A i \in DOMAIN down : down[i].gen \in Int
        BY <3>1, StreamAssumption DEF BatchOk, Gens
      <3> QED BY <1>3, <3>1, <3>2
    <2>4. \E S : down \in Seq(S)
      BY <1>1 DEF Flow
    <2>5. current <= G
      BY <1>3
    <2> QED BY <1>2, <1>5, <1>8, <2>1, <2>2, <2>3, <2>4, <2>5 DEF Flow
  <1>13. HandInv'
    <2>1. \A i \in DOMAIN down : down[i].gen # G
      <3>1. ASSUME NEW i \in DOMAIN down PROVE down[i].gen <= dev.gen /\ down[i].gen \in Int
        BY <1>1, StreamAssumption DEF Flow, BatchOk, Gens
      <3> QED BY <1>3, <3>1
    <2>2. Of(down, G) = {}
      BY <2>1 DEF Of
    <2>3. \A k \in DOMAIN rest : rest[k].gen # G
      BY <1>3, <1>9
    <2>4. \A k \in Of(q, G) : q[k].cursor = dev.committed /\ q[k].cmd # "ack"
      BY <1>7, <1>8, <2>3 DEF Of
    <2>5. current # G
      BY <1>3
    <2>6. Hand(G, node[G], q, down, current, dev.committed)
      BY <2>2, <2>4, <2>5 DEF Hand
    <2> QED BY <1>2, <1>5, <2>6 DEF HandInv
  <1>14. Data' /\ ReplayExact' /\ UnreadSettled'
    <2>1. Data'
      BY <1>1, <1>5 DEF Data
    <2>2. ReplayExact'
      BY <1>1, <1>5 DEF ReplayExact
    <2>3. UnreadSettled'
      BY <1>1, <1>5 DEF UnreadSettled
    <2> QED BY <2>1, <2>2, <2>3
  <1> QED BY <1>11, <1>12, <1>13, <1>14 DEF Inv

LEMMA ReconnectKeeps ==
  ASSUME Inv, Reconnect
  PROVE  Inv'
  BY ResumeKeeps DEF Reconnect

LEMMA ForegroundResumeKeeps ==
  ASSUME Inv, ForegroundResume
  PROVE  Inv'
  <1>1. up' \in BOOLEAN
    BY DEF Inv, NodeInv, ForegroundResume
  <1> QED BY <1>1, ResumeKeeps DEF ForegroundResume

LEMMA DropKeeps ==
  ASSUME Inv, Drop
  PROVE  Inv'
  <1>1. LogInv /\ NodeInv /\ Flow /\ Data /\ ReplayExact /\ UnreadSettled /\ log \in Seq(Parts)
    BY DEF Inv, LogInv
  <1>2. /\ up' = FALSE /\ req' = <<>> /\ down' = <<>> /\ current' = 0
        /\ node' = [g \in Gens |-> NoState] /\ phase' = [g \in Gens |-> "idle"]
        /\ UNCHANGED <<log, rows, db, dev, local, errors>>
    BY DEF Drop
  <1>3. GenOk(log, NoState, "idle")
    <2>1. 0 \in 0..Len(log)
      BY <1>1
    <2> QED BY <2>1 DEF GenOk, NoState, Fields
  <1>4. NodeInv'
    <2>1. errors' \in 0..MaxErrors /\ 0 \in 0..MaxResumes
      BY <1>1, <1>2, StreamAssumption DEF NodeInv
    <2> HIDE DEF NoState
    <2> QED BY <1>2, <1>3, <2>1 DEF NodeInv
  <1>5. Flow'
    <2>1. /\ req' \in Seq(Requested) /\ down' \in Seq({}) /\ DOMAIN req' = {} /\ DOMAIN down' = {}
      BY <1>2
    <2>2. 0 <= dev.gen
      BY <1>1, StreamAssumption DEF Flow
    <2>3. dev \in [gen : 0..MaxResumes, committed : 0..Len(log), catching : BOOLEAN, compound : Compound]
      BY <1>1 DEF Flow
    <2> QED BY <1>2, <2>1, <2>2, <2>3 DEF Flow
  <1>6. HandInv'
    <2> SUFFICES ASSUME dev.gen # 0
                 PROVE  Hand(dev.gen, node'[dev.gen], req', down', current', dev.committed)
      BY <1>2 DEF HandInv
    <2>1. DOMAIN req' = {} /\ DOMAIN down' = {} /\ current' # dev.gen
      BY <1>2
    <2>2. \A g : Of(req', g) = {} /\ Of(down', g) = {}
      BY <2>1 DEF Of
    <2> QED BY <2>1, <2>2 DEF Hand
  <1>7. LogInv' /\ Data' /\ ReplayExact' /\ UnreadSettled'
    BY <1>1, <1>2, LogSame, DataSame
  <1> QED BY <1>4, <1>5, <1>6, <1>7 DEF Inv

\* The first batch is taken.
LEMMA TailDown ==
  ASSUME NEW S, down \in Seq(S), down # <<>>, down' = Tail(down)
  PROVE  /\ down' \in Seq(S) /\ 1 \in DOMAIN down /\ Head(down) = down[1]
         /\ \A i \in DOMAIN down' : i \in Nat \ {0} /\ i + 1 \in DOMAIN down /\ down'[i] = down[i + 1]
         /\ \A g : \A i \in Of(down', g) : i \in Nat \ {0} /\ i + 1 \in Of(down, g) /\ down'[i] = down[i + 1]
  <1>1. /\ Tail(down) \in Seq(S) /\ 1 \in DOMAIN down /\ Head(down) = down[1]
        /\ \A i \in DOMAIN Tail(down) : i \in Nat \ {0} /\ i + 1 \in DOMAIN down /\ Tail(down)[i] = down[i + 1]
    BY TailOf
  <1> QED BY <1>1 DEF Of

LEMMA DiscardKeeps ==
  ASSUME Inv, Discard
  PROVE  Inv'
  <1>1. LogInv /\ NodeInv /\ Flow /\ HandInv /\ Data /\ ReplayExact /\ UnreadSettled
    BY DEF Inv
  <1>2. /\ down # <<>> /\ down' = Tail(down)
        /\ UNCHANGED <<log, rows, db, node, phase, current, up, req, dev, local, errors>>
    BY DEF Discard
  <1>3. PICK S : down \in Seq(S)
    BY <1>1 DEF Flow
  <1>4. /\ down' \in Seq(S)
        /\ \A i \in DOMAIN down' : i \in Nat \ {0} /\ i + 1 \in DOMAIN down /\ down'[i] = down[i + 1]
        /\ \A g : \A i \in Of(down', g) : i \in Nat \ {0} /\ i + 1 \in Of(down, g) /\ down'[i] = down[i + 1]
    BY <1>2, <1>3, TailDown
  <1>5. Flow'
    <2>1. ASSUME NEW i \in DOMAIN down' PROVE BatchOk(log, db, down'[i]) /\ down'[i].gen <= dev.gen
      <3> DEFINE k == i + 1
      <3>1. k \in DOMAIN down /\ down'[i] = down[k]
        BY <1>4
      <3> HIDE DEF k
      <3> QED BY <1>1, <3>1 DEF Flow
    <2>2. \E R : down' \in Seq(R)
      BY <1>4
    <2> QED BY <1>1, <1>2, <2>1, <2>2 DEF Flow
  <1>6. HandInv'
    <2> SUFFICES ASSUME dev.gen # 0
                 PROVE  Hand(dev.gen, node[dev.gen], req, down', current, dev.committed)
      BY <1>2 DEF HandInv
    <2> DEFINE G == dev.gen
               s == node[G]
    <2>1. Hand(G, s, req, down, current, dev.committed)
      BY <1>1 DEF HandInv
    <2> HIDE DEF G, s
    <2>2. ASSUME NEW i \in Of(down', G)
          PROVE  /\ current = G /\ s.pending /\ down'[i].from = dev.committed /\ down'[i].next = s.to
                 /\ Of(req, G) = {} /\ \A j \in Of(down', G) : j = i
      <3> DEFINE k == i + 1
      <3>1. k \in Of(down, G) /\ down'[i] = down[k] /\ i \in Nat
        BY <1>4
      <3>2. ASSUME NEW j \in Of(down', G) PROVE j = i
        <4> DEFINE l == j + 1
        <4>1. l \in Of(down, G) /\ j \in Nat
          BY <1>4
        <4> HIDE DEF k, l
        <4>2. l = k
          BY <2>1, <3>1, <4>1 DEF Hand
        <4> QED BY <3>1, <4>1, <4>2 DEF k, l
      <3> HIDE DEF k
      <3> QED BY <2>1, <3>1, <3>2 DEF Hand
    <2>3. Hand(G, s, req, down', current, dev.committed)
      BY <2>1, <2>2 DEF Hand
    <2> QED BY <2>3 DEF G, s
  <1>7. LogInv' /\ NodeInv' /\ Data' /\ ReplayExact' /\ UnreadSettled'
    <2>1. NodeInv'
      BY <1>1, <1>2 DEF NodeInv
    <2> QED BY <1>1, <1>2, <2>1, LogSame, DataSame
  <1> QED BY <1>5, <1>6, <1>7 DEF Inv

LEMMA EmptyIsFresh ==
  ASSUME NEW lg \in Seq(Parts)
  PROVE  EmptyLocal \in Locals /\ Fresh(EmptyLocal, lg, 0)
  <1>1. EmptyLocal \in Locals
    BY DEF EmptyLocal, Locals
  <1>2. ASSUME NEW c \in DOMAIN lg PROVE Ahead(lg[c], EmptyLocal.ver[lg[c].id])
    <2>1. lg[c].id \in Entities /\ lg[c].ver \in Nat
      BY PartsAbout
    <2>2. EmptyLocal.ver[lg[c].id] = -1
      BY <2>1 DEF EmptyLocal
    <2> QED BY <2>1, <2>2 DEF Ahead
  <1>3. Member \notin EmptyLocal.tomb /\ Session \notin EmptyLocal.tomb
    BY DEF EmptyLocal
  <1> QED BY <1>1, <1>2, <1>3 DEF Fresh

\* The unread count is all that WithoutUnread leaves out.
LEMMA AlikeIs ==
  ASSUME NEW s \in Locals, NEW t \in Locals
  PROVE  WithoutUnread(s) = WithoutUnread(t) <=> Alike(s, t)
  <1>1. /\ s.session \in BOOLEAN /\ t.session \in BOOLEAN
        /\ DOMAIN s = {"msgs", "session", "unread", "ver", "tomb", "acked"}
        /\ DOMAIN t = {"msgs", "session", "unread", "ver", "tomb", "acked"}
    BY DEF Locals
  <1>2. WithoutUnread(s) = [msgs |-> s.msgs, session |-> s.session, unread |-> 0, ver |-> s.ver,
                            tomb |-> s.tomb, acked |-> s.acked]
    BY DEF WithoutUnread, Locals
  <1>3. WithoutUnread(t) = [msgs |-> t.msgs, session |-> t.session, unread |-> 0, ver |-> t.ver,
                            tomb |-> t.tomb, acked |-> t.acked]
    BY DEF WithoutUnread, Locals
  <1>4. (s.session <=> t.session) => s.session = t.session
    BY <1>1
  <1>5. ASSUME Alike(s, t) PROVE WithoutUnread(s) = WithoutUnread(t)
    BY <1>2, <1>3, <1>4, <1>5 DEF Alike
  <1>6. ASSUME WithoutUnread(s) = WithoutUnread(t) PROVE Alike(s, t)
    <2>1. s.msgs = t.msgs
      BY <1>2, <1>3, <1>6
    <2>2. s.session = t.session
      BY <1>2, <1>3, <1>6
    <2>3. s.ver = t.ver
      BY <1>2, <1>3, <1>6
    <2>4. s.tomb = t.tomb
      BY <1>2, <1>3, <1>6
    <2>5. s.acked = t.acked
      BY <1>2, <1>3, <1>6
    <2> QED BY <2>1, <2>2, <2>3, <2>4, <2>5 DEF Alike
  <1> QED BY <1>5, <1>6

LEMMA SnapshotIs ==
  ASSUME NEW l \in Locals, NEW unread \in Nat
  PROVE  LET x == ApplySnapshot(l, unread) IN
         /\ x \in Locals /\ Alike(x, l)
         /\ l.session /\ Session \notin l.tomb => x.unread = unread
  <1>1. CASE l.session /\ Session \notin l.tomb
    <2> DEFINE x == [l EXCEPT !.unread = unread]
    <2>1. x \in Locals /\ x.unread = unread /\ Alike(x, l)
      BY DEF Locals, Alike
    <2>2. ApplySnapshot(l, unread) = x
      BY <1>1 DEF ApplySnapshot
    <2> QED BY <2>1, <2>2
  <1>2. CASE ~(l.session /\ Session \notin l.tomb)
    <2>1. ApplySnapshot(l, unread) = l
      BY <1>2 DEF ApplySnapshot
    <2> QED BY <1>2, <2>1 DEF Alike
  <1> QED BY <1>1, <1>2

\* A page is contiguous, acceptable where it starts, and means what its rows mean.
LEMMA PageMeans ==
  ASSUME NEW lg \in Seq(Parts), Ascending(lg), NEW l \in Locals,
         NEW events, NEW from, NEW to, IsPage(lg, events, from, to), Fresh(l, lg, from)
  PROVE  /\ from \in Nat /\ to \in from..Len(lg)
         /\ Contiguous(events, from, to) /\ Acceptable(l, PartsOf(events), from, to)
         /\ ApplyParts(l, PartsOf(events), from, to) = ApplyParts(l, lg, from, to)
  <1>1. from \in Nat /\ to \in from..Len(lg)
    BY DEF IsPage
  <1>2. PICK kept : Keeps(lg, from, to, kept) /\ Page(lg, events, from, to, kept)
    BY DEF IsPage
  <1>3. PartsOf(events) = Some(lg, kept)
    BY <1>2, PartsOfPage
  <1>4. Contiguous(events, from, to)
    BY <1>2 DEF Page
  <1>5. kept \in SUBSET (from + 1..to)
    BY <1>2 DEF Keeps
  <1>6. Acceptable(l, Some(lg, kept), from, to)
    BY <1>1, <1>5, AllAcceptable
  <1>7. ApplyParts(l, Some(lg, kept), from, to) = ApplyParts(l, lg, from, to)
    BY <1>1, <1>2, KeptMeansAll
  <1> QED BY <1>1, <1>3, <1>4, <1>6, <1>7

LEMMA ApplyBatchKeeps ==
  ASSUME Inv, ApplyBatch
  PROVE  Inv'
  <1>1. /\ LogInv /\ NodeInv /\ Flow /\ HandInv /\ Data /\ ReplayExact /\ UnreadSettled
        /\ log \in Seq(Parts) /\ Ascending(log) /\ Len(log) \in Nat /\ db \in Dbs
        /\ local \in Locals /\ Fresh(local, log, dev.committed)
    BY DEF Inv, LogInv, Data
  <1> DEFINE b == down[1]
             G == dev.gen
             s == node[G]
             from == dev.committed
             x == ApplyParts(local, log, from, b.next)
             a == [cmd |-> "ack", gen |-> b.gen, cursor |-> b.next, compound |-> FALSE]
  <1>2. PICK S : down \in Seq(S)
    BY <1>1 DEF Flow
  <1>3. /\ down # <<>> /\ down' = Tail(down)
        /\ UNCHANGED <<log, rows, db, node, phase, current, up, errors>>
    BY DEF ApplyBatch
  <1>4. /\ down' \in Seq(S) /\ 1 \in DOMAIN down /\ Head(down) = b
        /\ \A i \in DOMAIN down' : i \in Nat \ {0} /\ i + 1 \in DOMAIN down /\ down'[i] = down[i + 1]
        /\ \A g : \A i \in Of(down', g) : i \in Nat \ {0} /\ i + 1 \in Of(down, g) /\ down'[i] = down[i + 1]
    BY <1>2, <1>3, TailDown
  <1>5. /\ b.gen = G /\ local' = Projected(b)
        /\ dev' = [dev EXCEPT !.committed = b.next, !.catching = b.more]
        /\ req' = Append(req, a)
    <2> HIDE DEF b
    <2> QED BY <1>4 DEF ApplyBatch
  <1>6. BatchOk(log, db, b)
    BY <1>1, <1>4 DEF Flow
  <1>7. /\ b.gen \in Gens /\ b.more \in BOOLEAN /\ b.unread \in Nat /\ IsPage(log, b.events, b.from, b.next)
        /\ b.next = Len(log) => ~b.more /\ b.unread = db.unread
    <2> HIDE DEF b
    <2> QED BY <1>6 DEF BatchOk
  <1>8. G \in Gens /\ G # 0
    BY <1>5, <1>7, StreamAssumption DEF Gens
  <1>9. Hand(G, s, req, down, current, from)
    BY <1>1, <1>8 DEF HandInv
  <1>10. 1 \in Of(down, G)
    BY <1>4, <1>5 DEF Of
  <1> HIDE DEF s, G, from
  <1>11. /\ current = G /\ s.pending /\ b.from = from /\ b.next = s.to
         /\ Of(req, G) = {} /\ \A j \in Of(down, G) : j = 1
    BY <1>9, <1>10 DEF Hand
  <1> HIDE DEF b, a
  <1>12. from \in Nat /\ b.next \in from..Len(log) /\ b.next \in Nat /\ b.next \in 0..Len(log)
         /\ ApplyParts(local, PartsOf(b.events), from, b.next) = ApplyParts(local, log, from, b.next)
    <2>1. /\ from \in Nat /\ b.next \in from..Len(log)
          /\ ApplyParts(local, PartsOf(b.events), from, b.next) = ApplyParts(local, log, from, b.next)
      BY <1>1, <1>7, <1>11, PageMeans DEF from
    <2> QED BY <1>1, <2>1
  <1>13. local' = IF b.more THEN x ELSE ApplySnapshot(x, b.unread)
    BY <1>5, <1>11, <1>12 DEF Projected
  <1>14. x \in Locals /\ Fresh(x, log, b.next)
    BY <1>1, <1>12, AppliesAll DEF from
  <1> HIDE DEF x
  <1>15. /\ local' \in Locals /\ Alike(local', x)
         /\ ~b.more /\ x.session /\ Session \notin x.tomb => local'.unread = b.unread
    <2>1. CASE b.more
      BY <1>13, <1>14, <2>1 DEF Alike
    <2>2. CASE ~b.more
      BY <1>7, <1>13, <1>14, <2>2, SnapshotIs
    <2> QED BY <2>1, <2>2
  <1>16. /\ dev' \in [gen : 0..MaxResumes, committed : 0..Len(log), catching : BOOLEAN, compound : Compound]
         /\ dev'.gen = G /\ dev'.committed = b.next
    <2>1. dev \in [gen : 0..MaxResumes, committed : 0..Len(log), catching : BOOLEAN, compound : Compound]
      BY <1>1 DEF Flow
    <2>2. dev' \in [gen : 0..MaxResumes, committed : 0..Len(log), catching : BOOLEAN, compound : Compound]
      BY <1>5, <1>7, <1>12, <2>1
    <2>3. dev'.gen = G /\ dev'.committed = b.next
      BY <1>5, <2>1 DEF G
    <2> QED BY <2>2, <2>3
  <1>17. LogInv' /\ NodeInv'
    <2>1. NodeInv'
      BY <1>1, <1>3 DEF NodeInv
    <2> QED BY <1>1, <1>3, <2>1, LogSame
  <1> DEFINE end == Len(req) + 1
  <1>18. a \in Requested /\ a.cmd = "ack" /\ a.gen = G /\ a.cursor = b.next
    <2>1. b.gen \in Nat
      BY <1>7, StreamAssumption DEF Gens
    <2> QED BY <1>5, <1>12, <2>1 DEF Requested, a
  <1>19. /\ req' \in Seq(Requested) /\ DOMAIN req' = DOMAIN req \cup {end} /\ req'[end] = a
         /\ \A k \in DOMAIN req : k < end /\ req'[k] = req[k]
         /\ DOMAIN req \subseteq Nat /\ end \in Nat
    <2>1. req \in Seq(Requested)
      BY <1>1 DEF Flow
    <2> QED BY <1>5, <1>18, <2>1, AppendOf
  <1> HIDE DEF end
  <1>20. Flow'
    <2>1. \A k \in DOMAIN req : /\ req[k].gen \in 1..G /\ req[k].cursor \in 0..Len(log)
                                /\ req[k].cmd = "resume" => req[k].gen > current
      BY <1>1 DEF Flow, G
    <2>2. G \in 1..G
      BY <1>8, StreamAssumption DEF Gens
    <2>3. \A k \in DOMAIN req' : /\ req'[k].gen \in 1..G /\ req'[k].cursor \in 0..Len(log)
                                 /\ req'[k].cmd = "resume" => req'[k].gen > current
      BY <1>12, <1>18, <1>19, <2>1, <2>2
    <2>4. ASSUME NEW j \in DOMAIN req', NEW k \in DOMAIN req', j < k, req'[j].cmd = "resume", req'[k].cmd = "resume"
          PROVE  req'[j].gen < req'[k].gen
      <3>1. j \in DOMAIN req /\ k \in DOMAIN req /\ req'[j] = req[j] /\ req'[k] = req[k]
        BY <1>18, <1>19, <2>4
      <3> QED BY <1>1, <2>4, <3>1 DEF Flow
    <2>5. ASSUME NEW i \in DOMAIN down' PROVE BatchOk(log, db, down'[i]) /\ down'[i].gen <= G
      <3> DEFINE k == i + 1
      <3>1. k \in DOMAIN down /\ down'[i] = down[k]
        BY <1>4
      <3> HIDE DEF k
      <3> QED BY <1>1, <3>1 DEF Flow, G
    <2>6. \E R : down' \in Seq(R)
      BY <1>4
    <2>7. current <= G
      BY <1>1 DEF Flow, G
    <2> QED BY <1>3, <1>16, <1>19, <2>3, <2>4, <2>5, <2>6, <2>7 DEF Flow
  <1>21. HandInv'
    <2>1. Of(down', G) = {}
      <3> SUFFICES ASSUME NEW i \in Of(down', G) PROVE FALSE
        OBVIOUS
      <3>1. i \in Nat \ {0} /\ i + 1 \in Of(down, G)
        BY <1>4
      <3>2. i + 1 = 1
        BY <1>11, <3>1
      <3> QED BY <3>1, <3>2
    <2>2. Of(req', G) = {end}
      BY <1>11, <1>18, <1>19 DEF Of
    <2>3. Hand(G, s, req', down', current, b.next)
      BY <1>11, <1>18, <1>19, <2>1, <2>2 DEF Hand
    <2> QED BY <1>3, <1>16, <2>3 DEF HandInv, s
  <1>22. Data'
    <2>1. Fresh(local', log, b.next)
      BY <1>14, <1>15 DEF Fresh, Alike
    <2>2. ASSUME NEW e \in Entities PROVE local'.ver[e] <= Version(db, e)
      <3> DEFINE V == [y \in Entities |-> Version(db, y)]
      <3>1. \A y \in Entities : V[y] \in Nat /\ local.ver[y] <= V[y]
        BY <1>1, VersionIs DEF Data
      <3>2. \A c \in DOMAIN log : log[c].ver <= V[log[c].id]
        BY <1>1, PartsAbout DEF LogInv
      <3>3. V[e] = Version(db, e)
        OBVIOUS
      <3> HIDE DEF V
      <3>4. \A y \in Entities : ApplyParts(local, log, from, b.next).ver[y] <= V[y]
        BY <1>1, <1>12, <3>1, <3>2, VersionsBound DEF from
      <3> QED BY <1>15, <3>3, <3>4 DEF Alike, x
    <2> QED BY <1>3, <1>15, <1>16, <2>1, <2>2 DEF Data
  <1>23. ReplayExact'
    <2> DEFINE r == ApplyParts(EmptyLocal, log, 0, from)
               z == ApplyParts(EmptyLocal, log, 0, b.next)
    <2>1. from \in 0..Len(log) /\ 0 \in Nat /\ from <= b.next
      BY <1>1, <1>12
    <2>2. r \in Locals /\ Fresh(r, log, from) /\ z \in Locals
      BY <1>1, <1>12, <2>1, AppliesAll, EmptyIsFresh
    <2>3. Alike(local, r)
      BY <1>1, <2>2, AlikeIs DEF ReplayExact, from
    <2>4. ApplyParts(r, log, from, b.next) = z
      BY <1>12, <2>1, ApplyConcat
    <2> HIDE DEF r, z
    <2>5. Alike(x, z)
      BY <1>1, <1>12, <2>2, <2>3, <2>4, StaysAlike DEF x, from
    <2>6. Alike(local', z)
      BY <1>15, <2>5 DEF Alike
    <2>7. WithoutUnread(local') = WithoutUnread(z)
      BY <1>15, <2>2, <2>6, AlikeIs
    <2> QED BY <1>3, <1>16, <2>7 DEF ReplayExact, z
  <1>24. UnreadSettled'
    <2> SUFFICES ASSUME b.next = Len(log), local'.session PROVE local'.unread = db.unread
      BY <1>3, <1>16 DEF UnreadSettled, HeadCursor
    <2>1. ~b.more /\ b.unread = db.unread
      BY <1>7
    <2>2. x.session
      BY <1>15 DEF Alike
    <2>3. Session \notin x.tomb
      BY <1>14, <2>2 DEF Fresh
    <2> QED BY <1>15, <2>1, <2>2, <2>3
  <1> QED BY <1>17, <1>20, <1>21, <1>22, <1>23, <1>24 DEF Inv

-----------------------------------------------------------------------------
(* Theorems                                                                  *)

LEMMA InitInv == Init => Inv
  <1> SUFFICES ASSUME Init PROVE Inv
    OBVIOUS
  <1>1. /\ log = <<>> /\ rows = {} /\ node = [g \in Gens |-> NoState] /\ phase = [g \in Gens |-> "idle"]
        /\ current = 0 /\ up = FALSE /\ req = <<>> /\ down = <<>> /\ local = EmptyLocal /\ errors = 0
        /\ dev \in [gen : {0}, committed : {0}, catching : {FALSE}, compound : Compound]
        /\ db = [msgs |-> [m \in Messages |-> 0], revoked |-> {}, session |-> 0,
                 member |-> 0, unread |-> 0, claimed |-> {}, writes |-> 0]
    BY DEF Init
  <1>2. log \in Seq(Parts) /\ Len(log) = 0 /\ DOMAIN log = {} /\ 0 \in 0..Len(log)
    BY <1>1
  <1>3. db \in Dbs
    BY <1>1 DEF Dbs
  <1>4. 0 <= MaxWrites + MaxBacklog /\ 0 \in 0..MaxResumes /\ 0 \in 0..MaxErrors
    BY StreamAssumption
  <1>5. LogInv
    <2>1. db.writes = 0
      BY <1>1
    <2>2. Ascending(log)
      BY <1>2 DEF Ascending
    <2> QED BY <1>1, <1>2, <1>3, <1>4, <2>1, <2>2 DEF LogInv
  <1>6. GenOk(log, NoState, "idle")
    BY <1>2 DEF GenOk, NoState, Fields
  <1>7. NodeInv
    <2> HIDE DEF NoState
    <2> QED BY <1>1, <1>4, <1>6 DEF NodeInv
  <1>8. dev.gen = 0 /\ dev.committed = 0 /\
        dev \in [gen : 0..MaxResumes, committed : 0..Len(log), catching : BOOLEAN, compound : Compound]
    BY <1>1, <1>2, <1>4
  <1>9. Flow
    <2>1. req \in Seq(Requested) /\ down \in Seq({}) /\ DOMAIN req = {} /\ DOMAIN down = {}
      BY <1>1
    <2>2. current <= dev.gen
      BY <1>1, <1>8
    <2> QED BY <1>8, <2>1, <2>2 DEF Flow
  <1>10. HandInv
    BY <1>8 DEF HandInv
  <1>11. Data
    <2>1. local \in Locals /\ Fresh(local, log, 0)
      BY <1>1, <1>2, EmptyIsFresh
    <2>2. ASSUME NEW e \in Entities PROVE local.ver[e] <= Version(db, e)
      <3>1. local.ver[e] = -1
        BY <1>1 DEF EmptyLocal
      <3>2. Version(db, e) \in Nat
        BY <1>3, VersionIs
      <3> QED BY <3>1, <3>2
    <2> QED BY <1>8, <2>1, <2>2 DEF Data
  <1>12. ReplayExact
    <2>1. ApplyParts(EmptyLocal, log, 0, 0) = EmptyLocal
      BY ApplyNone
    <2> QED BY <1>1, <1>8, <2>1 DEF ReplayExact
  <1>13. UnreadSettled
    <2>1. ~local.session
      BY <1>1 DEF EmptyLocal
    <2> QED BY <2>1 DEF UnreadSettled
  <1> QED BY <1>5, <1>7, <1>9, <1>10, <1>11, <1>12, <1>13 DEF Inv

LEMMA NextInv == Inv /\ [Next]_vars => Inv'
  <1> SUFFICES ASSUME Inv, [Next]_vars PROVE Inv'
    OBVIOUS
  <1>1. CASE Write
    BY <1>1, WriteKeeps
  <1>2. CASE Wake
    BY <1>2, NudgeKeeps DEF Wake
  <1>3. CASE Poll
    BY <1>3, NudgeKeeps DEF Poll
  <1>4. CASE Reconnect
    BY <1>4, ReconnectKeeps
  <1>5. CASE ForegroundResume
    BY <1>5, ForegroundResumeKeeps
  <1>6. CASE Drop
    BY <1>6, DropKeeps
  <1>7. CASE HandleResume
    BY <1>7, HandleResumeKeeps
  <1>8. CASE HandleAck
    BY <1>8, HandleAckKeeps
  <1>9. CASE ApplyBatch
    BY <1>9, ApplyBatchKeeps
  <1>10. CASE Discard
    BY <1>10, DiscardKeeps
  <1>11. ASSUME NEW g \in Gens, Drain(g) PROVE Inv'
    <2>1. CASE LoadHead(g)
      BY <2>1, LoadHeadKeeps
    <2>2. CASE LoadRows(g)
      BY <2>2, LoadRowsKeeps
    <2>3. CASE SendBatch(g)
      BY <2>3, SendBatchKeeps
    <2> QED BY <1>11, <2>1, <2>2, <2>3 DEF Drain
  <1>12. CASE UNCHANGED vars
    <2>1. LogInv /\ NodeInv /\ Flow /\ HandInv /\ Data /\ ReplayExact /\ UnreadSettled
      BY DEF Inv
    <2>2. UNCHANGED <<log, rows, db, node, phase, current, up, req, down, dev, local, errors>>
      BY <1>12 DEF vars
    <2>3. NodeInv'
      BY <2>1, <2>2 DEF NodeInv
    <2>4. HandInv'
      BY <2>1, <2>2 DEF HandInv
    <2> QED BY <2>1, <2>2, <2>3, <2>4, LogSame, FlowSame, DataSame DEF Inv
  <1> QED BY <1>1, <1>2, <1>3, <1>4, <1>5, <1>6, <1>7, <1>8, <1>9, <1>10, <1>11, <1>12 DEF Next

LEMMA Invariant == Spec => []Inv
  BY InitInv, NextInv, PTL DEF Spec

LEMMA TypesHold == Inv => TypeOK
  <1> SUFFICES ASSUME Inv PROVE TypeOK
    OBVIOUS
  <1>1. /\ LogInv /\ NodeInv /\ Flow /\ Data /\ log \in Seq(Parts) /\ Len(log) \in Nat
        /\ db \in Dbs /\ DOMAIN log = 1..Len(log)
    BY DEF Inv, LogInv
  <1>2. Len(log) <= 3 * (MaxWrites + MaxBacklog)
    <2> DEFINE w == db.writes
               m == MaxWrites + MaxBacklog
               n == Len(log)
    <2>1. w \in Nat /\ m \in Nat /\ n \in Nat /\ w <= m /\ n <= 3 * w
      BY <1>1, StreamAssumption DEF LogInv, Dbs
    <2> HIDE DEF w, m, n
    <2>2. n <= 3 * m
      BY <2>1
    <2> QED BY <2>2 DEF m, n
  <1>3. 0..Len(log) \subseteq Cursors /\ Len(log) \in Cursors
    BY <1>1, <1>2, StreamAssumption DEF Cursors
  <1>4. ASSUME NEW g \in Gens
        PROVE  /\ {node[g].cursor, node[g].to, node[g].head} \subseteq Cursors
               /\ {node[g].pending, node[g].dirty, node[g].compound} \subseteq BOOLEAN
               /\ \A e \in DOMAIN node[g].events :
                    e \in Cursors /\ \A c \in DOMAIN node[g].events[e].parts :
                      c \in Cursors /\ node[g].events[e].parts[c] \in Parts
    <2> DEFINE s == node[g]
    <2>1. GenOk(log, s, phase[g])
      BY <1>1 DEF NodeInv
    <2> HIDE DEF s
    <2>2. {s.cursor, s.to, s.head} \subseteq Cursors
      BY <1>3, <2>1 DEF GenOk
    <2>3. {s.pending, s.dirty, s.compound} \subseteq BOOLEAN
      BY <2>1 DEF GenOk
    <2>4. ASSUME NEW e \in DOMAIN s.events
          PROVE  e \in Cursors /\ \A c \in DOMAIN s.events[e].parts :
                                    c \in Cursors /\ s.events[e].parts[c] \in Parts
      <3>1. phase[g] = "send"
        <4> SUFFICES ASSUME phase[g] # "send" PROVE FALSE
          OBVIOUS
        <4>1. s.events = <<>>
          BY <2>1 DEF GenOk
        <4>2. DOMAIN <<>> = {}
          OBVIOUS
        <4> QED BY <2>4, <4>1, <4>2
      <3>2. IsPage(log, s.events, s.cursor, s.to)
        BY <2>1, <3>1 DEF GenOk
      <3>3. PICK kept : Keeps(log, s.cursor, s.to, kept) /\ Page(log, s.events, s.cursor, s.to, kept)
        BY <3>2 DEF IsPage
      <3>4. s.cursor + 1..s.to \subseteq 1..Len(log)
        BY <1>1, <3>2 DEF IsPage
      <3>5. kept \subseteq 1..Len(log) /\ 1..Len(log) \subseteq Cursors
        <4>1. kept \subseteq s.cursor + 1..s.to
          BY <3>3 DEF Keeps
        <4>2. 1..Len(log) \subseteq 0..Len(log)
          BY <1>1
        <4> QED BY <1>3, <3>4, <4>1, <4>2
      <3>6. e \in s.cursor + 1..s.to /\ \A c \in DOMAIN s.events[e].parts :
              c \in kept /\ s.events[e].parts[c] = log[c]
        BY <2>4, <3>3 DEF Page
      <3>7. \A c \in 1..Len(log) : log[c] \in Parts
        BY <1>1
      <3> QED BY <3>4, <3>5, <3>6, <3>7
    <2> QED BY <2>2, <2>3, <2>4 DEF s
  <1>5. dev \in [gen : 0..MaxResumes, committed : Cursors, catching : BOOLEAN, compound : Compound]
    <2>1. dev \in [gen : 0..MaxResumes, committed : 0..Len(log), catching : BOOLEAN, compound : Compound]
      BY <1>1 DEF Flow
    <2> QED BY <1>3, <2>1
  <1>6. rows \subseteq DOMAIN log /\ local \in Locals
    BY <1>1 DEF LogInv, Data
  <1>7. /\ phase \in [Gens -> {"idle", "head", "rows", "send"}]
        /\ current \in 0..MaxResumes /\ up \in BOOLEAN /\ errors \in 0..MaxErrors
    BY <1>1 DEF NodeInv
  <1> QED BY <1>1, <1>3, <1>4, <1>5, <1>6, <1>7 DEF TypeOK, Dbs

\* Every variable keeps its type; no cursor passes the number of parts that were written.
THEOREM TypeCorrect == Spec => []TypeOK
  BY Invariant, TypesHold, PTL

\* What the node sends, the device can apply: no batch of its generation is skipped by a
\* version barrier, starts elsewhere or leaves a cursor out (applyBatch).
THEOREM BatchesAlwaysApply == Spec => []BatchesApply
  <1>1. Inv => BatchesApply
    <2> SUFFICES ASSUME Inv, NEW i \in DOMAIN down, down[i].gen = dev.gen
                 PROVE  /\ down[i].from = dev.committed
                        /\ Contiguous(down[i].events, down[i].from, down[i].next)
                        /\ Acceptable(local, PartsOf(down[i].events), down[i].from, down[i].next)
      BY DEF BatchesApply
    <2>1. /\ LogInv /\ Flow /\ HandInv /\ log \in Seq(Parts) /\ Ascending(log)
          /\ local \in Locals /\ Fresh(local, log, dev.committed)
      BY DEF Inv, LogInv, Data
    <2> DEFINE b == down[i]
    <2>2. BatchOk(log, db, b)
      BY <2>1 DEF Flow
    <2>3. b.gen \in Gens /\ IsPage(log, b.events, b.from, b.next)
      <3> HIDE DEF b
      <3> QED BY <2>2 DEF BatchOk
    <2>4. dev.gen # 0
      BY <2>3, StreamAssumption DEF Gens
    <2>5. Hand(dev.gen, node[dev.gen], req, down, current, dev.committed) /\ i \in Of(down, dev.gen)
      BY <2>1, <2>4 DEF HandInv, Of
    <2>6. b.from = dev.committed
      BY <2>5 DEF Hand
    <2> HIDE DEF b
    <2>7. Contiguous(b.events, b.from, b.next) /\ Acceptable(local, PartsOf(b.events), b.from, b.next)
      BY <2>1, <2>3, <2>6, PageMeans
    <2> QED BY <2>6, <2>7 DEF b
  <1> QED BY <1>1, Invariant, PTL

\* Whatever is lost, repeated, folded or split: the device has what a replay of every row
\* up to its cursor gives.
THEOREM ReplayIsExact == Spec => []ReplayExact
  <1>1. Inv => ReplayExact
    BY DEF Inv
  <1> QED BY <1>1, Invariant, PTL

\* Folding and splitting a page change nothing of what applying it does (fold.Page).
THEOREM PagesMeanTheirRows == Spec => []PagesKeepMeaning
  <1>1. Inv => PagesKeepMeaning
    <2> SUFFICES ASSUME Inv, NEW g \in Gens, phase[g] = "send", node[g].cursor = dev.committed
                 PROVE  ApplyParts(local, PartsOf(node[g].events), node[g].cursor, node[g].to)
                          = ApplyParts(local, log, node[g].cursor, node[g].to)
      BY DEF PagesKeepMeaning
    <2>1. /\ NodeInv /\ log \in Seq(Parts) /\ Ascending(log)
          /\ local \in Locals /\ Fresh(local, log, dev.committed)
      BY DEF Inv, LogInv, Data
    <2> DEFINE s == node[g]
    <2>2. GenOk(log, s, phase[g])
      BY <2>1 DEF NodeInv
    <2> HIDE DEF s
    <2>3. IsPage(log, s.events, s.cursor, s.to)
      BY <2>2 DEF GenOk
    <2>4. s.cursor = dev.committed
      BY DEF s
    <2>5. ApplyParts(local, PartsOf(s.events), s.cursor, s.to) = ApplyParts(local, log, s.cursor, s.to)
      BY <2>1, <2>3, <2>4, PageMeans
    <2> QED BY <2>5 DEF s
  <1> QED BY <1>1, Invariant, PTL

\* At the head the device shows the unread count of the server.
THEOREM UnreadIsSettled == Spec => []UnreadSettled
  <1>1. Inv => UnreadSettled
    BY DEF Inv
  <1> QED BY <1>1, Invariant, PTL

====
