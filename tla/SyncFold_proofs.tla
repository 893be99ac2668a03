------------------------------ MODULE SyncFold_proofs ------------------------------
(***************************************************************************)
(* Proofs about SyncFold, for logs and pages of any length: what applying  *)
(* parts in the order of their cursors comes to, where pages end, what     *)
(* their events hold, and that a folded page means what its rows mean.     *)
(***************************************************************************)
EXTENDS SyncFold, WellFoundedInduction, TLAPS

USE FoldAssumption

-----------------------------------------------------------------------------
(* Induction, largest and least elements                                     *)

\* The natural numbers are reached one by one.
LEMMA OneByOne ==
  ASSUME NEW S, 0 \in S, \A n \in Nat : n \in S => n + 1 \in S
  PROVE  Nat \subseteq S
  <1> DEFINE Less == {p \in Nat \X Nat : p[1] < p[2]}
             Others == Nat \ S
  <1> SUFFICES ASSUME Others # {} PROVE FALSE
    OBVIOUS
  <1>1. IsWellFoundedOn(Less, Nat)
    BY NatLessThanWellFounded DEF OpToRel
  <1>2. Others \subseteq Nat
    OBVIOUS
  <1> HIDE DEF Less
  <1>3. PICK n \in Others : \A m \in Others : <<m, n>> \notin Less
    BY <1>1, <1>2, WFMin
  <1>4. n \in Nat /\ n # 0 /\ n - 1 \in Nat
    OBVIOUS
  <1>5. <<n - 1, n>> \in Less
    BY <1>4 DEF Less
  <1>6. n - 1 \in S /\ (n - 1) + 1 = n
    BY <1>3, <1>4, <1>5
  <1> QED BY <1>4, <1>6

\* So are the cursors from one to another.
LEMMA CursorByCursor ==
  ASSUME NEW from \in Nat, NEW to \in Nat, NEW S, from \in S,
         \A c \in from + 1..to : c - 1 \in S => c \in S
  PROVE  \A c \in from..to : c \in S
  <1> DEFINE Good == {i \in Nat : from + i <= to => from + i \in S}
  <1>1. 0 \in Good
    BY from + 0 = from
  <1>2. ASSUME NEW i \in Nat, i \in Good PROVE i + 1 \in Good
    <2> SUFFICES ASSUME from + (i + 1) <= to PROVE from + (i + 1) \in S
      OBVIOUS
    <2> DEFINE c == from + (i + 1)
    <2>1. c \in from + 1..to /\ c - 1 = from + i /\ from + i <= to
      OBVIOUS
    <2> HIDE DEF c
    <2>2. c \in S
      BY <1>2, <2>1
    <2> QED BY <2>2 DEF c
  <1> HIDE DEF Good
  <1> SUFFICES ASSUME NEW c \in from..to PROVE c \in S
    OBVIOUS
  <1>3. c - from \in Good
    BY <1>1, <1>2, c - from \in Nat, OneByOne
  <1>4. from + (c - from) = c
    OBVIOUS
  <1> QED BY <1>3, <1>4 DEF Good

\* A bounded set that is not empty has a largest element.
LEMMA Largest ==
  ASSUME NEW n \in Nat, NEW S \in SUBSET (0..n), S # {}
  PROVE  Max(S) \in S /\ \A x \in S : x <= Max(S)
  <1> DEFINE Has(T) == \E x \in T : \A y \in T : x >= y
             Good == {k \in Nat : \A T \in SUBSET (0..k) : T # {} => Has(T)}
  <1>1. 0 \in Good
    <2> SUFFICES ASSUME NEW T \in SUBSET (0..0), T # {} PROVE Has(T)
      OBVIOUS
    <2>1. \A x \in T : x = 0
      OBVIOUS
    <2>2. PICK x \in T : TRUE
      OBVIOUS
    <2>3. \A y \in T : x >= y
      BY <2>1
    <2> QED BY <2>3
  <1>2. ASSUME NEW k \in Nat, k \in Good PROVE k + 1 \in Good
    <2> SUFFICES ASSUME NEW T \in SUBSET (0..k + 1), T # {} PROVE Has(T)
      OBVIOUS
    <2>1. CASE k + 1 \in T
      BY <2>1
    <2>2. CASE k + 1 \notin T
      <3>1. T \in SUBSET (0..k)
        BY <2>2
      <3> QED BY <3>1, <1>2
    <2> QED BY <2>1, <2>2
  <1> HIDE DEF Good
  <1>3. n \in Good
    BY <1>1, <1>2, OneByOne
  <1>4. Has(S)
    BY <1>3 DEF Good
  <1> QED BY <1>4 DEF Max

\* A set of natural numbers that is not empty has a least element.
LEMMA Least ==
  ASSUME NEW S \in SUBSET Nat, S # {}
  PROVE  Min(S) \in S /\ \A x \in S : Min(S) <= x
  <1> DEFINE Less == {p \in Nat \X Nat : p[1] < p[2]}
  <1>1. IsWellFoundedOn(Less, Nat)
    BY NatLessThanWellFounded DEF OpToRel
  <1> HIDE DEF Less
  <1>2. PICK x \in S : \A y \in S : <<y, x>> \notin Less
    BY <1>1, WFMin
  <1>3. ASSUME NEW y \in S PROVE x <= y
    <2>1. x \in Nat /\ y \in Nat /\ <<y, x>> \notin Less
      BY <1>2
    <2>2. ~(y < x)
      BY <2>1 DEF Less
    <2> QED BY <2>1, <2>2
  <1> QED BY <1>3 DEF Min

-----------------------------------------------------------------------------
(* Applying parts in the order of their cursors                              *)

IsRun(after, local, parts, from, to) ==
  after = [c \in from..to |->
             IF c = from THEN local
             ELSE IF c \in DOMAIN parts THEN ApplyPart(after[c - 1], parts[c])
             ELSE after[c - 1]]

\* The function that ApplyParts defines by recursion exists.
LEMMA RunExists ==
  ASSUME NEW local, NEW parts, NEW from \in Nat, NEW n \in Nat
  PROVE  \E f : IsRun(f, local, parts, from, from + n)
  <1> DEFINE Good == {k \in Nat : \E f : IsRun(f, local, parts, from, from + k)}
  <1>1. 0 \in Good
    <2>1. IsRun([c \in from..from + 0 |-> local], local, parts, from, from + 0)
      BY DEF IsRun
    <2> QED BY <2>1
  <1>2. \A k \in Nat : k \in Good => k + 1 \in Good
    <2> SUFFICES ASSUME NEW k \in Nat, NEW f, IsRun(f, local, parts, from, from + k)
                 PROVE  \E h : IsRun(h, local, parts, from, from + (k + 1))
      OBVIOUS
    <2> DEFINE end == from + k + 1
               x == IF end \in DOMAIN parts THEN ApplyPart(f[end - 1], parts[end]) ELSE f[end - 1]
               h == [c \in from..from + (k + 1) |-> IF c = end THEN x ELSE f[c]]
    <2> HIDE DEF x
    <2>1. f = [c \in from..from + k |->
                 IF c = from THEN local
                 ELSE IF c \in DOMAIN parts THEN ApplyPart(f[c - 1], parts[c])
                 ELSE f[c - 1]]
      BY DEF IsRun
    <2>2. \A d \in from..from + k : h[d] = f[d]
      OBVIOUS
    <2> HIDE DEF h
    <2>3. ASSUME NEW c \in from..from + k, c # from PROVE h[c - 1] = f[c - 1]
      <3>1. c - 1 \in from..from + k
        BY <2>3
      <3> QED BY <2>2, <3>1
    <2>4. h[end - 1] = f[end - 1]
      BY <2>2
    <2> USE DEF h
    <2>5. ASSUME NEW c \in from..from + (k + 1)
          PROVE  h[c] = IF c = from THEN local
                        ELSE IF c \in DOMAIN parts THEN ApplyPart(h[c - 1], parts[c])
                        ELSE h[c - 1]
      <3>1. CASE c = end
        BY <3>1, <2>4 DEF x
      <3>2. CASE c \in from..from + k
        <4>1. h[c] = f[c]
          BY <3>2
        <4>2. f[c] = IF c = from THEN local
                     ELSE IF c \in DOMAIN parts THEN ApplyPart(f[c - 1], parts[c])
                     ELSE f[c - 1]
          BY <2>1, <3>2
        <4> HIDE DEF h
        <4> QED BY <4>1, <4>2, <2>3, <3>2
      <3> QED BY <3>1, <3>2
    <2>6. IsRun(h, local, parts, from, from + (k + 1))
      BY <2>5 DEF IsRun
    <2> QED BY <2>6
  <1> HIDE DEF Good
  <1>3. n \in Good
    BY <1>1, <1>2, OneByOne
  <1> QED BY <1>3 DEF Good

\* Runs over longer and shorter spans agree.
LEMMA RunsAgree ==
  ASSUME NEW local, NEW parts, NEW from \in Nat, NEW x \in Nat, NEW y \in Nat,
         NEW f, IsRun(f, local, parts, from, x),
         NEW h, IsRun(h, local, parts, from, y),
         NEW c \in from..x, c <= y
  PROVE  f[c] = h[c]
  <1> DEFINE Good == {i \in Nat : from + i <= x /\ from + i <= y => f[from + i] = h[from + i]}
  <1>1. \A d \in from..x : f[d] = IF d = from THEN local
                     ELSE IF d \in DOMAIN parts THEN ApplyPart(f[d - 1], parts[d])
                     ELSE f[d - 1]
    BY DEF IsRun
  <1>2. \A d \in from..y : h[d] = IF d = from THEN local
                     ELSE IF d \in DOMAIN parts THEN ApplyPart(h[d - 1], parts[d])
                     ELSE h[d - 1]
    BY DEF IsRun
  <1>3. 0 \in Good
    <2>1. from + 0 = from
      OBVIOUS
    <2>2. from <= x /\ from <= y => from \in from..x /\ from \in from..y
      OBVIOUS
    <2> QED BY <1>1, <1>2, <2>1, <2>2
  <1>4. ASSUME NEW i \in Nat, i \in Good PROVE i + 1 \in Good
    <2> SUFFICES ASSUME from + (i + 1) <= x, from + (i + 1) <= y
                 PROVE  f[from + (i + 1)] = h[from + (i + 1)]
      OBVIOUS
    <2>1. f[from + i] = h[from + i]
      BY <1>4
    <2> DEFINE d == from + (i + 1)
    <2>2. d \in from..x /\ d \in from..y /\ d # from /\ d - 1 = from + i
      OBVIOUS
    <2> HIDE DEF d
    <2>3. f[d] = h[d]
      BY <1>1, <1>2, <2>1, <2>2
    <2> QED BY <2>3 DEF d
  <1> HIDE DEF Good
  <1>5. c - from \in Nat /\ from + (c - from) = c
    OBVIOUS
  <1>6. c - from \in Good
    BY <1>3, <1>4, <1>5, OneByOne
  <1>7. from + (c - from) <= x /\ from + (c - from) <= y => f[from + (c - from)] = h[from + (c - from)]
    BY <1>6 DEF Good
  <1>8. c <= x /\ c <= y
    OBVIOUS
  <1> QED BY <1>5, <1>7, <1>8

\* No parts change nothing.
LEMMA ApplyNone ==
  ASSUME NEW local, NEW parts, NEW from \in Nat
  PROVE  ApplyParts(local, parts, from, from) = local
  <1> DEFINE f == CHOOSE g : IsRun(g, local, parts, from, from)
  <1>1. IsRun(f, local, parts, from, from)
    <2>1. from + 0 = from
      OBVIOUS
    <2>2. \E g : IsRun(g, local, parts, from, from)
      BY RunExists, <2>1, 0 \in Nat
    <2> QED BY <2>2
  <1>2. ApplyParts(local, parts, from, from) = f[from]
    BY DEF ApplyParts, IsRun
  <1> HIDE DEF f
  <1>3. from \in from..from
    OBVIOUS
  <1>4. f[from] = local
    BY <1>1, <1>3 DEF IsRun
  <1> QED BY <1>2, <1>4

\* The last cursor comes last.
LEMMA ApplyLast ==
  ASSUME NEW local, NEW parts, NEW from \in Nat, NEW to \in Nat, from < to
  PROVE  ApplyParts(local, parts, from, to)
           = IF to \in DOMAIN parts
             THEN ApplyPart(ApplyParts(local, parts, from, to - 1), parts[to])
             ELSE ApplyParts(local, parts, from, to - 1)
  <1> DEFINE f == CHOOSE g : IsRun(g, local, parts, from, to)
             h == CHOOSE g : IsRun(g, local, parts, from, to - 1)
             n == to - from
  <1>1. n \in Nat /\ from + n = to /\ n - 1 \in Nat /\ from + (n - 1) = to - 1 /\ n - 1 <= n
    OBVIOUS
  <1> HIDE DEF n
  <1>2. IsRun(f, local, parts, from, to)
    <2>1. \E g : IsRun(g, local, parts, from, to)
      BY RunExists, <1>1
    <2> QED BY <2>1
  <1>3. IsRun(h, local, parts, from, to - 1)
    <2>1. \E g : IsRun(g, local, parts, from, to - 1)
      BY RunExists, <1>1
    <2> QED BY <2>1
  <1>4. ApplyParts(local, parts, from, to) = f[to]
    BY DEF ApplyParts, IsRun
  <1>5. ApplyParts(local, parts, from, to - 1) = h[to - 1]
    BY DEF ApplyParts, IsRun
  <1> HIDE DEF f, h
  <1>6. f[to - 1] = h[to - 1]
    <2>1. to - 1 \in Nat /\ to - 1 \in from..to /\ to - 1 <= to - 1
      OBVIOUS
    <2> QED BY <1>2, <1>3, <2>1, RunsAgree
  <1>7. f[to] = IF to \in DOMAIN parts THEN ApplyPart(f[to - 1], parts[to]) ELSE f[to - 1]
    <2>1. to \in from..to /\ to # from
      OBVIOUS
    <2> QED BY <1>2, <2>1 DEF IsRun
  <1> QED BY <1>4, <1>5, <1>6, <1>7

\* Applying can be interrupted.
LEMMA ApplyConcat ==
  ASSUME NEW local, NEW parts, NEW from \in Nat, NEW mid \in Nat, NEW to \in Nat,
         from <= mid, mid <= to
  PROVE  ApplyParts(ApplyParts(local, parts, from, mid), parts, mid, to)
           = ApplyParts(local, parts, from, to)
  <1> DEFINE half == ApplyParts(local, parts, from, mid)
             Good == {c \in Nat : ApplyParts(half, parts, mid, c) = ApplyParts(local, parts, from, c)}
  <1>1. mid \in Good
    BY ApplyNone
  <1>2. ASSUME NEW c \in mid + 1..to, c - 1 \in Good PROVE c \in Good
    <2>1. c \in Nat /\ mid < c /\ from < c
      OBVIOUS
    <2> HIDE DEF half
    <2>2. ApplyParts(half, parts, mid, c - 1) = ApplyParts(local, parts, from, c - 1)
      BY <1>2
    <2>3. ApplyParts(half, parts, mid, c) = ApplyParts(local, parts, from, c)
      BY <2>1, <2>2, ApplyLast
    <2> QED BY <2>1, <2>3
  <1> HIDE DEF Good
  <1>3. to \in Good
    BY <1>1, <1>2, CursorByCursor
  <1> QED BY <1>3 DEF Good

\* Only the parts between the cursors count.
LEMMA ApplySame ==
  ASSUME NEW local, NEW p, NEW q, NEW from \in Nat, NEW to \in Nat, from <= to,
         \A c \in from + 1..to : /\ c \in DOMAIN p <=> c \in DOMAIN q
                                 /\ c \in DOMAIN p => p[c] = q[c]
  PROVE  ApplyParts(local, p, from, to) = ApplyParts(local, q, from, to)
  <1> DEFINE Good == {c \in Nat : ApplyParts(local, p, from, c) = ApplyParts(local, q, from, c)}
  <1>1. from \in Good
    BY ApplyNone
  <1>2. ASSUME NEW c \in from + 1..to, c - 1 \in Good PROVE c \in Good
    <2>1. c \in Nat /\ from < c
      OBVIOUS
    <2>2. ApplyParts(local, p, from, c - 1) = ApplyParts(local, q, from, c - 1)
      BY <1>2
    <2>3. (c \in DOMAIN p <=> c \in DOMAIN q) /\ (c \in DOMAIN p => p[c] = q[c])
      OBVIOUS
    <2>4. ApplyParts(local, p, from, c) = IF c \in DOMAIN p
             THEN ApplyPart(ApplyParts(local, p, from, c - 1), p[c]) ELSE ApplyParts(local, p, from, c - 1)
      BY <2>1, ApplyLast
    <2>5. ApplyParts(local, q, from, c) = IF c \in DOMAIN q
             THEN ApplyPart(ApplyParts(local, q, from, c - 1), q[c]) ELSE ApplyParts(local, q, from, c - 1)
      BY <2>1, ApplyLast
    <2>6. ApplyParts(local, p, from, c) = ApplyParts(local, q, from, c)
      BY <2>2, <2>3, <2>4, <2>5
    <2> QED BY <2>1, <2>6
  <1> HIDE DEF Good
  <1>3. \A c \in from..to : c \in Good
    BY <1>1, <1>2, CursorByCursor
  <1>4. to \in Good
    BY <1>3
  <1> QED BY <1>4 DEF Good

-----------------------------------------------------------------------------
(* One part                                                                  *)

\* A part is about its entity.
LEMMA PartsAbout ==
  ASSUME NEW p \in Parts
  PROVE  /\ EntityOf(p) = p.id /\ p.id \in Entities
         /\ p.id \in Messages <=> p.kind \in {"message", "revoke"}
         /\ p.id = Session <=> p.kind \in {"session", "remove"}
         /\ p.id = Member <=> p.kind \in {"unread", "read"}
         /\ p.kind \in Kinds /\ p.ver \in Nat /\ p.val \in Nat
         /\ p.cmd \in Commands \cup {NoCmd}
  BY DEF Parts, EntityOf, Subjects, Entities, Session, Member, Kinds

\* What a part that is not behind its barrier does to the projection.
LEMMA OnePart ==
  ASSUME NEW l \in Locals, NEW p \in Parts, ~Stale(l, p)
  PROVE  LET x == ApplyPart(l, p) IN
         /\ x \in Locals
         /\ x.ver = [l.ver EXCEPT ![p.id] = p.ver]
         /\ x.tomb = IF Tombstone(p) THEN l.tomb \cup {p.id} ELSE l.tomb \ {p.id}
         /\ x.acked = IF p.cmd = NoCmd THEN l.acked ELSE l.acked \cup {p.cmd}
         /\ x.msgs = IF p.kind = "message" THEN l.msgs \cup {p.id}
                     ELSE IF p.kind = "revoke" THEN l.msgs \ {p.id}
                     ELSE IF p.kind = "remove" THEN {} ELSE l.msgs
         /\ x.session = IF p.kind = "session" THEN TRUE
                        ELSE IF p.kind = "remove" THEN FALSE ELSE l.session
         /\ x.unread = IF p.kind = "remove" THEN 0
                       ELSE IF p.kind \in {"unread", "read"} /\ l.session /\ Session \notin l.tomb
                       THEN p.val ELSE l.unread
  <1> DEFINE e == EntityOf(p)
             eff == Effect(l, p)
             done == [eff EXCEPT !.ver[e] = p.ver,
                      !.tomb = IF Tombstone(p) THEN @ \cup {e} ELSE @ \ {e}]
             x == ApplyPart(l, p)
  <1>1. x = [done EXCEPT !.acked = IF p.cmd = NoCmd THEN @ ELSE @ \cup {p.cmd}]
    BY DEF ApplyPart
  <1>2. e = p.id /\ e \in Entities /\ p.kind \in Kinds /\ p.val \in Nat /\ p.ver \in Nat
        /\ p.cmd \in Commands \cup {NoCmd} /\ (p.kind \in {"message", "revoke"} => e \in Messages)
    BY PartsAbout
  <1> HIDE DEF e
  <1>3. /\ eff \in Locals /\ eff.ver = l.ver /\ eff.tomb = l.tomb /\ eff.acked = l.acked
        /\ eff.msgs = IF p.kind = "message" THEN l.msgs \cup {p.id}
                      ELSE IF p.kind = "revoke" THEN l.msgs \ {p.id}
                      ELSE IF p.kind = "remove" THEN {} ELSE l.msgs
        /\ eff.session = IF p.kind = "session" THEN TRUE
                         ELSE IF p.kind = "remove" THEN FALSE ELSE l.session
        /\ eff.unread = IF p.kind = "remove" THEN 0
                        ELSE IF p.kind \in {"unread", "read"} /\ l.session /\ Session \notin l.tomb
                        THEN p.val ELSE l.unread
    BY <1>2 DEF Effect, Locals, Kinds
  <1> HIDE DEF eff
  <1>4. /\ done \in Locals /\ done.ver = [l.ver EXCEPT ![p.id] = p.ver]
        /\ done.tomb = IF Tombstone(p) THEN l.tomb \cup {p.id} ELSE l.tomb \ {p.id}
        /\ done.acked = eff.acked /\ done.msgs = eff.msgs /\ done.session = eff.session
        /\ done.unread = eff.unread
    BY <1>2, <1>3 DEF Locals
  <1> HIDE DEF done
  <1>5. /\ x \in Locals /\ x.ver = done.ver /\ x.tomb = done.tomb
        /\ x.acked = IF p.cmd = NoCmd THEN done.acked ELSE done.acked \cup {p.cmd}
        /\ x.msgs = done.msgs /\ x.session = done.session /\ x.unread = done.unread
    BY <1>1, <1>2, <1>4 DEF Locals
  <1> HIDE DEF x
  <1>6. x.acked = IF p.cmd = NoCmd THEN l.acked ELSE l.acked \cup {p.cmd}
    BY <1>3, <1>4, <1>5
  <1>7. x.msgs = IF p.kind = "message" THEN l.msgs \cup {p.id}
                     ELSE IF p.kind = "revoke" THEN l.msgs \ {p.id}
                     ELSE IF p.kind = "remove" THEN {} ELSE l.msgs
    BY <1>3, <1>4, <1>5
  <1>8. x.session = IF p.kind = "session" THEN TRUE
                        ELSE IF p.kind = "remove" THEN FALSE ELSE l.session
    BY <1>3, <1>4, <1>5
  <1>9. x.unread = IF p.kind = "remove" THEN 0
                       ELSE IF p.kind \in {"unread", "read"} /\ l.session /\ Session \notin l.tomb
                       THEN p.val ELSE l.unread
    BY <1>3, <1>4, <1>5
  <1>10. x.ver = [l.ver EXCEPT ![p.id] = p.ver]
        /\ x.tomb = IF Tombstone(p) THEN l.tomb \cup {p.id} ELSE l.tomb \ {p.id}
    BY <1>4, <1>5
  <1> QED BY <1>5, <1>6, <1>7, <1>8, <1>9, <1>10 DEF x

\* One that is behind it is acknowledged only.
LEMMA OneStale ==
  ASSUME NEW l \in Locals, NEW p \in Parts, Stale(l, p)
  PROVE  ApplyPart(l, p) \in Locals
  BY PartsAbout DEF ApplyPart, Locals

-----------------------------------------------------------------------------
(* Parts of a log, in order, are never behind a barrier                      *)

\* Only the member's state may come again with the version it has.
Ahead(p, ver) == IF p.id = Member THEN ver <= p.ver ELSE ver < p.ver

\* The projection is behind all of the log after a cursor.
Fresh(l, log, from) ==
  /\ \A c \in DOMAIN log : c > from => Ahead(log[c], l.ver[log[c].id])
  /\ Member \notin l.tomb
  /\ l.session => Session \notin l.tomb

\* The versions of an entity ascend along a log.
Ascending(log) ==
  \A c, d \in DOMAIN log : c < d /\ log[c].id = log[d].id => Ahead(log[d], log[c].ver)

\* The next part is applied, and leaves the projection behind the rest.
LEMMA NextApplies ==
  ASSUME NEW log \in Seq(Parts), Ascending(log), NEW l \in Locals,
         NEW c \in DOMAIN log, Fresh(l, log, c - 1)
  PROVE  /\ ~Stale(l, log[c])
         /\ ApplyPart(l, log[c]) \in Locals
         /\ Fresh(ApplyPart(l, log[c]), log, c)
  <1> DEFINE p == log[c]
             x == ApplyPart(l, p)
  <1>1. c \in Nat /\ p \in Parts /\ DOMAIN log = 1..Len(log)
    OBVIOUS
  <1>2. Ahead(p, l.ver[p.id])
    BY <1>1 DEF Fresh
  <1> HIDE DEF p
  <1>3. p.id \in Entities /\ EntityOf(p) = p.id /\ p.ver \in Nat
        /\ (p.id = Member <=> p.kind \in {"unread", "read"})
        /\ (p.id = Session <=> p.kind \in {"session", "remove"})
    BY <1>1, PartsAbout
  <1>4. l.ver[p.id] \in Nat \cup {-1}
    BY <1>3 DEF Locals
  <1>5. ~Stale(l, p)
    BY <1>2, <1>3, <1>4 DEF Stale, Ahead, Fresh
  <1>6. /\ x \in Locals
        /\ x.ver = [l.ver EXCEPT ![p.id] = p.ver]
        /\ x.tomb = IF Tombstone(p) THEN l.tomb \cup {p.id} ELSE l.tomb \ {p.id}
        /\ x.session = IF p.kind = "session" THEN TRUE
                       ELSE IF p.kind = "remove" THEN FALSE ELSE l.session
    BY <1>1, <1>5, OnePart
  <1> HIDE DEF x
  <1>7. ASSUME NEW d \in DOMAIN log, d > c PROVE Ahead(log[d], x.ver[log[d].id])
    <2>1. log[d].id \in Entities
      BY <1>1, PartsAbout
    <2>2. CASE log[d].id = p.id
      <3>1. Ahead(log[d], p.ver)
        BY <1>1, <1>7, <2>2 DEF Ascending, p
      <3> QED BY <3>1, <2>2, <1>6, <1>3 DEF Locals
    <2>3. CASE log[d].id # p.id
      <3>1. d > c - 1
        BY <1>1, <1>7
      <3>2. Ahead(log[d], l.ver[log[d].id])
        BY <3>1 DEF Fresh
      <3> QED BY <3>2, <2>1, <2>3, <1>6 DEF Locals
    <2> QED BY <2>2, <2>3
  <1>8. Member \notin x.tomb
    BY <1>3, <1>6 DEF Fresh, Tombstone
  <1>9. x.session => Session \notin x.tomb
    BY <1>3, <1>6 DEF Fresh, Tombstone
  <1> QED BY <1>5, <1>6, <1>7, <1>8, <1>9 DEF Fresh, x, p

\* Some parts of a log.
Some(log, kept) == [c \in kept |-> log[c]]

\* Applying some parts of a log in order: the projection stays behind what follows, and
\* no part is behind its barrier.
LEMMA Applies ==
  ASSUME NEW log \in Seq(Parts), Ascending(log), NEW l \in Locals,
         NEW from \in Nat, NEW to \in from..Len(log), Fresh(l, log, from),
         NEW kept \in SUBSET (from + 1..to), NEW c \in from..to
  PROVE  LET x == ApplyParts(l, Some(log, kept), from, c)
         IN  x \in Locals /\ Fresh(x, log, c)
  <1> DEFINE parts == Some(log, kept)
             At(k) == ApplyParts(l, parts, from, k)
             Good == {k \in Nat : At(k) \in Locals /\ Fresh(At(k), log, k)}
  <1>1. from \in Good
    BY ApplyNone
  <1>2. DOMAIN log = 1..Len(log) /\ Len(log) \in Nat /\ DOMAIN parts = kept
        /\ \A k \in kept : parts[k] = log[k]
    BY DEF Some
  <1> HIDE DEF parts
  <1>3. ASSUME NEW k \in from + 1..to, k - 1 \in Good PROVE k \in Good
    <2>1. k \in Nat /\ from < k /\ k \in DOMAIN log
      BY <1>2
    <2>2. At(k) = IF k \in kept THEN ApplyPart(At(k - 1), log[k]) ELSE At(k - 1)
      BY <1>2, <2>1, ApplyLast
    <2>3. At(k - 1) \in Locals /\ Fresh(At(k - 1), log, k - 1)
      BY <1>3
    <2> HIDE DEF At
    <2>4. CASE k \in kept
      <3>1. At(k) \in Locals /\ Fresh(At(k), log, k)
        BY <2>1, <2>2, <2>3, <2>4, NextApplies
      <3> QED BY <2>1, <3>1
    <2>5. CASE k \notin kept
      <3>1. At(k) \in Locals /\ Fresh(At(k), log, k)
        BY <1>2, <2>1, <2>2, <2>3, <2>5 DEF Fresh
      <3> QED BY <2>1, <3>1
    <2> QED BY <2>4, <2>5
  <1> HIDE DEF Good
  <1>4. to \in Nat
    OBVIOUS
  <1>5. \A k \in from..to : k \in Good
    BY <1>1, <1>3, <1>4, CursorByCursor
  <1>6. c \in Good
    BY <1>5
  <1> QED BY <1>6 DEF Good, parts

\* None of them is refused.
LEMMA AllAcceptable ==
  ASSUME NEW log \in Seq(Parts), Ascending(log), NEW l \in Locals,
         NEW from \in Nat, NEW to \in from..Len(log), Fresh(l, log, from),
         NEW kept \in SUBSET (from + 1..to)
  PROVE  Acceptable(l, Some(log, kept), from, to)
  <1> DEFINE parts == Some(log, kept)
  <1>1. DOMAIN parts = kept /\ \A k \in kept : parts[k] = log[k]
    BY DEF Some
  <1> SUFFICES ASSUME NEW c \in kept PROVE ~Refused(ApplyParts(l, parts, from, c - 1), log[c])
    BY <1>1 DEF Acceptable
  <1> DEFINE x == ApplyParts(l, parts, from, c - 1)
  <1>2. c - 1 \in from..to /\ c \in DOMAIN log
    OBVIOUS
  <1>3. x \in Locals /\ Fresh(x, log, c - 1)
    BY <1>2, Applies
  <1> HIDE DEF x
  <1>4. ~Stale(x, log[c])
    BY <1>2, <1>3, NextApplies
  <1> QED BY <1>4 DEF Refused, x

-----------------------------------------------------------------------------
(* A folded page                                                             *)

MemberKinds == {"unread", "read"}

\* The session upserts before a cursor and after every removal before it.
Known(log, from, c) ==
  {d \in from + 1..c - 1 : log[d].kind = "session" /\ \A r \in from + 1..c - 1 :
                             log[r].kind = "remove" => r < d}

\* What the parts that folding keeps have in common: the removals are among them, one
\* that is left out is superseded by one of them, which has its receipt, and the unread
\* state of a session comes after an upsert of it if it did in the log.
Keeps(log, from, to, kept) ==
  /\ kept \subseteq from + 1..to
  /\ \A c \in from + 1..to : c \notin kept =>
       /\ log[c].kind # "remove"
       /\ \E d \in kept : d > c /\ Supersedes(log[d], log[c]) /\ log[c].cmd \in {NoCmd, log[d].cmd}
  /\ \A c \in kept : log[c].kind \in MemberKinds /\ Known(log, from, c) # {}
                       => Known(log, from, c) \cap kept # {}

\* All parts of the page keep everything.
LEMMA AllKeeps ==
  ASSUME NEW log, NEW from \in Nat, NEW to \in Nat
  PROVE  Keeps(log, from, to, from + 1..to)
  <1>1. ASSUME NEW c \in from + 1..to PROVE Known(log, from, c) \subseteq from + 1..to
    BY DEF Known
  <1> QED BY <1>1 DEF Keeps

\* Whether the projection has the session.
Has(log, from, kept, had, c) ==
  \/ \E d \in kept : d \in Known(log, from, c + 1)
  \/ had /\ \A r \in from + 1..c : log[r].kind # "remove"

LEMMA HasSession ==
  ASSUME NEW log \in Seq(Parts), Ascending(log), NEW l \in Locals,
         NEW from \in Nat, NEW to \in from..Len(log), Fresh(l, log, from),
         NEW kept, Keeps(log, from, to, kept), NEW c \in from..to
  PROVE  ApplyParts(l, Some(log, kept), from, c).session <=> Has(log, from, kept, l.session, c)
  <1> DEFINE parts == Some(log, kept)
             At(k) == ApplyParts(l, parts, from, k)
             Good == {k \in Nat : At(k).session <=> Has(log, from, kept, l.session, k)}
  <1>1. from \in Good
    <2>1. At(from) = l
      BY ApplyNone
    <2>2. Has(log, from, kept, l.session, from) <=> l.session
      BY DEF Has, Known, Locals
    <2> HIDE DEF At
    <2> QED BY <2>1, <2>2
  <1>2. /\ DOMAIN log = 1..Len(log) /\ Len(log) \in Nat /\ DOMAIN parts = kept
        /\ \A k \in kept : parts[k] = log[k]
        /\ kept \in SUBSET (from + 1..to)
    BY DEF Some, Keeps
  <1>3. \A k \in from..to : At(k) \in Locals /\ Fresh(At(k), log, k)
    BY <1>2, Applies
  <1> HIDE DEF parts
  <1>4. ASSUME NEW k \in from + 1..to, k - 1 \in Good PROVE k \in Good
    <2>1. k \in Nat /\ from < k /\ k \in DOMAIN log /\ k - 1 \in from..to /\ (k - 1) + 1 = k
      BY <1>2
    <2>2. At(k) = IF k \in kept THEN ApplyPart(At(k - 1), log[k]) ELSE At(k - 1)
      BY <1>2, <2>1, ApplyLast
    <2>3. At(k - 1) \in Locals /\ Fresh(At(k - 1), log, k - 1)
      BY <1>3, <2>1
    <2>4. At(k - 1).session <=> Has(log, from, kept, l.session, k - 1)
      BY <1>4
    <2> HIDE DEF At
    <2>5. log[k] \in Parts
      BY <2>1
    <2>6. At(k).session = IF k \in kept /\ log[k].kind = "session" THEN TRUE
                          ELSE IF k \in kept /\ log[k].kind = "remove" THEN FALSE
                          ELSE At(k - 1).session
      <3>1. CASE k \in kept
        <4>1. ~Stale(At(k - 1), log[k])
          BY <2>1, <2>3, NextApplies
        <4>2. At(k - 1) \in Locals
          BY <2>3
        <4>3. ApplyPart(At(k - 1), log[k]).session
                = IF log[k].kind = "session" THEN TRUE
                  ELSE IF log[k].kind = "remove" THEN FALSE ELSE At(k - 1).session
          BY <2>5, <4>1, <4>2, OnePart
        <4>4. At(k) = ApplyPart(At(k - 1), log[k])
          BY <2>2, <3>1
        <4> QED BY <3>1, <4>3, <4>4
      <3>2. CASE k \notin kept
        BY <3>2, <2>2
      <3> QED BY <3>1, <3>2
    <2>7. k \notin kept => log[k].kind # "remove"
      BY DEF Keeps
    <2>8. CASE log[k].kind = "remove"
      <3>1. ~At(k).session
        BY <2>6, <2>7, <2>8
      <3>2. ~Has(log, from, kept, l.session, k)
        BY <2>1, <2>8 DEF Has, Known
      <3> QED BY <2>1, <3>1, <3>2
    <2>9. CASE log[k].kind = "session" /\ k \in kept
      <3>1. At(k).session
        BY <2>6, <2>9
      <3>2. k \in Known(log, from, k + 1)
        BY <2>1, <2>9 DEF Known
      <3>3. Has(log, from, kept, l.session, k)
        BY <2>9, <3>2 DEF Has
      <3> QED BY <2>1, <3>1, <3>3
    <2>10. CASE log[k].kind # "remove" /\ ~(log[k].kind = "session" /\ k \in kept)
      <3>1. At(k).session = At(k - 1).session
        BY <2>6, <2>10
      <3>2. \A d \in kept : d \in Known(log, from, k + 1) <=> d \in Known(log, from, (k - 1) + 1)
        BY <2>1, <2>10 DEF Known
      <3>3. (\A r \in from + 1..k : log[r].kind # "remove")
              <=> \A r \in from + 1..k - 1 : log[r].kind # "remove"
        BY <2>1, <2>10
      <3>4. Has(log, from, kept, l.session, k) <=> Has(log, from, kept, l.session, k - 1)
        BY <3>2, <3>3 DEF Has
      <3> QED BY <2>1, <2>4, <3>1, <3>4
    <2> QED BY <2>8, <2>9, <2>10
  <1> HIDE DEF Good
  <1>5. to \in Nat
    OBVIOUS
  <1>6. \A k \in from..to : k \in Good
    BY <1>1, <1>4, <1>5, CursorByCursor
  <1>7. c \in Good
    BY <1>6
  <1> QED BY <1>7 DEF Good, parts

\* The projections after all parts (s) and after those that are kept (t) agree, but for
\* what a part that is kept, or a removal, will still overwrite.
SameEntity(s, t, e) ==
  /\ s.ver[e] = t.ver[e]
  /\ e \in s.tomb <=> e \in t.tomb
  /\ e \in Messages => (e \in s.msgs <=> e \in t.msgs)
  /\ e = Session => s.session = t.session

SoFar(log, to, kept, c, s, t) ==
  /\ \A e \in Entities : SameEntity(s, t, e) \/ \E d \in kept : d > c /\ log[d].id = e
  /\ \A k \in Commands : (k \in s.acked <=> k \in t.acked) \/ \E d \in kept : d > c /\ log[d].cmd = k
  /\ \/ s.unread = t.unread
     \/ \E r \in c + 1..to : log[r].kind = "remove"
     \/ s.session /\ \E d \in kept : d > c /\ log[d].kind \in MemberKinds

\* A kept part makes the two agree on what it overwrites.
LEMMA KeptPart ==
  ASSUME NEW log \in Seq(Parts), NEW from \in Nat, NEW to \in from..Len(log),
         NEW kept, Keeps(log, from, to, kept), NEW c \in kept,
         NEW s \in Locals, NEW t \in Locals,
         Fresh(s, log, c - 1), Fresh(t, log, c - 1),
         ~Stale(s, log[c]), ~Stale(t, log[c]),
         SoFar(log, to, kept, c - 1, s, t),
         log[c].kind \in MemberKinds => s.session = t.session
  PROVE  SoFar(log, to, kept, c, ApplyPart(s, log[c]), ApplyPart(t, log[c]))
  <1> DEFINE p == log[c]
             x == ApplyPart(s, p)
             y == ApplyPart(t, p)
  <1>1. c \in from + 1..to /\ c \in Nat /\ kept \subseteq Nat /\ p \in Parts /\ to \in Nat
    BY DEF Keeps
  <1> HIDE DEF p
  <1>2. /\ x \in Locals /\ x.ver = [s.ver EXCEPT ![p.id] = p.ver]
        /\ x.tomb = IF Tombstone(p) THEN s.tomb \cup {p.id} ELSE s.tomb \ {p.id}
        /\ x.acked = IF p.cmd = NoCmd THEN s.acked ELSE s.acked \cup {p.cmd}
        /\ x.msgs = IF p.kind = "message" THEN s.msgs \cup {p.id}
                    ELSE IF p.kind = "revoke" THEN s.msgs \ {p.id}
                    ELSE IF p.kind = "remove" THEN {} ELSE s.msgs
        /\ x.session = IF p.kind = "session" THEN TRUE
                       ELSE IF p.kind = "remove" THEN FALSE ELSE s.session
        /\ x.unread = IF p.kind = "remove" THEN 0
                      ELSE IF p.kind \in {"unread", "read"} /\ s.session /\ Session \notin s.tomb
                      THEN p.val ELSE s.unread
    BY <1>1, OnePart DEF p
  <1>3. /\ y \in Locals /\ y.ver = [t.ver EXCEPT ![p.id] = p.ver]
        /\ y.tomb = IF Tombstone(p) THEN t.tomb \cup {p.id} ELSE t.tomb \ {p.id}
        /\ y.acked = IF p.cmd = NoCmd THEN t.acked ELSE t.acked \cup {p.cmd}
        /\ y.msgs = IF p.kind = "message" THEN t.msgs \cup {p.id}
                    ELSE IF p.kind = "revoke" THEN t.msgs \ {p.id}
                    ELSE IF p.kind = "remove" THEN {} ELSE t.msgs
        /\ y.session = IF p.kind = "session" THEN TRUE
                       ELSE IF p.kind = "remove" THEN FALSE ELSE t.session
        /\ y.unread = IF p.kind = "remove" THEN 0
                      ELSE IF p.kind \in {"unread", "read"} /\ t.session /\ Session \notin t.tomb
                      THEN p.val ELSE t.unread
    BY <1>1, OnePart DEF p
  <1> HIDE DEF x, y
  <1>4. /\ p.id \in Entities /\ p.kind \in Kinds
        /\ p.id \in Messages <=> p.kind \in {"message", "revoke"}
        /\ p.id = Session <=> p.kind \in {"session", "remove"}
        /\ p.id = Member <=> p.kind \in {"unread", "read"}
    BY <1>1, PartsAbout
  <1>5. ASSUME NEW e \in Entities
        PROVE  SameEntity(x, y, e) \/ \E d \in kept : d > c /\ log[d].id = e
    <2>1. CASE e = p.id
      <3>1. x.ver[e] = y.ver[e]
        BY <1>2, <1>3, <2>1 DEF Locals
      <3>2. e \in x.tomb <=> e \in y.tomb
        BY <1>2, <1>3, <2>1
      <3>3. e \in Messages => (e \in x.msgs <=> e \in y.msgs)
        BY <1>2, <1>3, <1>4, <2>1
      <3>4. ASSUME e = Session PROVE x.session = y.session
        <4>1. p.kind \in {"session", "remove"}
          BY <1>4, <2>1, <3>4
        <4>2. CASE p.kind = "session"
          BY <1>2, <1>3, <4>2
        <4>3. CASE p.kind = "remove"
          BY <1>2, <1>3, <4>3
        <4> QED BY <4>1, <4>2, <4>3
      <3> QED BY <3>1, <3>2, <3>3, <3>4 DEF SameEntity
    <2>2. CASE e # p.id /\ SameEntity(s, t, e)
      <3>1. x.ver[e] = y.ver[e]
        BY <1>2, <1>3, <2>2 DEF Locals, SameEntity
      <3>2. e \in x.tomb <=> e \in y.tomb
        BY <1>2, <1>3, <2>2 DEF SameEntity
      <3>3. e \in Messages => (e \in x.msgs <=> e \in y.msgs)
        BY <1>2, <1>3, <2>2 DEF SameEntity
      <3>4. e = Session => x.session = y.session
        BY <1>2, <1>3, <1>4, <2>2 DEF SameEntity
      <3> QED BY <3>1, <3>2, <3>3, <3>4 DEF SameEntity
    <2>3. CASE e # p.id /\ ~SameEntity(s, t, e)
      <3>1. PICK d \in kept : d > c - 1 /\ log[d].id = e
        BY <2>3 DEF SoFar
      <3>2. d # c
        BY <3>1, <2>3 DEF p
      <3>3. d > c
        BY <1>1, <3>1, <3>2
      <3> QED BY <3>1, <3>3
    <2> QED BY <2>1, <2>2, <2>3
  <1>6. ASSUME NEW k \in Commands
        PROVE  (k \in x.acked <=> k \in y.acked) \/ \E d \in kept : d > c /\ log[d].cmd = k
    <2>1. CASE k = p.cmd
      BY <1>2, <1>3, <2>1
    <2>2. CASE k # p.cmd /\ (k \in s.acked <=> k \in t.acked)
      BY <1>2, <1>3, <2>2
    <2>3. CASE k # p.cmd /\ ~(k \in s.acked <=> k \in t.acked)
      <3>1. PICK d \in kept : d > c - 1 /\ log[d].cmd = k
        BY <2>3 DEF SoFar
      <3>2. d # c
        BY <3>1, <2>3 DEF p
      <3>3. d > c
        BY <1>1, <3>1, <3>2
      <3> QED BY <3>1, <3>3
    <2> QED BY <2>1, <2>2, <2>3
  <1>7. \/ x.unread = y.unread
        \/ \E r \in c + 1..to : log[r].kind = "remove"
        \/ x.session /\ \E d \in kept : d > c /\ log[d].kind \in MemberKinds
    <2>1. CASE p.kind = "remove"
      BY <1>2, <1>3, <2>1
    <2>2. CASE p.kind # "remove" /\ \E r \in c..to : log[r].kind = "remove"
      <3>1. PICK r \in c..to : log[r].kind = "remove"
        BY <2>2
      <3>2. r # c
        BY <3>1, <2>2 DEF p
      <3>3. r \in c + 1..to
        BY <1>1, <3>2
      <3> QED BY <3>1, <3>3
    <2>3. CASE p.kind # "remove" /\ ~\E r \in c..to : log[r].kind = "remove"
      <3>1. (c - 1) + 1 = c
        BY <1>1
      <3>2. s.unread = t.unread \/ (s.session /\ \E d \in kept : d > c - 1 /\ log[d].kind \in MemberKinds)
        BY <2>3, <3>1 DEF SoFar
      <3>3. CASE p.kind \in MemberKinds
        <4>1. s.session = t.session /\ (s.session => Session \notin s.tomb /\ Session \notin t.tomb)
          BY <3>3 DEF p, Fresh
        <4>2. CASE s.session
          BY <4>1, <4>2, <1>2, <1>3, <3>3, <2>3 DEF MemberKinds
        <4>3. CASE ~s.session
          BY <4>1, <4>3, <1>2, <1>3, <3>2, <2>3
        <4> QED BY <4>2, <4>3
      <3>4. CASE p.kind \notin MemberKinds
        <4>1. x.unread = s.unread /\ y.unread = t.unread /\ (s.session => x.session)
          BY <1>2, <1>3, <2>3, <3>4 DEF MemberKinds
        <4>2. CASE s.unread = t.unread
          BY <4>1, <4>2
        <4>3. CASE s.session /\ \E d \in kept : d > c - 1 /\ log[d].kind \in MemberKinds
          <5>1. PICK d \in kept : d > c - 1 /\ log[d].kind \in MemberKinds
            BY <4>3
          <5>2. d # c
            BY <3>4, <5>1 DEF p
          <5>3. d > c
            BY <1>1, <5>1, <5>2
          <5> QED BY <4>1, <4>3, <5>1, <5>3
        <4> QED BY <3>2, <4>2, <4>3
      <3> QED BY <3>3, <3>4
    <2> QED BY <2>1, <2>2, <2>3
  <1> QED BY <1>5, <1>6, <1>7 DEF SoFar, x, y, p

\* A part that is left out will be overwritten.
LEMMA LeftOutPart ==
  ASSUME NEW log \in Seq(Parts), NEW from \in Nat, NEW to \in from..Len(log),
         NEW kept, Keeps(log, from, to, kept), NEW c \in from + 1..to, c \notin kept,
         NEW s \in Locals, NEW t \in Locals, ~Stale(s, log[c]),
         SoFar(log, to, kept, c - 1, s, t)
  PROVE  SoFar(log, to, kept, c, ApplyPart(s, log[c]), t)
  <1> DEFINE p == log[c]
             x == ApplyPart(s, p)
  <1>1. c \in Nat /\ kept \subseteq Nat /\ p \in Parts /\ to \in Nat
    BY DEF Keeps
  <1>0. p.kind # "remove" /\ \E d \in kept : d > c /\ Supersedes(log[d], p) /\ p.cmd \in {NoCmd, log[d].cmd}
    BY DEF Keeps
  <1> HIDE DEF p
  <1>2. /\ x \in Locals /\ x.ver = [s.ver EXCEPT ![p.id] = p.ver]
        /\ x.tomb = IF Tombstone(p) THEN s.tomb \cup {p.id} ELSE s.tomb \ {p.id}
        /\ x.acked = IF p.cmd = NoCmd THEN s.acked ELSE s.acked \cup {p.cmd}
        /\ x.msgs = IF p.kind = "message" THEN s.msgs \cup {p.id}
                    ELSE IF p.kind = "revoke" THEN s.msgs \ {p.id}
                    ELSE IF p.kind = "remove" THEN {} ELSE s.msgs
        /\ x.session = IF p.kind = "session" THEN TRUE
                       ELSE IF p.kind = "remove" THEN FALSE ELSE s.session
        /\ x.unread = IF p.kind = "remove" THEN 0
                      ELSE IF p.kind \in {"unread", "read"} /\ s.session /\ Session \notin s.tomb
                      THEN p.val ELSE s.unread
    BY <1>1, OnePart DEF p
  <1> HIDE DEF x
  <1>3. PICK later \in kept : later > c /\ Supersedes(log[later], p) /\ p.cmd \in {NoCmd, log[later].cmd}
    BY <1>0
  <1>4. /\ p.id \in Entities /\ p.kind \in Kinds
        /\ p.id = Session <=> p.kind \in {"session", "remove"}
    BY <1>1, PartsAbout
  <1>5. ASSUME NEW e \in Entities
        PROVE  SameEntity(x, t, e) \/ \E d \in kept : d > c /\ log[d].id = e
    <2>1. CASE e = p.id
      BY <1>3, <2>1 DEF Supersedes
    <2>2. CASE e # p.id /\ SameEntity(s, t, e)
      <3>1. x.ver[e] = t.ver[e]
        BY <1>2, <2>2 DEF Locals, SameEntity
      <3>2. e \in x.tomb <=> e \in t.tomb
        BY <1>2, <2>2 DEF SameEntity
      <3>3. e \in Messages => (e \in x.msgs <=> e \in t.msgs)
        BY <1>0, <1>2, <2>2 DEF SameEntity
      <3>4. e = Session => x.session = t.session
        BY <1>2, <1>4, <2>2 DEF SameEntity
      <3> QED BY <3>1, <3>2, <3>3, <3>4 DEF SameEntity
    <2>3. CASE ~SameEntity(s, t, e)
      <3>1. PICK d \in kept : d > c - 1 /\ log[d].id = e
        BY <2>3 DEF SoFar
      <3>2. d > c
        BY <1>1, <3>1
      <3> QED BY <3>1, <3>2
    <2> QED BY <2>1, <2>2, <2>3
  <1>6. ASSUME NEW k \in Commands
        PROVE  (k \in x.acked <=> k \in t.acked) \/ \E d \in kept : d > c /\ log[d].cmd = k
    <2>1. CASE k = p.cmd
      <3>1. log[later].cmd = k
        BY <1>3, <2>1
      <3> QED BY <1>3, <3>1
    <2>2. CASE k # p.cmd /\ (k \in s.acked <=> k \in t.acked)
      BY <1>2, <2>2
    <2>3. CASE ~(k \in s.acked <=> k \in t.acked)
      <3>1. PICK d \in kept : d > c - 1 /\ log[d].cmd = k
        BY <2>3 DEF SoFar
      <3>2. d > c
        BY <1>1, <3>1
      <3> QED BY <3>1, <3>2
    <2> QED BY <2>1, <2>2, <2>3
  <1>7. \/ x.unread = t.unread
        \/ \E r \in c + 1..to : log[r].kind = "remove"
        \/ x.session /\ \E d \in kept : d > c /\ log[d].kind \in MemberKinds
    <2>1. CASE \E r \in c..to : log[r].kind = "remove"
      <3>1. PICK r \in c..to : log[r].kind = "remove"
        BY <2>1
      <3>2. r # c
        BY <3>1, <1>0 DEF p
      <3>3. r \in c + 1..to
        BY <1>1, <3>2
      <3> QED BY <3>1, <3>3
    <2>2. CASE ~\E r \in c..to : log[r].kind = "remove"
      <3>1. (c - 1) + 1 = c
        BY <1>1
      <3>2. s.unread = t.unread \/ (s.session /\ \E d \in kept : d > c - 1 /\ log[d].kind \in MemberKinds)
        BY <2>2, <3>1 DEF SoFar
      <3>3. s.session => x.session
        BY <1>0, <1>2
      <3>4. CASE p.kind \in MemberKinds /\ s.session
        <4>1. log[later].kind \in MemberKinds
          BY <1>3, <3>4 DEF Supersedes, MemberKinds
        <4> QED BY <1>3, <3>3, <3>4, <4>1
      <3>5. CASE ~(p.kind \in MemberKinds /\ s.session)
        <4>1. x.unread = s.unread
          BY <1>0, <1>2, <3>5 DEF MemberKinds
        <4>2. CASE s.unread = t.unread
          BY <4>1, <4>2
        <4>3. CASE s.session /\ \E d \in kept : d > c - 1 /\ log[d].kind \in MemberKinds
          <5>1. PICK d \in kept : d > c - 1 /\ log[d].kind \in MemberKinds
            BY <4>3
          <5>2. d > c
            BY <1>1, <5>1
          <5> QED BY <3>3, <4>3, <5>1, <5>2
        <4> QED BY <3>2, <4>2, <4>3
      <3> QED BY <3>4, <3>5
    <2> QED BY <2>1, <2>2
  <1> QED BY <1>5, <1>6, <1>7 DEF SoFar, x, p

\* A page of which only some parts are kept means what the whole page means.
THEOREM KeptMeansAll ==
  ASSUME NEW log \in Seq(Parts), Ascending(log), NEW l \in Locals,
         NEW from \in Nat, NEW to \in from..Len(log), Fresh(l, log, from),
         NEW kept, Keeps(log, from, to, kept)
  PROVE  ApplyParts(l, Some(log, kept), from, to) = ApplyParts(l, log, from, to)
  <1> DEFINE all == from + 1..to
             Full(c) == ApplyParts(l, Some(log, all), from, c)
             Part0(c) == ApplyParts(l, Some(log, kept), from, c)
             Good == {c \in Nat : SoFar(log, to, kept, c, Full(c), Part0(c))}
  <1>1. /\ to \in Nat /\ kept \subseteq all /\ DOMAIN log = 1..Len(log) /\ Len(log) \in Nat
        /\ DOMAIN Some(log, all) = all /\ (\A c \in all : Some(log, all)[c] = log[c])
        /\ DOMAIN Some(log, kept) = kept /\ (\A c \in kept : Some(log, kept)[c] = log[c])
    BY DEF Some, Keeps
  <1>2. Keeps(log, from, to, all)
    BY <1>1, AllKeeps
  <1>3. ASSUME NEW c \in from..to
        PROVE  /\ Full(c) \in Locals /\ Fresh(Full(c), log, c)
               /\ Part0(c) \in Locals /\ Fresh(Part0(c), log, c)
    BY <1>1, Applies
  <1>4. from \in Good
    <2>1. Full(from) = l /\ Part0(from) = l
      BY ApplyNone
    <2> HIDE DEF Full, Part0
    <2>2. SoFar(log, to, kept, from, Full(from), Part0(from))
      BY <2>1 DEF SoFar, SameEntity
    <2> QED BY <2>2
  <1>5. ASSUME NEW c \in all, c - 1 \in Good PROVE c \in Good
    <2>1. c \in Nat /\ from < c /\ c \in DOMAIN log /\ c - 1 \in from..to /\ (c - 1) + 1 = c
      BY <1>1
    <2> DEFINE s == Full(c - 1)
               t == Part0(c - 1)
    <2>2. Full(c) = ApplyPart(s, log[c])
      BY <1>1, <2>1, ApplyLast
    <2>3. Part0(c) = IF c \in kept THEN ApplyPart(t, log[c]) ELSE t
      BY <1>1, <2>1, ApplyLast
    <2>4. /\ s \in Locals /\ Fresh(s, log, c - 1)
          /\ t \in Locals /\ Fresh(t, log, c - 1)
      BY <1>3, <2>1
    <2>5. SoFar(log, to, kept, c - 1, s, t)
      BY <1>5
    <2>6. c \in kept /\ log[c].kind \in MemberKinds => s.session = t.session
      <3> SUFFICES ASSUME c \in kept, log[c].kind \in MemberKinds PROVE s.session = t.session
        OBVIOUS
      <3>1. s.session <=> Has(log, from, all, l.session, c - 1)
        BY <1>2, <2>1, HasSession
      <3>2. t.session <=> Has(log, from, kept, l.session, c - 1)
        BY <2>1, HasSession
      <3> HIDE DEF s, t
      <3>3. Known(log, from, c) # {} => Known(log, from, c) \cap kept # {}
        BY DEF Keeps
      <3>4. (\E d \in all : d \in Known(log, from, c)) <=> (\E d \in kept : d \in Known(log, from, c))
        BY <1>1, <3>3
      <3>5. s.session <=> t.session
        BY <2>1, <3>1, <3>2, <3>4 DEF Has
      <3> QED BY <2>4, <3>5 DEF Locals
    <2> HIDE DEF Full, Part0, s, t
    <2>7. ~Stale(s, log[c]) /\ ~Stale(t, log[c])
      BY <2>1, <2>4, NextApplies
    <2>8. SoFar(log, to, kept, c, Full(c), Part0(c))
      <3>1. CASE c \in kept
        <4>1. SoFar(log, to, kept, c, ApplyPart(s, log[c]), ApplyPart(t, log[c]))
          BY <2>4, <2>5, <2>6, <2>7, <3>1, KeptPart
        <4> QED BY <2>2, <2>3, <3>1, <4>1
      <3>2. CASE c \notin kept
        <4>1. SoFar(log, to, kept, c, ApplyPart(s, log[c]), t)
          BY <2>4, <2>5, <2>7, <3>2, LeftOutPart
        <4> QED BY <2>2, <2>3, <3>2, <4>1
      <3> QED BY <3>1, <3>2
    <2> QED BY <2>1, <2>8
  <1> HIDE DEF Good
  <1>6. \A c \in from..to : c \in Good
    BY <1>1, <1>4, <1>5, CursorByCursor
  <1>7. SoFar(log, to, kept, to, Full(to), Part0(to))
    BY <1>6 DEF Good
  <1>8. Full(to) \in Locals /\ Part0(to) \in Locals
    BY <1>3
  <1>9. Full(to) = ApplyParts(l, log, from, to)
    BY <1>1, ApplySame
  <1> HIDE DEF Full, Part0
  <1>10. \A d \in kept : ~(d > to)
    BY <1>1
  <1>11. Full(to) = Part0(to)
    <2> DEFINE s == Full(to)
               t == Part0(to)
    <2> HIDE DEF s, t
    <2>1. s \in Locals /\ t \in Locals
      BY <1>8 DEF s, t
    <2>2. \A e \in Entities : SameEntity(s, t, e)
      BY <1>7, <1>10 DEF SoFar, s, t
    <2>3. s.ver = t.ver
      BY <2>1, <2>2 DEF SameEntity, Locals
    <2>4. s.tomb = t.tomb
      BY <2>1, <2>2 DEF SameEntity, Locals
    <2>5. s.msgs = t.msgs
      BY <2>1, <2>2 DEF SameEntity, Locals, Entities
    <2>6. s.session = t.session
      BY <2>2 DEF SameEntity, Entities
    <2>7. s.acked = t.acked
      <3>1. \A k \in Commands : k \in s.acked <=> k \in t.acked
        BY <1>7, <1>10 DEF SoFar, s, t
      <3> QED BY <2>1, <3>1 DEF Locals
    <2>8. s.unread = t.unread
      <3>1. ~\E r \in to + 1..to : log[r].kind = "remove"
        BY <1>1
      <3> QED BY <1>7, <1>10, <3>1 DEF SoFar, s, t
    <2>9. s = t
      BY <2>1, <2>3, <2>4, <2>5, <2>6, <2>7, <2>8 DEF Locals
    <2> QED BY <2>9 DEF s, t
  <1> QED BY <1>9, <1>11 DEF Part0

Kept(log, from, to) ==
  LET folded == Folded(log, from, to) IN folded \cup SessionBeforeUnread(log, from, folded)

\* The last removal before a cursor.
Since(log, from, c) == Max({from} \cup {d \in from + 1..c - 1 : log[d].kind = "remove"})

Upserts(log, after, c) == {d \in after + 1..c - 1 : log[d].kind = "session"}

\* The upserts that count are those after the last removal.
LEMMA KnownSince ==
  ASSUME NEW log, NEW from \in Nat, NEW c \in Nat
  PROVE  /\ Known(log, from, c) = Upserts(log, Since(log, from, c), c)
         /\ Since(log, from, c) \in Nat /\ Since(log, from, c) >= from
         /\ \A r \in from + 1..c - 1 : log[r].kind = "remove" => r <= Since(log, from, c)
  <1> DEFINE Removals == {d \in from + 1..c - 1 : log[d].kind = "remove"}
             S == {from} \cup Removals
             n == from + c
  <1>1. n \in Nat /\ S \in SUBSET (0..n) /\ S # {}
    OBVIOUS
  <1>2. Max(S) \in S /\ \A x \in S : x <= Max(S)
    BY <1>1, Largest
  <1>3. Since(log, from, c) = Max(S)
    BY DEF Since
  <1> DEFINE m == Max(S)
  <1>4. m \in S /\ \A x \in S : x <= m
    BY <1>2
  <1> HIDE DEF m
  <1>5. m \in Nat /\ m >= from /\ \A r \in from + 1..c - 1 : log[r].kind = "remove" => r <= m
    BY <1>4
  <1>6. m = from \/ (m \in from + 1..c - 1 /\ log[m].kind = "remove")
    BY <1>4
  <1>7. ASSUME NEW d \in Known(log, from, c)
        PROVE  d \in m + 1..c - 1 /\ log[d].kind = "session"
    <2>1. d \in from + 1..c - 1 /\ log[d].kind = "session"
      BY DEF Known
    <2>2. CASE m = from
      BY <2>1, <2>2
    <2>3. CASE m \in from + 1..c - 1 /\ log[m].kind = "remove"
      <3>1. m < d
        BY <2>3 DEF Known
      <3> QED BY <1>5, <2>1, <3>1
    <2> QED BY <1>6, <2>2, <2>3
  <1>8. ASSUME NEW d \in m + 1..c - 1, log[d].kind = "session"
        PROVE  d \in Known(log, from, c)
    BY <1>5, <1>8 DEF Known
  <1>9. Known(log, from, c) = {d \in m + 1..c - 1 : log[d].kind = "session"}
    BY <1>7, <1>8
  <1>10. Known(log, from, c) = Upserts(log, m, c)
    BY <1>9 DEF Upserts
  <1> QED BY <1>3, <1>5, <1>10 DEF m

\* What superseded a part that supersedes another supersedes that too.
LEMMA SupersedesFurther ==
  ASSUME NEW o, NEW p, NEW q, Supersedes(p, o), Supersedes(q, p)
  PROVE  Supersedes(q, o)
  BY DEF Supersedes

\* Folding keeps what it has to.
LEMMA FoldKeeps ==
  ASSUME NEW log \in Seq(Parts), NEW from \in Nat, NEW to \in from..Len(log)
  PROVE  /\ Keeps(log, from, to, Kept(log, from, to))
         /\ from < to => to \in Kept(log, from, to)
  <1> DEFINE Later(c) == {d \in c + 1..to : Supersedes(log[d], log[c])}
             folded == Folded(log, from, to)
             again == SessionBeforeUnread(log, from, folded)
             Unread == {c \in folded : log[c].kind \in {"unread", "read"}}
             Bare(c) == /\ Known(log, from, c) # {} /\ Known(log, from, c) \cap folded = {}
                        /\ \A d \in Unread : d < c /\ Since(log, from, d) = Since(log, from, c)
                                               => Known(log, from, d) = {}
  <1>1. to \in Nat
    OBVIOUS
  <1>2. folded = {c \in from + 1..to :
                    Later(c) = {} \/ log[c].cmd \notin {NoCmd, log[Max(Later(c))].cmd}}
    BY DEF Folded
  <1>3. folded \subseteq from + 1..to
    BY <1>2
  <1>4. again = {Max(Known(log, from, c)) : c \in {u \in Unread : Bare(u)}}
    <2> HIDE DEF folded
    <2>1. \A c \in folded : c \in Nat
      BY <1>3
    <2>2. \A c \in folded : Known(log, from, c) = Upserts(log, Since(log, from, c), c)
      BY <2>1, KnownSince
    <2> QED BY <2>2 DEF SessionBeforeUnread, Since, Upserts
  <1> HIDE DEF folded, again, Bare
  <1>5. ASSUME NEW c \in from + 1..to, Known(log, from, c) # {}
        PROVE  Max(Known(log, from, c)) \in Known(log, from, c)
    <2>1. Known(log, from, c) \in SUBSET (0..c) /\ c \in Nat
      BY DEF Known
    <2> QED BY <2>1, <1>5, Largest
  <1>6. again \subseteq from + 1..to /\ \A d \in again : log[d].kind = "session"
    <2> SUFFICES ASSUME NEW c \in Unread, Bare(c)
                 PROVE  LET d == Max(Known(log, from, c)) IN d \in from + 1..to /\ log[d].kind = "session"
      BY <1>4
    <2>1. c \in from + 1..to
      BY <1>3
    <2>2. Max(Known(log, from, c)) \in Known(log, from, c)
      BY <1>5, <2>1 DEF Bare
    <2> QED BY <2>1, <2>2 DEF Known
  <1>7. Kept(log, from, to) = folded \cup again
    BY DEF Kept, folded, again
  <1>8. ASSUME NEW c \in from + 1..to, c \notin folded
        PROVE  /\ log[c].kind # "remove"
               /\ \E d \in folded : d > c /\ Supersedes(log[d], log[c]) /\ log[c].cmd \in {NoCmd, log[d].cmd}
    <2> DEFINE d == Max(Later(c))
    <2>1. Later(c) # {} /\ log[c].cmd \in {NoCmd, log[d].cmd}
      BY <1>2, <1>8
    <2>2. Later(c) \in SUBSET (0..to)
      OBVIOUS
    <2>3. d \in Later(c) /\ \A x \in Later(c) : x <= d
      <3> HIDE DEF Later
      <3> QED BY <1>1, <2>1, <2>2, Largest
    <2> HIDE DEF d
    <2>4. d \in c + 1..to /\ Supersedes(log[d], log[c])
      BY <2>3
    <2>5. log[c].kind # "remove"
      BY <2>4 DEF Supersedes
    <2>6. Later(d) = {}
      <3> SUFFICES ASSUME NEW x \in Later(d) PROVE FALSE
        OBVIOUS
      <3>1. x \in d + 1..to /\ Supersedes(log[x], log[d])
        OBVIOUS
      <3>2. Supersedes(log[x], log[c])
        BY <2>4, <3>1, SupersedesFurther
      <3>3. x \in Later(c)
        BY <2>4, <3>1, <3>2
      <3>4. x <= d
        BY <2>3, <3>3
      <3> QED BY <2>4, <3>1, <3>4
    <2>7. d \in from + 1..to
      BY <2>4
    <2>8. d \in folded
      BY <1>2, <2>6, <2>7
    <2>9. d > c
      BY <2>4
    <2> QED BY <2>1, <2>4, <2>5, <2>8, <2>9
  <1>9. ASSUME NEW c \in folded \cup again, log[c].kind \in MemberKinds, Known(log, from, c) # {}
        PROVE  Known(log, from, c) \cap (folded \cup again) # {}
    <2> SUFFICES ASSUME Known(log, from, c) \cap folded = {}
                 PROVE  Known(log, from, c) \cap again # {}
      OBVIOUS
    <2>1. c \in Unread
      BY <1>6, <1>9 DEF MemberKinds
    <2> DEFINE Same == {d \in Unread : Since(log, from, d) = Since(log, from, c) /\ Known(log, from, d) # {}}
               first == Min(Same)
    <2>2. Same \in SUBSET Nat
      <3>1. \A d \in folded : d \in Nat
        BY <1>3
      <3> QED BY <3>1
    <2>3. c \in Same
      BY <1>9, <2>1
    <2>4. first \in Same /\ \A x \in Same : first <= x
      <3> HIDE DEF Same
      <3> QED BY <2>2, <2>3, Least
    <2> HIDE DEF first
    <2>5. first \in Unread /\ first \in from + 1..to /\ first \in Nat /\ c \in Nat /\ first <= c
          /\ Since(log, from, first) = Since(log, from, c) /\ Known(log, from, first) # {}
      BY <1>3, <2>2, <2>4, <2>3
    <2>6. Known(log, from, first) \subseteq Known(log, from, c)
      <3>1. Known(log, from, first) = Upserts(log, Since(log, from, first), first)
        BY <2>5, KnownSince
      <3>2. /\ Known(log, from, c) = Upserts(log, Since(log, from, c), c)
            /\ Since(log, from, c) \in Nat
        BY <2>5, KnownSince
      <3> QED BY <2>5, <3>1, <3>2 DEF Upserts
    <2>7. ASSUME NEW d \in Unread, d < first, Since(log, from, d) = Since(log, from, first)
          PROVE  Known(log, from, d) = {}
      <3> SUFFICES ASSUME Known(log, from, d) # {} PROVE FALSE
        OBVIOUS
      <3>1. d \in Same
        BY <2>5, <2>7
      <3>2. first <= d /\ d \in Nat
        BY <2>2, <2>4, <3>1
      <3> QED BY <2>5, <2>7, <3>2
    <2>8. Bare(first)
      BY <2>5, <2>6, <2>7 DEF Bare
    <2>9. Max(Known(log, from, first)) \in again
      BY <1>4, <2>5, <2>8
    <2>10. Max(Known(log, from, first)) \in Known(log, from, c)
      BY <1>5, <2>5, <2>6
    <2> QED BY <2>9, <2>10
  <1>10. Keeps(log, from, to, folded \cup again)
    <2>1. \A c \in from + 1..to : c \notin folded \cup again =>
            /\ log[c].kind # "remove"
            /\ \E d \in folded \cup again :
                 d > c /\ Supersedes(log[d], log[c]) /\ log[c].cmd \in {NoCmd, log[d].cmd}
      BY <1>8
    <2>2. folded \cup again \subseteq from + 1..to
      BY <1>3, <1>6
    <2> QED BY <1>9, <2>1, <2>2 DEF Keeps
  <1>11. from < to => to \in folded
    <2> SUFFICES ASSUME from < to PROVE to \in folded
      OBVIOUS
    <2>1. Later(to) = {} /\ to \in from + 1..to
      OBVIOUS
    <2> QED BY <1>2, <2>1
  <1> QED BY <1>7, <1>10, <1>11

-----------------------------------------------------------------------------
(* Where pages end, and what their events hold                               *)

LEMMA MaxIs ==
  ASSUME NEW n \in Nat, NEW S \in SUBSET (0..n), NEW x \in S, \A y \in S : y <= x
  PROVE  Max(S) = x
  <1>1. Max(S) \in S /\ \A y \in S : y <= Max(S)
    BY Largest
  <1> DEFINE m == Max(S)
  <1>2. m \in S /\ x <= m
    BY <1>1
  <1> HIDE DEF m
  <1>3. m \in Int /\ x \in Int /\ m <= x
    BY <1>2
  <1>4. m = x
    BY <1>2, <1>3
  <1> QED BY <1>4 DEF m

\* A page ends between its start and the frozen head.
LEMMA PageEnds ==
  ASSUME NEW rows \in SUBSET Nat, NEW from \in Nat, NEW head \in Nat
  PROVE  LET to == PageEnd(rows, from, head)
         IN  to \in Nat /\ from <= to /\ (to <= head \/ to = from)
  <1> DEFINE After(c) == {d \in rows : from < d /\ d <= c}
             S == {from} \cup {c \in After(head) : Cardinality(After(c)) <= PageRows}
             n == from + head
  <1>2. ASSUME NEW x \in S PROVE x = from \/ (x \in Nat /\ x <= head)
    <2>1. x = from \/ x \in After(head)
      OBVIOUS
    <2> QED BY <2>1
  <1>1. n \in Nat /\ S \in SUBSET (0..n) /\ S # {} /\ from \in S
    <2>1. n \in Nat /\ from \in S /\ S # {}
      OBVIOUS
    <2>2. ASSUME NEW x \in S PROVE x \in 0..n
      <3> HIDE DEF S
      <3> QED BY <1>2
    <2> HIDE DEF S, n
    <2> QED BY <2>1, <2>2
  <1>3. PageEnd(rows, from, head) = Max(S)
    BY DEF PageEnd
  <1> HIDE DEF S, n
  <1>4. Max(S) \in S /\ \A x \in S : x <= Max(S)
    BY <1>1, Largest
  <1>5. from <= Max(S)
    BY <1>1, <1>4
  <1>6. Max(S) = from \/ (Max(S) \in Nat /\ Max(S) <= head)
    BY <1>2, <1>4
  <1> QED BY <1>3, <1>5, <1>6

\* And not later where it is cut for a client without compound_v1.
LEMMA ClassicEnds ==
  ASSUME NEW rows \in SUBSET Nat, NEW from \in Nat, NEW to \in Nat, from <= to
  PROVE  ClassicEnd(rows, from, to) \in from..to
  <1> DEFINE page == {d \in rows : from < d /\ d <= to}
             S == {from} \cup {c \in page : c - from <= PageRows \/ \A d \in page : c <= d}
  <1>1. ASSUME NEW x \in S PROVE x \in from..to
    <2>1. x = from \/ x \in page
      OBVIOUS
    <2> QED BY <2>1
  <1>2. ClassicEnd(rows, from, to) = Max(S)
    BY DEF ClassicEnd
  <1>3. S # {}
    OBVIOUS
  <1> HIDE DEF S
  <1>4. S \in SUBSET (0..to)
    BY <1>1
  <1>5. Max(S) \in S
    BY <1>3, <1>4, Largest
  <1> QED BY <1>1, <1>2, <1>5

\* The events of a page: their cursors follow one another up to its end, and their parts
\* are those that were kept.
Page(log, events, from, to, kept) ==
  /\ Contiguous(events, from, to)
  /\ \A e \in DOMAIN events :
       e \in from + 1..to /\ \A c \in DOMAIN events[e].parts :
                                 c \in kept /\ events[e].parts[c] = log[c]
  /\ \A c \in kept : \E e \in DOMAIN events : c \in DOMAIN events[e].parts

LEMMA PartsOfPage ==
  ASSUME NEW log, NEW events, NEW from, NEW to, NEW kept, Page(log, events, from, to, kept)
  PROVE  PartsOf(events) = Some(log, kept)
  <1> DEFINE D == UNION {DOMAIN events[e].parts : e \in DOMAIN events}
             Of(c) == CHOOSE e \in DOMAIN events : c \in DOMAIN events[e].parts
  <1>1. D = kept
    BY DEF Page
  <1>2. ASSUME NEW c \in D PROVE events[Of(c)].parts[c] = log[c]
    <2>1. Of(c) \in DOMAIN events /\ c \in DOMAIN events[Of(c)].parts
      OBVIOUS
    <2> QED BY <2>1 DEF Page
  <1>3. PartsOf(events) = [c \in D |-> events[Of(c)].parts[c]]
    BY DEF PartsOf
  <1> HIDE DEF D, Of
  <1>4. [c \in D |-> events[Of(c)].parts[c]] = [c \in D |-> log[c]]
    BY <1>2
  <1> QED BY <1>1, <1>3, <1>4 DEF Some

\* Rows that are written later change nothing of a page.
LEMMA PageStays ==
  ASSUME NEW log, NEW more, NEW from \in Nat, NEW to \in Nat, NEW kept,
         \A c \in from + 1..to : more[c] = log[c],
         Keeps(log, from, to, kept), NEW events, Page(log, events, from, to, kept)
  PROVE  Keeps(more, from, to, kept) /\ Page(more, events, from, to, kept)
  <1>1. kept \subseteq from + 1..to
    BY DEF Keeps
  <1>2. \A c \in kept : more[c] = log[c]
    BY <1>1
  <1>3. ASSUME NEW c \in from + 1..to, c \notin kept
        PROVE  /\ more[c].kind # "remove"
               /\ \E d \in kept : d > c /\ Supersedes(more[d], more[c]) /\ more[c].cmd \in {NoCmd, more[d].cmd}
    <2>1. PICK d \in kept : d > c /\ Supersedes(log[d], log[c]) /\ log[c].cmd \in {NoCmd, log[d].cmd}
      BY <1>3 DEF Keeps
    <2>2. more[d] = log[d] /\ more[c] = log[c]
      BY <1>2
    <2>3. log[c].kind # "remove"
      BY <1>3 DEF Keeps
    <2> QED BY <2>1, <2>2, <2>3
  <1>4. ASSUME NEW c \in kept, more[c].kind \in MemberKinds, Known(more, from, c) # {}
        PROVE  Known(more, from, c) \cap kept # {}
    <2>1. c \in Nat /\ c <= to
      BY <1>1
    <2>2. \A d \in from + 1..c - 1 : more[d] = log[d]
      BY <2>1
    <2>3. Known(more, from, c) = Known(log, from, c)
      BY <2>2 DEF Known
    <2> QED BY <1>2, <1>4, <2>3 DEF Keeps
  <1>5. Keeps(more, from, to, kept)
    BY <1>1, <1>3, <1>4 DEF Keeps
  <1>6. Page(more, events, from, to, kept)
    BY <1>2 DEF Page
  <1> QED BY <1>5, <1>6

\* The events of a connection without compound_v1 are such a page.
LEMMA ClassicPage ==
  ASSUME NEW log, NEW from \in Nat, NEW to \in Nat, from <= to
  PROVE  Page(log, ClassicEvents(log, from, to), from, to, from + 1..to)
  <1> DEFINE D == from + 1..to
             events == ClassicEvents(log, from, to)
  <1>1. events = [e \in D |-> [first |-> e, parts |-> [c \in {e} |-> log[c]]]]
    BY DEF ClassicEvents
  <1> HIDE DEF events
  <1>2. /\ DOMAIN events = D
        /\ \A e \in D : events[e].first = e /\ DOMAIN events[e].parts = {e} /\ events[e].parts[e] = log[e]
    BY <1>1
  <1>3. ASSUME NEW e \in D PROVE Max({from} \cup {d \in D : d < e}) = e - 1
    <2> DEFINE S == {from} \cup {d \in D : d < e}
               x == e - 1
    <2>1. e - 1 = from \/ (e - 1 \in D /\ e - 1 < e)
      OBVIOUS
    <2>2. x \in S /\ \A y \in S : y <= x /\ y \in 0..to
      BY <2>1
    <2> HIDE DEF S, x
    <2>3. Max(S) = x
      BY <2>2, MaxIs
    <2> QED BY <2>3 DEF S, x
  <1>4. Max({from} \cup D) = to
    <2> DEFINE S == {from} \cup D
    <2>1. to \in S /\ \A y \in S : y <= to /\ y \in 0..to
      OBVIOUS
    <2> HIDE DEF S
    <2>2. Max(S) = to
      BY <2>1, MaxIs
    <2> QED BY <2>2 DEF S
  <1>5. Contiguous(events, from, to)
    <2>1. ASSUME NEW e \in D PROVE events[e].first = Max({from} \cup {d \in D : d < e}) + 1 /\ events[e].first <= e
      <3>1. Max({from} \cup {d \in D : d < e}) = e - 1
        BY <1>3
      <3>2. events[e].first = e /\ e \in Nat
        BY <1>2
      <3>3. (e - 1) + 1 = e
        BY <3>2
      <3> QED BY <3>1, <3>2, <3>3
    <2> HIDE DEF D
    <2> QED BY <1>2, <1>4, <2>1 DEF Contiguous
  <1>6. \A c \in D : \E e \in DOMAIN events : c \in DOMAIN events[e].parts
    BY <1>2
  <1>7. \A e \in DOMAIN events : e \in D /\ \A c \in DOMAIN events[e].parts :
                                 c \in D /\ events[e].parts[c] = log[c]
    BY <1>2
  <1> QED BY <1>5, <1>6, <1>7 DEF Page, events

\* The event before another one, or the start of the page.
Before(ends, from, e) == {from} \cup {d \in ends : d < e}

\* Events that span the cursors since the event before, up to the page's end, hold
\* every part that was kept.
LEMMA SpannedPage ==
  ASSUME NEW log, NEW from \in Nat, NEW to \in Nat, from <= to,
         NEW kept \in SUBSET (from + 1..to), NEW ends \in SUBSET kept, from < to => to \in ends,
         NEW events, DOMAIN events = ends,
         \A e \in ends :
           /\ events[e].first = Max(Before(ends, from, e)) + 1
           /\ DOMAIN events[e].parts = kept \cap Max(Before(ends, from, e)) + 1..e
           /\ \A c \in DOMAIN events[e].parts : events[e].parts[c] = log[c]
  PROVE  Page(log, events, from, to, kept)
  <1>1. \A e \in ends : e \in from + 1..to /\ e \in Nat
    OBVIOUS
  <1>2. ASSUME NEW e \in ends
        PROVE  LET m == Max(Before(ends, from, e)) IN
               m \in Nat /\ from <= m /\ m < e /\ (m = from \/ m \in ends)
    <2> DEFINE S == Before(ends, from, e)
               m == Max(S)
    <2>1. S # {} /\ from \in S /\ \A x \in S : x \in 0..to /\ x < e /\ (x = from \/ x \in ends)
      BY <1>1 DEF Before
    <2> HIDE DEF S
    <2>2. m \in S /\ \A x \in S : x <= m
      BY <2>1, Largest
    <2> HIDE DEF m
    <2>3. m \in Nat /\ from <= m /\ m < e /\ (m = from \/ m \in ends)
      BY <2>1, <2>2
    <2> QED BY <2>3 DEF m, S
  <1>3. Max({from} \cup ends) = to
    <2> DEFINE S == {from} \cup ends
    <2>1. to \in S /\ \A y \in S : y <= to /\ y \in 0..to
      BY <1>1
    <2> HIDE DEF S
    <2>2. Max(S) = to
      BY <2>1, MaxIs
    <2> QED BY <2>2 DEF S
  <1>4. Contiguous(events, from, to)
    <2>1. ASSUME NEW e \in ends
          PROVE  events[e].first = Max({from} \cup {d \in ends : d < e}) + 1 /\ events[e].first <= e
      <3> DEFINE m == Max(Before(ends, from, e))
      <3>1. m \in Nat /\ m < e /\ events[e].first = m + 1 /\ e \in Nat
        BY <1>1, <1>2
      <3> HIDE DEF m
      <3>2. events[e].first <= e
        BY <3>1
      <3>3. events[e].first = Max({from} \cup {d \in ends : d < e}) + 1
        BY DEF Before
      <3> QED BY <3>2, <3>3
    <2> QED BY <1>3, <2>1 DEF Contiguous
  <1>5. ASSUME NEW c \in kept PROVE \E e \in ends : c \in DOMAIN events[e].parts
    <2> DEFINE S == {e \in ends : c <= e}
               e == Min(S)
               m == Max(Before(ends, from, e))
    <2>1. c \in from + 1..to /\ c \in Nat /\ from < c
      OBVIOUS
    <2>2. to \in S
      BY <2>1
    <2>3. \A x \in S : x \in Nat /\ x \in ends /\ c <= x
      BY <1>1
    <2>4. e \in S /\ \A x \in S : e <= x
      <3> HIDE DEF S
      <3> QED BY <2>2, <2>3, Least
    <2>5. \A x \in ends : c <= x => e <= x
      BY <2>4
    <2>6. e \in ends /\ c <= e /\ e \in Nat
      BY <2>3, <2>4
    <2> HIDE DEF e, S
    <2>7. m \in Nat /\ m < e /\ (m = from \/ m \in ends)
      BY <1>2, <2>6
    <2>8. DOMAIN events[e].parts = kept \cap m + 1..e
      BY <2>6
    <2> HIDE DEF m
    <2>9. m < c
      BY <2>1, <2>5, <2>6, <2>7
    <2>10. c \in m + 1..e
      BY <2>1, <2>6, <2>7, <2>9
    <2> QED BY <2>6, <2>8, <2>10
  <1>6. ASSUME NEW e \in ends
        PROVE  e \in from + 1..to /\ \A c \in DOMAIN events[e].parts :
                                        c \in kept /\ events[e].parts[c] = log[c]
    <2> DEFINE m == Max(Before(ends, from, e))
    <2>1. DOMAIN events[e].parts = kept \cap m + 1..e
      OBVIOUS
    <2> HIDE DEF m
    <2> QED BY <1>1, <2>1
  <1> QED BY <1>4, <1>5, <1>6 DEF Page

\* So are those of a connection with it.
LEMMA EmittedPage ==
  ASSUME NEW log, NEW rows, NEW from \in Nat, NEW to \in Nat, from <= to,
         NEW kept \in SUBSET (from + 1..to), from < to => to \in kept
  PROVE  Page(log, Emit(log, rows, from, to, kept), from, to, kept)
  <1> DEFINE Row(c) == {d \in from + 1..to : \A r \in rows : r < d <=> r < c}
             ends == {c \in kept : Min(Row(c)) \in kept => \A d \in Row(c) \cap kept : d <= c}
             First(e) == Max(Before(ends, from, e)) + 1
             events == Emit(log, rows, from, to, kept)
  <1>1. events = [e \in ends |-> [first |-> First(e), parts |-> [c \in kept \cap First(e)..e |-> log[c]]]]
    BY DEF Emit, Before
  <1>2. ends \in SUBSET kept
    OBVIOUS
  <1>3. ASSUME from < to PROVE to \in ends
    <2>1. to \in kept /\ \A d \in kept : d <= to
      BY <1>3
    <2> QED BY <2>1
  <1> HIDE DEF events, ends
  <1>4. /\ DOMAIN events = ends
        /\ \A e \in ends : /\ events[e].first = First(e)
                           /\ DOMAIN events[e].parts = kept \cap First(e)..e
                           /\ \A c \in DOMAIN events[e].parts : events[e].parts[c] = log[c]
    <2> HIDE DEF First
    <2> QED BY <1>1
  <1>5. Page(log, events, from, to, kept)
    BY <1>2, <1>3, <1>4, SpannedPage
  <1> QED BY <1>5 DEF events

-----------------------------------------------------------------------------
(* What the unread count is left out of                                      *)

\* Applying a whole log in order.
LEMMA AppliesAll ==
  ASSUME NEW log \in Seq(Parts), Ascending(log), NEW l \in Locals,
         NEW from \in Nat, NEW c \in from..Len(log), Fresh(l, log, from)
  PROVE  LET x == ApplyParts(l, log, from, c)
         IN  x \in Locals /\ Fresh(x, log, c)
  <1> DEFINE kept == from + 1..c
             parts == Some(log, kept)
  <1>1. DOMAIN log = 1..Len(log) /\ Len(log) \in Nat /\ c \in Nat /\ from <= c
    OBVIOUS
  <1>2. DOMAIN parts = kept /\ \A k \in kept : parts[k] = log[k]
    BY DEF Some
  <1> HIDE DEF parts
  <1>3. \A k \in from + 1..c : (k \in DOMAIN parts <=> k \in DOMAIN log) /\ (k \in DOMAIN parts => parts[k] = log[k])
    BY <1>1, <1>2
  <1>4. ApplyParts(l, parts, from, c) = ApplyParts(l, log, from, c)
    BY <1>1, <1>3, ApplySame
  <1>5. kept \in SUBSET (from + 1..c) /\ c \in from..c
    BY <1>1
  <1> HIDE DEF kept
  <1>6. ApplyParts(l, parts, from, c) \in Locals /\ Fresh(ApplyParts(l, parts, from, c), log, c)
    BY <1>1, <1>5, Applies DEF parts
  <1> QED BY <1>4, <1>6

\* No entity gets a version that its row does not have.
LEMMA VersionsBound ==
  ASSUME NEW log \in Seq(Parts), Ascending(log), NEW l \in Locals,
         NEW from \in Nat, NEW to \in from..Len(log), Fresh(l, log, from),
         NEW V, \A e \in Entities : V[e] \in Nat /\ l.ver[e] <= V[e],
         \A c \in DOMAIN log : log[c].ver <= V[log[c].id]
  PROVE  \A e \in Entities : ApplyParts(l, log, from, to).ver[e] <= V[e]
  <1> DEFINE At(k) == ApplyParts(l, log, from, k)
             Good == {k \in Nat : \A e \in Entities : At(k).ver[e] <= V[e]}
  <1>1. from \in Good
    BY ApplyNone
  <1>2. to \in Nat /\ from <= to /\ DOMAIN log = 1..Len(log) /\ Len(log) \in Nat
    OBVIOUS
  <1>3. ASSUME NEW k \in from + 1..to, k - 1 \in Good PROVE k \in Good
    <2>1. k \in Nat /\ from < k /\ k \in DOMAIN log /\ k - 1 \in from..Len(log)
      BY <1>2
    <2>2. At(k) = ApplyPart(At(k - 1), log[k])
      BY <2>1, ApplyLast
    <2>3. At(k - 1) \in Locals /\ Fresh(At(k - 1), log, k - 1)
      BY <2>1, AppliesAll
    <2>4. \A e \in Entities : At(k - 1).ver[e] <= V[e]
      BY <1>3
    <2> DEFINE x == At(k - 1)
               p == log[k]
    <2>5. p \in Parts
      BY <2>1
    <2> HIDE DEF At
    <2>6. ~Stale(x, p)
      BY <2>1, <2>3, NextApplies
    <2> HIDE DEF x, p
    <2>7. ApplyPart(x, p).ver = [x.ver EXCEPT ![p.id] = p.ver]
      BY <2>3, <2>5, <2>6, OnePart DEF x
    <2>8. p.ver <= V[p.id] /\ p.id \in Entities
      BY <2>1, <2>5, PartsAbout DEF p
    <2>9. x.ver \in [Entities -> Nat \cup {-1}]
      BY <2>3 DEF Locals, x
    <2>10. \A e \in Entities : ApplyPart(x, p).ver[e] <= V[e]
      BY <2>4, <2>7, <2>8, <2>9 DEF x
    <2>11. \A e \in Entities : At(k).ver[e] <= V[e]
      BY <2>2, <2>10 DEF x, p
    <2> QED BY <2>1, <2>11
  <1> HIDE DEF Good
  <1>4. \A k \in from..to : k \in Good
    BY <1>1, <1>2, <1>3, CursorByCursor
  <1>5. to \in Good
    BY <1>2, <1>4
  <1> QED BY <1>5 DEF Good

\* The same projection but for the unread count.
Alike(s, t) ==
  s.msgs = t.msgs /\ (s.session <=> t.session) /\ s.ver = t.ver /\ s.tomb = t.tomb /\ s.acked = t.acked

\* It has no part in what happens to the rest.
LEMMA StaysAlike ==
  ASSUME NEW log \in Seq(Parts), Ascending(log), NEW s \in Locals, NEW t \in Locals,
         NEW from \in Nat, NEW to \in from..Len(log), Fresh(s, log, from), Fresh(t, log, from), Alike(s, t)
  PROVE  Alike(ApplyParts(s, log, from, to), ApplyParts(t, log, from, to))
  <1> DEFINE S(k) == ApplyParts(s, log, from, k)
             T(k) == ApplyParts(t, log, from, k)
             Good == {k \in Nat : Alike(S(k), T(k))}
  <1>1. from \in Good
    BY ApplyNone
  <1>2. to \in Nat /\ from <= to /\ DOMAIN log = 1..Len(log) /\ Len(log) \in Nat
    OBVIOUS
  <1>3. ASSUME NEW k \in from + 1..to, k - 1 \in Good PROVE k \in Good
    <2>1. k \in Nat /\ from < k /\ k \in DOMAIN log /\ k - 1 \in from..Len(log)
      BY <1>2
    <2>2. S(k) = ApplyPart(S(k - 1), log[k]) /\ T(k) = ApplyPart(T(k - 1), log[k])
      BY <2>1, ApplyLast
    <2>3. S(k - 1) \in Locals /\ Fresh(S(k - 1), log, k - 1)
      BY <2>1, AppliesAll
    <2>4. T(k - 1) \in Locals /\ Fresh(T(k - 1), log, k - 1)
      BY <2>1, AppliesAll
    <2>5. Alike(S(k - 1), T(k - 1))
      BY <1>3
    <2> DEFINE x == S(k - 1)
               y == T(k - 1)
               p == log[k]
    <2>6. p \in Parts
      BY <2>1
    <2> HIDE DEF S, T
    <2>7. ~Stale(x, p) /\ ~Stale(y, p)
      BY <2>1, <2>3, <2>4, NextApplies
    <2>8. x \in Locals /\ y \in Locals /\ Alike(x, y)
      BY <2>3, <2>4, <2>5
    <2> HIDE DEF x, y, p
    <2>9. Alike(ApplyPart(x, p), ApplyPart(y, p))
      <3> DEFINE x2 == ApplyPart(x, p)
                 y2 == ApplyPart(y, p)
      <3>0. x2 = ApplyPart(x, p) /\ y2 = ApplyPart(y, p)
        OBVIOUS
      <3> HIDE DEF x2, y2
      <3>1. /\ x2.ver = [x.ver EXCEPT ![p.id] = p.ver]
            /\ x2.tomb = IF Tombstone(p) THEN x.tomb \cup {p.id} ELSE x.tomb \ {p.id}
            /\ x2.acked = IF p.cmd = NoCmd THEN x.acked ELSE x.acked \cup {p.cmd}
            /\ x2.msgs = IF p.kind = "message" THEN x.msgs \cup {p.id}
                         ELSE IF p.kind = "revoke" THEN x.msgs \ {p.id}
                         ELSE IF p.kind = "remove" THEN {} ELSE x.msgs
            /\ x2.session = IF p.kind = "session" THEN TRUE
                            ELSE IF p.kind = "remove" THEN FALSE ELSE x.session
        <4>1. x \in Locals /\ p \in Parts /\ ~Stale(x, p)
          BY <2>6, <2>7, <2>8
        <4> QED BY <3>0, <4>1, OnePart
      <3>2. /\ y2.ver = [y.ver EXCEPT ![p.id] = p.ver]
            /\ y2.tomb = IF Tombstone(p) THEN y.tomb \cup {p.id} ELSE y.tomb \ {p.id}
            /\ y2.acked = IF p.cmd = NoCmd THEN y.acked ELSE y.acked \cup {p.cmd}
            /\ y2.msgs = IF p.kind = "message" THEN y.msgs \cup {p.id}
                         ELSE IF p.kind = "revoke" THEN y.msgs \ {p.id}
                         ELSE IF p.kind = "remove" THEN {} ELSE y.msgs
            /\ y2.session = IF p.kind = "session" THEN TRUE
                            ELSE IF p.kind = "remove" THEN FALSE ELSE y.session
        <4>1. y \in Locals /\ p \in Parts /\ ~Stale(y, p)
          BY <2>6, <2>7, <2>8
        <4> QED BY <3>0, <4>1, OnePart
      <3>3. x2.ver = y2.ver
        BY <2>8, <3>1, <3>2 DEF Alike
      <3>4. x2.tomb = y2.tomb
        BY <2>8, <3>1, <3>2 DEF Alike
      <3>5. x2.acked = y2.acked
        BY <2>8, <3>1, <3>2 DEF Alike
      <3>6. x2.msgs = y2.msgs
        BY <2>8, <3>1, <3>2 DEF Alike
      <3>7. x2.session <=> y2.session
        BY <2>8, <3>1, <3>2 DEF Alike
      <3>8. Alike(x2, y2)
        BY <3>3, <3>4, <3>5, <3>6, <3>7 DEF Alike
      <3> QED BY <3>8 DEF x2, y2
    <2>10. Alike(S(k), T(k))
      BY <2>2, <2>9 DEF x, y, p
    <2> QED BY <2>1, <2>10
  <1> HIDE DEF Good
  <1>4. \A k \in from..to : k \in Good
    BY <1>1, <1>2, <1>3, CursorByCursor
  <1>5. to \in Good
    BY <1>2, <1>4
  <1> QED BY <1>5 DEF Good

=====
