---------------------- MODULE ConnectionAuthority_proofs ----------------------
(***************************************************************************)
(* Proofs about ConnectionAuthority, for any number of connections and      *)
(* nodes, crashes and failed calls.                                        *)
(***************************************************************************)
EXTENDS ConnectionAuthority, TLAPS

USE ConstantsAssumption

-----------------------------------------------------------------------------
(* Types                                                                     *)

\* A connection that was reserved knows its node, and one that replaces another knows
\* which.
Placed == {r \in Conn : /\ r.pc # "off" => r.node \in Nodes
                        /\ r.pc = "replace" => r.old \in Conns}

\* Everything but the connections.
OtherTypes ==
  /\ seq \in Nat
  /\ authority \in [node : Nodes \cup {NoNode}, epoch : Nat, active : BOOLEAN]
  /\ route \in Nodes \cup {NoNode} /\ meta \in Nat
  /\ shown \in [epoch : Nat, online : BOOLEAN] /\ client \in [epoch : Nat, online : BOOLEAN]
  /\ table \in [Nodes -> Conns \cup {NoConn}]
  /\ draining \subseteq MayDrain
  /\ faults \in 0..MaxFaults

\* The inductive invariant behind TypeOK: a connection looks its node's table up.
TypeInv == OtherTypes /\ conns \in [Conns -> Placed]

\* Nothing is connected at first.
LEMMA InitType == Init => TypeInv
  BY DEF Init, TypeInv, OtherTypes, Placed, Conn, PCs

\* The changes that the actions make to a connection that was reserved.
LEMMA Edits ==
  ASSUME NEW r \in Placed, r.pc # "off",
         NEW l \in PCs \ {"off", "replace"}
  PROVE  /\ [r EXCEPT !.pc = l] \in Placed
         /\ [r EXCEPT !.pc = l, !.closed = TRUE] \in Placed
         /\ [r EXCEPT !.pc = l, !.mu = "pc"] \in Placed
         /\ [r EXCEPT !.pc = l, !.mu = "none"] \in Placed
         /\ [r EXCEPT !.pc = l, !.old = NoConn] \in Placed
         /\ [r EXCEPT !.pc = l, !.mu = "none", !.closed = TRUE] \in Placed
         /\ [r EXCEPT !.pc = l, !.mu = "none", !.ready = TRUE] \in Placed
  BY DEF Placed, Conn

\* The changes that leave alone how far the socket is.
LEMMA SideEdits ==
  ASSUME NEW r \in Placed
  PROVE  /\ [r EXCEPT !.closed = TRUE] \in Placed
         /\ [r EXCEPT !.mu = "none", !.closed = TRUE] \in Placed
         /\ \A m \in {"none", "pc", "kick"} : [r EXCEPT !.mu = m] \in Placed
         /\ \A l \in {"off", "leave", "release", "farewell", "tellOff"} :
              [r EXCEPT !.kick = l] \in Placed
  BY DEF Placed, Conn

\* A placed connection is a connection.
LEMMA PlacedIsTyped == \A f \in [Conns -> Placed] : f \in [Conns -> Conn]
  BY DEF Placed

\* Nothing else changes about the connections when one of them does.
LEMMA Becomes ==
  ASSUME TypeInv, NEW c \in Conns, NEW r \in Placed, Become(c, r)
  PROVE  conns' \in [Conns -> Placed]
  BY DEF TypeInv, Become

\* A connection reserves its generation.
LEMMA ReserveType ==
  ASSUME TypeInv, NEW c \in Conns, NEW n \in Nodes, Reserve(c, n)
  PROVE  TypeInv'
  <1>1. seq' \in Nat
    BY DEF TypeInv, OtherTypes, Reserve
  <1>2. [conns[c] EXCEPT !.pc = "admit", !.node = n, !.epoch = seq'] \in Placed
    <2>1. conns[c] \in Placed /\ "admit" \in PCs
      BY DEF TypeInv, PCs
    <2> QED BY <1>1, <2>1 DEF Placed, Conn
  <1>3. conns' \in [Conns -> Placed]
    BY <1>2, Becomes DEF Reserve
  <1> QED BY <1>1, <1>3, PlacedIsTyped DEF TypeInv, OtherTypes, Reserve

\* The conns of a connection that comes up.
LEMMA UpConns ==
  ASSUME TypeInv, NEW c \in Conns
  PROVE  Admit(c) \/ Claim(c) \/ Commit(c) \/ Replace(c) \/ Withdraw(c)
           => conns' \in [Conns -> Placed]
  <1>0. conns[c] \in Placed
    BY DEF TypeInv
  <1>1. ASSUME conns[c].pc # "off"
        PROVE  \A l \in {"claim", "commit", "withdraw", "gone"} :
                 Goto(c, l) \/ Gone(c) => conns' \in [Conns -> Placed]
    BY <1>0, <1>1, Edits, Becomes DEF Goto, Gone, PCs
  <1>2. Admit(c) \/ Claim(c) \/ Withdraw(c) => conns' \in [Conns -> Placed]
    BY <1>1 DEF Admit, Claim, Withdraw
  <1>3. ASSUME Commit(c) PROVE conns' \in [Conns -> Placed]
    <2> DEFINE old == table[conns[c].node]
               r == [conns[c] EXCEPT !.old = old, !.pc = IF old = NoConn THEN "beat" ELSE "replace"]
    <2>1. old \in Conns \cup {NoConn}
      BY <1>0, <1>3 DEF Placed, Commit, TypeInv, OtherTypes
    <2>2. r \in Placed
      BY <1>0, <1>3, <2>1 DEF Placed, Conn, PCs, Commit
    <2> QED BY <1>1, <1>3, <2>2, Becomes DEF Commit
  <1>4. ASSUME Replace(c) PROVE conns' \in [Conns -> Placed]
    <2> DEFINE o == conns[c].old
               f == [conns EXCEPT ![c] = [conns[c] EXCEPT !.pc = "beat", !.old = NoConn]]
    <2>1. o \in Conns
      BY <1>0, <1>4 DEF Placed, Replace
    <2>2. f \in [Conns -> Placed]
      BY <1>0, <1>4, Edits DEF TypeInv, Replace, PCs
    <2>3. conns' = [f EXCEPT ![o] = [f[o] EXCEPT !.closed = TRUE]]
      BY <1>4 DEF Replace
    <2>4. [f[o] EXCEPT !.closed = TRUE] \in Placed
      BY <2>1, <2>2, SideEdits
    <2> HIDE DEF f, o
    <2> QED BY <2>2, <2>3, <2>4
  <1> QED BY <1>2, <1>3, <1>4

\* The conns of one that is up.
LEMMA LeaseConns ==
  ASSUME TypeInv, NEW c \in Conns
  PROVE  (\/ Beat(c) \/ Renew(c) \/ Meta(c) \/ Verify(c) \/ Announce(c) \/ Tell(c)
          \/ Heartbeat(c) \/ Receive(c) \/ Handle(c) \/ HangUp(c) \/ Kick(c) \/ CloseForDrain(c))
           => conns' \in [Conns -> Placed]
  <1>0. conns[c] \in Placed
    BY DEF TypeInv
  <1> DEFINE r == conns[c]
  <1>1. /\ Refused(c) \in PCs \ {"off", "replace"}
        /\ "renew" \in PCs \ {"off", "replace"} /\ "meta" \in PCs \ {"off", "replace"}
        /\ "verify" \in PCs \ {"off", "replace"} /\ "announce" \in PCs \ {"off", "replace"}
        /\ "tell" \in PCs \ {"off", "replace"} /\ "beat" \in PCs \ {"off", "replace"}
        /\ "serve" \in PCs \ {"off", "replace"} /\ "handle" \in PCs \ {"off", "replace"}
        /\ "leave" \in PCs \ {"off", "replace"}
    BY DEF Refused, PCs
  <1>2. ASSUME r.pc # "off"
        PROVE  /\ \A l \in PCs \ {"off", "replace"} : Goto(c, l) => conns' \in [Conns -> Placed]
               /\ CloseStale(c) \/ Refreshed(c) => conns' \in [Conns -> Placed]
               /\ Become(c, [r EXCEPT !.pc = "renew", !.mu = "pc"]) => conns' \in [Conns -> Placed]
               /\ Become(c, [r EXCEPT !.pc = "leave", !.closed = TRUE])
                    => conns' \in [Conns -> Placed]
    BY <1>0, <1>1, <1>2, Edits, Becomes DEF Goto, CloseStale, Refreshed
  <1>3. Beat(c) => conns' \in [Conns -> Placed]
    BY <1>1, <1>2 DEF Beat
  <1>4. Renew(c) \/ Meta(c) \/ Verify(c) => conns' \in [Conns -> Placed]
    BY <1>1, <1>2 DEF Renew, Meta, Verify
  <1>5. Announce(c) \/ Tell(c) => conns' \in [Conns -> Placed]
    BY <1>1, <1>2 DEF Announce, Tell
  <1>6. Heartbeat(c) \/ Receive(c) => conns' \in [Conns -> Placed]
    BY <1>1, <1>2 DEF Heartbeat, Receive
  <1>7. Handle(c) \/ HangUp(c) => conns' \in [Conns -> Placed]
    BY <1>1, <1>2 DEF Handle, HangUp
  <1>8. Kick(c) \/ CloseForDrain(c) => conns' \in [Conns -> Placed]
    BY <1>0, SideEdits, Becomes DEF Kick, CloseForDrain
  <1> QED BY <1>3, <1>4, <1>5, <1>6, <1>7, <1>8

\* The conns of one that goes.
LEMMA GoConns ==
  ASSUME TypeInv, NEW c \in Conns, NEW w \in {"pc", "kick"}, Leave(c, w)
  PROVE  conns' \in [Conns -> Placed]
  <1>0. conns[c] \in Placed
    BY DEF TypeInv
  <1>1. ASSUME NEW l \in {"leave", "release", "farewell", "tellOff"}, At(c, w, l)
        PROVE  /\ \A k \in {"release", "farewell", "tellOff"} : Step(c, w, k) \in Placed
               /\ [Step(c, w, "release") EXCEPT !.mu = w] \in Placed
               /\ End(c, w) => conns' \in [Conns -> Placed]
    <2>1. \A k \in {"release", "farewell", "tellOff", "gone"} :
            w = "pc" \/ k # "gone" => Step(c, w, k) \in Placed
      BY <1>0, <1>1, Edits, SideEdits DEF At, Step, PCs
    <2>2. w = "kick" => Step(c, w, "off") \in Placed
      BY <1>0, SideEdits DEF Step
    <2> QED BY <2>1, <2>2, SideEdits, Becomes DEF End
  <1> QED BY <1>1, Becomes DEF Leave, Unregister, Release, Farewell, TellOff

\* The bound on faults is kept.
LEMMA FaultsCount ==
  ASSUME OtherTypes, Fault
  PROVE  faults' \in 0..MaxFaults
  BY DEF OtherTypes, Fault

\* Steps that only move connections.
LEMMA Untouched ==
  ASSUME TypeInv, UNCHANGED <<redis, client, table, draining, faults>>
  PROVE  OtherTypes'
  BY DEF TypeInv, OtherTypes, redis

\* What the scripts write: the authority and its leases, the state and the app's copy.
AuthorityTypes ==
  /\ authority \in [node : Nodes \cup {NoNode}, epoch : Nat, active : BOOLEAN]
  /\ route \in Nodes \cup {NoNode} /\ meta \in Nat

\* Each script of Redis, and the message to the app, writes values of the right type.
LEMMA ScriptTypes ==
  ASSUME TypeInv, NEW c \in Conns
  PROVE  /\ conns[c].pc # "off" /\ TakeOver(c) => AuthorityTypes'
         /\ GiveUp(c) => AuthorityTypes'
         /\ UNCHANGED <<authority, route, meta>> => AuthorityTypes'
         /\ \A b \in BOOLEAN : Record(c, b) => shown' \in [epoch : Nat, online : BOOLEAN]
         /\ \A b \in BOOLEAN : Hear(c, b) => /\ client' \in [epoch : Nat, online : BOOLEAN]
                                            /\ faults' \in 0..MaxFaults
  <1>0. OtherTypes /\ conns[c].epoch \in Nat /\ conns[c].node \in Nodes \cup {NoNode}
    BY DEF TypeInv, Placed, Conn
  <1>1. conns[c].pc # "off" /\ TakeOver(c) => AuthorityTypes'
    BY <1>0 DEF TakeOver, AuthorityTypes
  <1>2. GiveUp(c) => AuthorityTypes'
    <2>1. ASSUME GiveUp(c), Holds(c) PROVE AuthorityTypes'
      <3>1. /\ authority' = [authority EXCEPT !.active = FALSE]
            /\ route' = NoNode \/ route' = route
            /\ meta' = 0
        BY <2>1 DEF GiveUp
      <3> QED BY <1>0, <3>1 DEF AuthorityTypes, OtherTypes
    <2>2. GiveUp(c) /\ ~Holds(c) => AuthorityTypes'
      BY <1>0 DEF GiveUp, AuthorityTypes, OtherTypes
    <2> QED BY <2>1, <2>2
  <1>3. UNCHANGED <<authority, route, meta>> => AuthorityTypes'
    BY <1>0 DEF AuthorityTypes, OtherTypes
  <1>4. \A b \in BOOLEAN : Record(c, b) => shown' \in [epoch : Nat, online : BOOLEAN]
    BY <1>0 DEF Record
  <1>5. \A b \in BOOLEAN : Hear(c, b) => /\ client' \in [epoch : Nat, online : BOOLEAN]
                                       /\ faults' \in 0..MaxFaults
    BY <1>0, FaultsCount DEF Hear, OtherTypes
  <1> QED BY <1>1, <1>2, <1>3, <1>4, <1>5

\* The other variables while a connection comes up.
LEMMA UpOthers ==
  ASSUME TypeInv, NEW c \in Conns
  PROVE  Admit(c) \/ Claim(c) \/ Commit(c) \/ Replace(c) \/ Withdraw(c) => OtherTypes'
  <1>0. /\ OtherTypes /\ conns[c].epoch \in Nat
        /\ conns[c].pc # "off" => conns[c].node \in Nodes
    BY DEF TypeInv, Placed, Conn
  <1>1. Admit(c) \/ Replace(c) => OtherTypes'
    BY Untouched DEF Admit, Replace
  <1>2. Claim(c) => OtherTypes'
    BY FaultsCount, ScriptTypes, <1>0 DEF Claim, AuthorityTypes, OtherTypes
  <1>3. Commit(c) => OtherTypes'
    BY <1>0 DEF Commit, OtherTypes, redis
  <1>4. Withdraw(c) => OtherTypes'
    BY FaultsCount, ScriptTypes, <1>0 DEF Withdraw, AuthorityTypes, OtherTypes
  <1> QED BY <1>1, <1>2, <1>3, <1>4

\* The other variables while it is up.
LEMMA LeaseOthers ==
  ASSUME TypeInv, NEW c \in Conns
  PROVE  (\/ Beat(c) \/ Renew(c) \/ Meta(c) \/ Verify(c) \/ Announce(c) \/ Tell(c)
          \/ Heartbeat(c) \/ Receive(c) \/ Handle(c) \/ HangUp(c) \/ Kick(c) \/ CloseForDrain(c))
           => OtherTypes'
  <1>0. /\ OtherTypes /\ conns[c].epoch \in Nat
        /\ conns[c].pc # "off" => conns[c].node \in Nodes
    BY DEF TypeInv, Placed, Conn
  <1>1. Beat(c) \/ Heartbeat(c) \/ Receive(c) \/ Handle(c) \/ HangUp(c) \/ Kick(c) \/ CloseForDrain(c)
          => OtherTypes'
    BY Untouched DEF Beat, Heartbeat, Receive, Handle, HangUp, Kick, CloseForDrain
  <1>2. Renew(c) \/ Meta(c) => OtherTypes'
    BY FaultsCount, <1>0 DEF Renew, Renewable, Holds, Meta, OtherTypes
  <1>3. Verify(c) => OtherTypes'
    BY FaultsCount, <1>0 DEF Verify, OtherTypes, redis
  <1>4. Announce(c) => OtherTypes'
    BY FaultsCount, ScriptTypes, <1>0 DEF Announce, OtherTypes
  <1>5. Tell(c) => OtherTypes'
    BY ScriptTypes, <1>0 DEF Tell, OtherTypes, redis
  <1> QED BY <1>1, <1>2, <1>3, <1>4, <1>5

\* The other variables while it goes.
LEMMA GoOthers ==
  ASSUME TypeInv, NEW c \in Conns, NEW w \in {"pc", "kick"}, Leave(c, w)
  PROVE  OtherTypes'
  <1>0. /\ OtherTypes /\ conns[c].epoch \in Nat
        /\ conns[c].pc # "off" => conns[c].node \in Nodes
    BY DEF TypeInv, Placed, Conn
  <1>1. CASE Unregister(c, w)
    BY <1>0, <1>1 DEF Unregister, OtherTypes, redis
  <1>3. CASE Release(c, w)
    BY <1>0, <1>3, FaultsCount, ScriptTypes DEF Release, AuthorityTypes, OtherTypes
  <1>4. CASE Farewell(c, w)
    BY <1>0, <1>4, FaultsCount, ScriptTypes DEF Farewell, OtherTypes
  <1>5. CASE TellOff(c, w)
    BY <1>0, <1>5, ScriptTypes DEF TellOff, OtherTypes, redis
  <1> QED BY <1>1, <1>3, <1>4, <1>5 DEF Leave

\* Shutdown, crash and the end of leases.
LEMMA WorldType ==
  ASSUME TypeInv
  PROVE  /\ \A n \in Nodes : BeginDrain(n) \/ Crash(n) => TypeInv'
         /\ RouteLapses \/ StateLapses \/ ClientLapses => TypeInv'
  <1>1. ASSUME NEW n \in Nodes, BeginDrain(n) PROVE TypeInv'
    BY <1>1 DEF TypeInv, OtherTypes, BeginDrain, redis
  <1>2. ASSUME NEW n \in Nodes, Crash(n) PROVE TypeInv'
    <2>1. ASSUME NEW c \in Conns, conns[c].node = n PROVE conns'[c] \in Placed
      <3>1. conns[c] \in Placed /\ "gone" \in PCs
        BY DEF TypeInv, PCs
      <3>2. [conns[c] EXCEPT !.pc = "gone", !.kick = "off", !.mu = "none", !.closed = TRUE]
              \in Placed
        BY <2>1, <3>1 DEF Placed, Conn
      <3> QED BY <1>2, <2>1, <3>2 DEF Crash
    <2>2. conns' \in [Conns -> Placed]
      BY <1>2, <2>1 DEF Crash, TypeInv
    <2>3. OtherTypes'
      BY FaultsCount, <1>2 DEF Crash, TypeInv, OtherTypes, redis
    <2> QED BY <2>2, <2>3, PlacedIsTyped DEF TypeInv
  <1>3. RouteLapses => TypeInv'
    BY DEF TypeInv, OtherTypes, RouteLapses
  <1>4. StateLapses => TypeInv'
    BY DEF TypeInv, OtherTypes, StateLapses
  <1>5. ClientLapses => TypeInv'
    BY DEF TypeInv, OtherTypes, ClientLapses, redis
  <1> QED BY <1>1, <1>2, <1>3, <1>4, <1>5

\* Every step keeps the types.
LEMMA TypeStep == TypeInv /\ [Next]_vars => TypeInv'
  <1> SUFFICES ASSUME TypeInv, [Next]_vars PROVE TypeInv' OBVIOUS
  <1>0. conns' \in [Conns -> Placed] /\ OtherTypes' => TypeInv'
    BY PlacedIsTyped DEF TypeInv
  <1>1. CASE UNCHANGED vars
    BY <1>1 DEF TypeInv, OtherTypes, vars, redis
  <1>2. ASSUME NEW c \in Conns, NEW w \in {"pc", "kick"}, Leave(c, w) PROVE TypeInv'
    BY <1>0, <1>2, GoConns, GoOthers
  <1>3. ASSUME NEW c \in Conns
        PROVE  /\ ConnStep(c) => TypeInv'
               /\ Heartbeat(c) \/ Receive(c) \/ HangUp(c) \/ Kick(c) \/ CloseForDrain(c) => TypeInv'
    <2>1. Admit(c) \/ Claim(c) \/ Commit(c) \/ Replace(c) \/ Withdraw(c) => TypeInv'
      BY <1>0, UpConns, UpOthers
    <2>2. (\/ Beat(c) \/ Renew(c) \/ Meta(c) \/ Verify(c) \/ Announce(c) \/ Tell(c)
           \/ Heartbeat(c) \/ Receive(c) \/ Handle(c) \/ HangUp(c) \/ Kick(c) \/ CloseForDrain(c))
            => TypeInv'
      BY <1>0, LeaseConns, LeaseOthers
    <2>3. Leave(c, "pc") => TypeInv'
      BY <1>2
    <2>4. ConnStep(c) => TypeInv'
      BY <2>1, <2>2, <2>3 DEF ConnStep
    <2> QED BY <2>2, <2>4
  <1>4. ASSUME NEW c \in Conns, NEW n \in Nodes, Reserve(c, n) PROVE TypeInv'
    BY <1>4, ReserveType
  <1> QED BY <1>1, <1>2, <1>3, <1>4, WorldType DEF Next

\* The inductive invariant holds for ever.
LEMMA TypeInvHolds == Spec => []TypeInv
  BY InitType, TypeStep, PTL DEF Spec

\* The types of Redis, the app, the tables and the connections hold for ever.
THEOREM TypeCorrect == Spec => []TypeOK
  <1>1. TypeInv => TypeOK
    BY PlacedIsTyped DEF TypeInv, OtherTypes, TypeOK
  <1> QED BY <1>1, TypeInvHolds, PTL

-----------------------------------------------------------------------------
(* What happens to the authority and its leases                              *)

Taken(c) == Claimable(c) /\ TakeOver(c)
Kept(c) ==
  /\ Holds(c) /\ UNCHANGED authority
  /\ \/ route' = conns[c].node /\ UNCHANGED meta
     \/ meta' = conns[c].epoch /\ UNCHANGED route
Lapsed == UNCHANGED authority /\ route' = NoNode /\ meta' = 0
Apart == UNCHANGED <<authority, route, meta>>

\* Only a claim of a larger generation, a renewal or the release by the active one, and
\* the end of its leases touch them.
LEMMA AuthorityMoves ==
  ASSUME [Next]_vars
  PROVE  Apart \/ Lapsed \/ \E c \in Conns : Taken(c) \/ Kept(c) \/ GiveUp(c)
  <1>1. ASSUME NEW c \in Conns, Claim(c) PROVE Apart \/ Taken(c)
    BY <1>1 DEF Claim, Apart, Taken
  <1>2. ASSUME NEW c \in Conns, Renew(c) \/ Meta(c) PROVE Apart \/ Kept(c)
    BY <1>2 DEF Renew, Renewable, Meta, Apart, Kept
  <1>3. ASSUME NEW c \in Conns, NEW w \in {"pc", "kick"}, Leave(c, w) PROVE Apart \/ GiveUp(c)
    BY <1>3 DEF Leave, Unregister, Release, Farewell, TellOff, Apart, redis
  <1>4. ASSUME NEW c \in Conns, Withdraw(c) PROVE Apart \/ GiveUp(c)
    BY <1>4 DEF Withdraw, Apart
  <1>5. ASSUME NEW c \in Conns,
               \/ Admit(c) \/ Commit(c) \/ Replace(c) \/ Beat(c) \/ Verify(c) \/ Announce(c)
               \/ Tell(c) \/ Handle(c) \/ Heartbeat(c) \/ Receive(c) \/ HangUp(c) \/ Kick(c)
               \/ CloseForDrain(c)
        PROVE  Apart
    BY <1>5 DEF Admit, Commit, Replace, Beat, Verify, Announce, Tell, Handle, Heartbeat, Receive,
                HangUp, Kick, CloseForDrain, Apart, redis
  <1>6. ASSUME NEW c \in Conns, NEW n \in Nodes, Reserve(c, n) PROVE Apart
    BY <1>6 DEF Reserve, Apart
  <1>7. ASSUME NEW n \in Nodes, BeginDrain(n) \/ Crash(n) PROVE Apart
    BY <1>7 DEF BeginDrain, Crash, Apart, redis
  <1>8. RouteLapses \/ StateLapses \/ ClientLapses => Apart \/ Lapsed
    BY DEF RouteLapses, StateLapses, ClientLapses, Apart, Lapsed, redis
  <1>9. UNCHANGED vars => Apart
    BY DEF vars, redis, Apart
  <1>10. ASSUME NEW c \in Conns, ConnStep(c) PROVE Apart \/ Taken(c) \/ Kept(c) \/ GiveUp(c)
    BY <1>1, <1>2, <1>3, <1>4, <1>5, <1>10 DEF ConnStep
  <1> QED BY <1>3, <1>5, <1>6, <1>7, <1>8, <1>9, <1>10 DEF Next

\* Every step keeps the leases with the authority.
LEMMA LeasesStep ==
  ASSUME TypeInv, LeasesFollowAuthority, [Next]_vars
  PROVE  LeasesFollowAuthority'
  <1>0. authority \in [node : Nodes \cup {NoNode}, epoch : Nat, active : BOOLEAN]
    BY DEF TypeInv, OtherTypes
  <1>1. CASE Apart \/ Lapsed
    BY <1>1 DEF Apart, Lapsed, LeasesFollowAuthority
  <1>2. ASSUME NEW c \in Conns, Taken(c) PROVE LeasesFollowAuthority'
    BY <1>2 DEF Taken, TakeOver, LeasesFollowAuthority
  <1>3. ASSUME NEW c \in Conns, Kept(c) PROVE LeasesFollowAuthority'
    BY <1>3 DEF Kept, Holds, LeasesFollowAuthority
  <1>4. ASSUME NEW c \in Conns, GiveUp(c) PROVE LeasesFollowAuthority'
    <2>1. CASE Holds(c)
      <3>1. authority.node = conns[c].node
        BY <2>1 DEF Holds
      <3>2. route' = NoNode /\ meta' = 0
        BY <1>4, <2>1, <3>1 DEF GiveUp, LeasesFollowAuthority
      <3> QED BY <3>2 DEF LeasesFollowAuthority
    <2>2. CASE ~Holds(c)
      BY <1>4, <2>2 DEF GiveUp, LeasesFollowAuthority
    <2> QED BY <2>1, <2>2
  <1> QED BY <1>1, <1>2, <1>3, <1>4, AuthorityMoves

\* Whatever stale heartbeats, releases and crashes happen, the route and the metadata
\* are those of the generation that the authority hash names.
THEOREM LeasesFollow == Spec => []LeasesFollowAuthority
  <1>1. Init => LeasesFollowAuthority
    BY DEF Init, LeasesFollowAuthority
  <1>2. TypeInv /\ LeasesFollowAuthority /\ [Next]_vars => LeasesFollowAuthority'
    BY LeasesStep
  <1> QED BY <1>1, <1>2, TypeInvHolds, PTL DEF Spec

\* A generation that released the authority or lost it never has it again.
LEMMA NoResurrection ==
  ASSUME TypeInv, [Next]_vars
  PROVE  /\ authority'.epoch >= authority.epoch
         /\ authority'.epoch = authority.epoch /\ authority'.active => authority.active
  <1>0. /\ authority \in [node : Nodes \cup {NoNode}, epoch : Nat, active : BOOLEAN]
        /\ \A c \in Conns : conns[c].epoch \in Nat
    BY DEF TypeInv, OtherTypes, Placed, Conn
  <1>1. CASE Apart \/ Lapsed
    BY <1>0, <1>1 DEF Apart, Lapsed
  <1>2. ASSUME NEW c \in Conns, Taken(c)
        PROVE  authority'.epoch \in Nat /\ authority'.epoch > authority.epoch
    BY <1>0, <1>2 DEF Taken, Claimable, TakeOver
  <1>3. ASSUME NEW c \in Conns, Kept(c) PROVE authority' = authority
    BY <1>3 DEF Kept
  <1>4. ASSUME NEW c \in Conns, GiveUp(c)
        PROVE  authority'.epoch = authority.epoch /\ (authority'.active => authority.active)
    BY <1>0, <1>4 DEF GiveUp
  <1> QED BY <1>0, <1>1, <1>2, <1>3, <1>4, AuthorityMoves

\* "An old TCP connection must not be able to resurrect."
THEOREM NeverResurrects == Spec => NeverResurrected
  <1>1. TypeInv /\ [Next]_vars =>
          [/\ authority'.epoch >= authority.epoch
           /\ authority'.epoch = authority.epoch /\ authority'.active => authority.active]_vars
    BY NoResurrection
  <1> QED BY <1>1, TypeInvHolds, PTL DEF Spec, NeverResurrected

-----------------------------------------------------------------------------
(* The newest connection is the one that is served: the invariant behind    *)
(* NewestServed and ReplacesOlder                                            *)

\* How far a socket is: before its claim, between claim and table, served, gone.
Up == {"replace", "beat", "renew", "meta", "verify", "announce", "tell", "serve", "handle", "leave"}
Going == {"release", "farewell", "tellOff"}

InTable(c) == conns[c].node \in Nodes /\ table[conns[c].node] = c

\* It may still write to Redis or to the app.
Claimed(c) == conns[c].pc \notin {"off", "admit", "claim", "gone"} \/ conns[c].kick # "off"

\* Generations are given once, and none is shown that was not claimed.
Numbered ==
  /\ authority.epoch <= seq
  /\ \A c \in Conns : /\ conns[c].epoch <= seq
                      /\ IF conns[c].pc = "off" THEN conns[c].node \notin Nodes
                         ELSE conns[c].epoch > 0
                      /\ Claimed(c) => conns[c].epoch <= authority.epoch
  /\ \A c, d \in Conns : conns[c].epoch = conns[d].epoch /\ conns[c].epoch > 0 => c = d
  /\ shown.epoch <= authority.epoch /\ client.epoch <= authority.epoch

\* The table of a node holds connections of that node which are served.
Tabled ==
  \A c \in Conns :
    /\ \A n \in Nodes : table[n] = c => conns[c].node = n /\ conns[c].pc \in Up
    /\ conns[c].kick \in Going => ~InTable(c)
    /\ conns[c].kick # "off" => conns[c].pc \in Up \cup Going \cup {"gone"}

\* attachMu: one connection of a node at a time is between its claim and the table, it is
\* the newest of the node, and not served yet.
Between == {"commit", "withdraw", "replace"}
Attached ==
  /\ \A c, d \in Conns : /\ conns[c].pc \in Between /\ conns[d].pc \in Between
                         /\ conns[c].node = conns[d].node
                         => c = d
  /\ ReplacesOlder
  /\ \A c \in Conns : conns[c].ready => conns[c].pc \notin {"off", "admit", "claim", "commit"}

\* While the newest generation is in the table, or about to be, nobody takes the authority
\* or the route from it.
Held ==
  \A c \in Conns :
    (InTable(c) \/ conns[c].pc = "commit") /\ conns[c].epoch = authority.epoch
      => Holds(c) /\ route = conns[c].node

\* What has been recorded, and told to the app, of the newest generation, unless that may
\* fail.
Told ==
  MayMissState \/ \A c \in Conns :
    InTable(c) /\ conns[c].epoch = authority.epoch =>
      LET on == [epoch |-> conns[c].epoch, online |-> TRUE] IN
      /\ conns[c].pc = "tell" => shown = on
      /\ conns[c].ready => shown = on /\ client = on

-----------------------------------------------------------------------------
(* What a step leaves of the connections                                     *)

\* The part of a connection that the invariant looks at.
SameView(r, d) ==
  /\ r.pc = conns[d].pc /\ r.kick = conns[d].kick /\ r.node = conns[d].node
  /\ r.epoch = conns[d].epoch /\ r.ready = conns[d].ready

\* Only c changes, and keeps its node and its generation.
Only(c) ==
  /\ conns'[c].node = conns[c].node /\ conns'[c].epoch = conns[c].epoch
  /\ \A d \in Conns \ {c} : SameView(conns'[d], d)

\* The socket of c moves to l, or its kick does.
Moved(c, l) ==
  /\ Only(c) /\ conns'[c].ready = conns[c].ready
  /\ conns'[c].pc = l /\ conns'[c].kick = conns[c].kick
KickMoved(c, l) ==
  /\ Only(c) /\ conns'[c].ready = conns[c].ready
  /\ conns'[c].pc = conns[c].pc /\ conns'[c].kick = l

LEMMA BecomesOnly ==
  ASSUME TypeInv, NEW c \in Conns, NEW r, Become(c, r),
         r.node = conns[c].node, r.epoch = conns[c].epoch
  PROVE  Only(c) /\ conns'[c] = r
  BY DEF TypeInv, Become, Only, SameView

\* The edits that the actions make.
LEMMA Edited ==
  ASSUME TypeInv, NEW c \in Conns, NEW l
  PROVE  /\ Goto(c, l) => Moved(c, l)
         /\ Gone(c) => Moved(c, "gone")
         /\ CloseStale(c) => Moved(c, Refused(c))
         /\ Become(c, [conns[c] EXCEPT !.pc = "renew", !.mu = "pc"]) => Moved(c, "renew")
         /\ Become(c, [conns[c] EXCEPT !.pc = "leave", !.closed = TRUE]) => Moved(c, "leave")
         /\ Become(c, [conns[c] EXCEPT !.kick = "leave"]) => KickMoved(c, "leave")
  <1> conns[c] \in Placed
    BY DEF TypeInv
  <1> USE DEF Become, TypeInv, Placed, Conn, Moved, Only, SameView
  <1>1. Goto(c, l) => Moved(c, l)
    BY DEF Goto
  <1>2. Gone(c) => Moved(c, "gone")
    BY DEF Gone
  <1>3. CloseStale(c) => Moved(c, Refused(c))
    BY DEF CloseStale
  <1>4. Become(c, [conns[c] EXCEPT !.pc = "renew", !.mu = "pc"]) => Moved(c, "renew")
    OBVIOUS
  <1>5. Become(c, [conns[c] EXCEPT !.pc = "leave", !.closed = TRUE]) => Moved(c, "leave")
    OBVIOUS
  <1>6. Become(c, [conns[c] EXCEPT !.kick = "leave"]) => KickMoved(c, "leave")
    BY DEF KickMoved
  <1> QED BY <1>1, <1>2, <1>3, <1>4, <1>5, <1>6

\* The edits of a connection that goes.
LEMMA EditedGoing ==
  ASSUME TypeInv, NEW c \in Conns, NEW w \in {"pc", "kick"}, NEW l
  PROVE  /\ End(c, w) => IF w = "pc" THEN Moved(c, "gone") ELSE KickMoved(c, "off")
         /\ Become(c, Step(c, w, l)) => IF w = "pc" THEN Moved(c, l) ELSE KickMoved(c, l)
         /\ Become(c, [Step(c, w, l) EXCEPT !.mu = w])
              => IF w = "pc" THEN Moved(c, l) ELSE KickMoved(c, l)
  <1> conns[c] \in Placed
    BY DEF TypeInv
  <1> USE DEF Become, TypeInv, Placed, Conn, Moved, KickMoved, Only, SameView, Step
  <1>1. End(c, w) => IF w = "pc" THEN Moved(c, "gone") ELSE KickMoved(c, "off")
    BY DEF End
  <1>2. Become(c, Step(c, w, l)) => IF w = "pc" THEN Moved(c, l) ELSE KickMoved(c, l)
    OBVIOUS
  <1>3. Become(c, [Step(c, w, l) EXCEPT !.mu = w])
          => IF w = "pc" THEN Moved(c, l) ELSE KickMoved(c, l)
    OBVIOUS
  <1> QED BY <1>1, <1>2, <1>3

\* What TypeInv says of the fields that are compared.
Ranges ==
  /\ seq \in Nat /\ authority.epoch \in Nat /\ shown.epoch \in Nat /\ client.epoch \in Nat
  /\ table \in [Nodes -> Conns \cup {NoConn}]
  /\ \A c \in Conns : /\ conns[c].epoch \in Nat
                      /\ conns[c].pc # "off" => conns[c].node \in Nodes

LEMMA TypesRange == TypeInv => Ranges
  BY DEF TypeInv, OtherTypes, Placed, Conn, Ranges

\* The invariant but for the types.
Order == Numbered /\ Tabled /\ Attached /\ Held /\ Told

\* Two connections of the newest generation are the same.
LEMMA NewestIsOne ==
  ASSUME Ranges, Numbered, NEW c \in Conns, NEW d \in Conns,
         conns[d].pc # "off", conns[c].epoch = conns[d].epoch
  PROVE  c = d
  BY DEF Ranges, Numbered

-----------------------------------------------------------------------------
(* Steps of a connection that is served                                      *)

\* c stays in the table if it is there, and leaves alone what is shown. Only the active
\* generation writes the route.
Within(c) ==
  /\ Only(c) /\ conns'[c].ready = conns[c].ready
  /\ UNCHANGED <<seq, authority, shown, client, table>>
  /\ route' = route \/ (route' = conns[c].node /\ Holds(c))
  /\ \/ conns'[c].pc = conns[c].pc
     \/ conns[c].pc \in Up /\ conns'[c].pc \in Up \ {"tell", "replace"}
  /\ \/ conns'[c].kick = conns[c].kick
     \/ conns[c].kick = "off" /\ conns'[c].kick = "leave" /\ conns[c].pc \in Up

LEMMA WithinKeeps ==
  ASSUME Ranges, Order, NEW c \in Conns, Within(c)
  PROVE  Order'
  <1> USE DEF Only, SameView
  <1>1. Numbered'
    BY DEF Order, Numbered, Claimed, Within, Up
  <1>2. Tabled'
    BY DEF Order, Tabled, InTable, Within, Up, Going
  <1>3. Attached'
    BY DEF Order, Attached, ReplacesOlder, Between, Within, Up, Ranges
  <1>4. Held'
    <2> SUFFICES ASSUME NEW d \in Conns, InTable(d)' \/ conns'[d].pc = "commit",
                        conns'[d].epoch = authority'.epoch
                 PROVE  Holds(d)' /\ route' = conns'[d].node
      BY DEF Held
    <2>1. conns'[d].node = conns[d].node /\ conns'[d].epoch = conns[d].epoch
      BY DEF Within
    <2>2. InTable(d) \/ conns[d].pc = "commit"
      BY <2>1 DEF InTable, Within, Up
    <2>3. Holds(d) /\ route = conns[d].node
      BY <2>1, <2>2 DEF Order, Held, Within
    <2>4. Holds(d)'
      BY <2>1, <2>3 DEF Holds, Within
    <2>5. route' = conns'[d].node
      BY <2>1, <2>3 DEF Holds, Within
    <2> QED BY <2>4, <2>5
  <1>5. Told'
    BY DEF Order, Told, InTable, Within, Up
  <1> QED BY <1>1, <1>2, <1>3, <1>4, <1>5 DEF Order

-----------------------------------------------------------------------------
(* Steps of a connection that is not, or no longer, in the table             *)

\* c may give the authority up, and record a state that the newest one has not
\* overtaken.
Fades(c) ==
  /\ Only(c) /\ conns'[c].ready = conns[c].ready /\ ~InTable(c) /\ conns[c].pc # "off"
  /\ UNCHANGED <<seq, table>>
  /\ \/ UNCHANGED <<authority, route>>
     \/ GiveUp(c) /\ conns[c].pc # "commit"
  /\ \/ conns'[c].pc = conns[c].pc
     \/ conns'[c].pc = "gone"
     \/ conns[c].pc = "admit" /\ conns'[c].pc = "claim"
     \/ conns[c].pc = "commit" /\ conns'[c].pc = "withdraw"
     \/ conns[c].pc \in Going /\ conns'[c].pc \in Going
  /\ \/ conns'[c].kick = conns[c].kick
     \/ conns[c].kick # "off" /\ conns'[c].kick \in Going \cup {"off"}
  /\ \/ UNCHANGED shown
     \/ Claimed(c) /\ Accepts(c) /\ shown'.epoch = conns[c].epoch
  /\ \/ UNCHANGED client
     \/ Claimed(c) /\ conns[c].epoch >= client.epoch /\ client'.epoch = conns[c].epoch

LEMMA FadesKeeps ==
  ASSUME TypeInv, Ranges, Order, NEW c \in Conns, Fades(c)
  PROVE  Order'
  <1> USE DEF Only, SameView
  <1>0. authority'.epoch = authority.epoch
    BY DEF Fades, GiveUp, TypeInv, OtherTypes
  <1>1. Numbered'
    <2>1. \A d \in Conns : /\ conns'[d].epoch = conns[d].epoch
                           /\ conns'[d].node = conns[d].node
                           /\ (conns'[d].pc = "off" <=> conns[d].pc = "off")
                           /\ (Claimed(d)' => Claimed(d))
      BY DEF Claimed, Fades, Going
    <2>2. shown'.epoch <= authority.epoch /\ client'.epoch <= authority.epoch
      BY DEF Order, Numbered, Fades
    <2> QED BY <1>0, <2>1, <2>2 DEF Order, Numbered, Fades
  <1>2. Tabled'
    BY DEF Order, Tabled, InTable, Fades, Up, Going, Ranges
  <1>3. Attached'
    BY DEF Order, Attached, ReplacesOlder, Between, Fades, Going, Ranges
  <1>4. Held'
    <2> SUFFICES ASSUME NEW d \in Conns, InTable(d)' \/ conns'[d].pc = "commit",
                        conns'[d].epoch = authority'.epoch
                 PROVE  Holds(d)' /\ route' = conns'[d].node
      BY DEF Held
    <2>1. conns'[d].node = conns[d].node /\ conns'[d].epoch = conns[d].epoch
      BY DEF Fades
    <2>2. (InTable(d) \/ conns[d].pc = "commit") /\ conns[d].pc # "off"
      BY <2>1 DEF InTable, Fades, Going, Order, Tabled, Up
    <2>3. Holds(d) /\ route = conns[d].node
      BY <1>0, <2>1, <2>2 DEF Order, Held
    <2>4. d # c \/ conns[c].pc = "commit"
      BY <2>2 DEF Fades
    <2>5. Holds(c) => c = d
      BY <2>2, <2>3, NewestIsOne DEF Holds, Order
    <2>6. UNCHANGED <<authority, route>>
      BY <2>4, <2>5 DEF Fades, GiveUp
    <2> QED BY <2>1, <2>3, <2>6 DEF Holds
  <1>5. Told'
    <2> SUFFICES ASSUME ~MayMissState,
                        NEW d \in Conns, InTable(d)', conns'[d].epoch = authority'.epoch
                 PROVE  LET on == [epoch |-> conns'[d].epoch, online |-> TRUE] IN
                        /\ conns'[d].pc = "tell" => shown' = on
                        /\ conns'[d].ready => shown' = on /\ client' = on
      BY DEF Told
    <2> DEFINE on == [epoch |-> conns[d].epoch, online |-> TRUE]
    <2>1. d # c /\ InTable(d) /\ conns[d].epoch = authority.epoch
      BY <1>0 DEF InTable, Fades
    <2>2. SameView(conns'[d], d)
      BY <2>1 DEF Fades
    <2>3. conns[d].pc # "off"
      BY <2>1 DEF InTable, Order, Tabled, Up
    <2>4. Claimed(c) => conns[c].epoch < conns[d].epoch
      BY <2>1, <2>3, NewestIsOne DEF Order, Numbered, Ranges
    <2>5. shown.epoch = conns[d].epoch => UNCHANGED shown
      BY <2>4 DEF Fades, Accepts, Ranges
    <2>6. client.epoch = conns[d].epoch => UNCHANGED client
      BY <2>4 DEF Fades, Ranges
    <2>7. /\ conns[d].pc = "tell" => shown = on
          /\ conns[d].ready => shown = on /\ client = on
      BY <2>1 DEF Order, Told
    <2> QED BY <2>2, <2>5, <2>6, <2>7
  <1> QED BY <1>1, <1>2, <1>3, <1>4, <1>5 DEF Order

-----------------------------------------------------------------------------
(* A connection reserves, claims, enters the table and leaves it             *)

LEMMA ReserveKeeps ==
  ASSUME TypeInv, Ranges, Order, NEW c \in Conns, NEW n \in Nodes, Reserve(c, n)
  PROVE  Order'
  <1> DEFINE r == [conns[c] EXCEPT !.pc = "admit", !.node = n, !.epoch = seq']
  <1>1. /\ r.pc = "admit" /\ r.node = n /\ r.epoch = seq' /\ r.kick = conns[c].kick
        /\ r.ready = conns[c].ready
    BY DEF TypeInv, Placed, Conn
  <1>2. conns'[c] = r /\ \A d \in Conns \ {c} : conns'[d] = conns[d]
    BY DEF Reserve, Become, TypeInv
  <1> HIDE DEF r
  <1>3. /\ conns[c].pc = "off" /\ seq' \in Nat /\ seq' > seq
        /\ UNCHANGED <<authority, route, shown, client, table>>
    BY DEF Reserve, Ranges
  <1>4. conns[c].kick = "off" /\ ~conns[c].ready /\ \A m \in Nodes : table[m] # c
    BY <1>3 DEF Order, Tabled, Attached, Up, Going
  <1>5. Numbered'
    BY <1>1, <1>2, <1>3, <1>4 DEF Order, Numbered, Claimed, Ranges
  <1>6. Tabled'
    BY <1>1, <1>2, <1>3, <1>4 DEF Order, Tabled, InTable, Going
  <1>7. Attached'
    <2>1. \A m \in Conns : table[m] # c \/ m \notin Nodes
      BY <1>4
    <2> QED BY <1>1, <1>2, <1>3, <1>4 DEF Order, Attached, ReplacesOlder, Between, Ranges
  <1>8. Held'
    BY <1>1, <1>2, <1>3, <1>4 DEF Order, Held, InTable, Holds
  <1>9. Told'
    BY <1>1, <1>2, <1>3, <1>4 DEF Order, Told, InTable
  <1> QED BY <1>5, <1>6, <1>7, <1>8, <1>9 DEF Order

\* The claim of the largest generation so far: its answer may be lost.
Takes(c) ==
  /\ Only(c) /\ TakeOver(c) /\ Claimable(c) /\ UNCHANGED <<seq, shown, client, table>>
  /\ conns[c].pc = "claim" /\ ~Attaching(conns[c].node)
  /\ conns'[c].pc \in {"commit", "gone"} /\ conns'[c].kick = conns[c].kick
  /\ conns'[c].ready = conns[c].ready

LEMMA TakesKeeps ==
  ASSUME TypeInv, Ranges, Order, NEW c \in Conns, Takes(c)
  PROVE  Order'
  <1> USE DEF Only, SameView
  <1>0. /\ authority'.epoch = conns[c].epoch /\ authority.epoch < conns[c].epoch
        /\ route' = conns[c].node /\ conns[c].node \in Nodes
    BY DEF Takes, TakeOver, Claimable, Ranges
  <1>1. \A n \in Nodes : table[n] # c
    BY DEF Takes, Order, Tabled, Up
  <1>2. \A d \in Conns : Claimed(d) => conns[d].epoch < conns[c].epoch
    BY <1>0 DEF Order, Numbered, Ranges
  <1>3. Numbered'
    BY <1>0 DEF Order, Numbered, Claimed, Takes, Ranges
  <1>4. Tabled'
    BY <1>1 DEF Order, Tabled, InTable, Takes, Up, Going
  <1>5. Attached'
    <2>1. \A d, e \in Conns : /\ conns'[d].pc \in Between /\ conns'[e].pc \in Between
                              /\ conns'[d].node = conns'[e].node
                              => d = e
      BY DEF Order, Attached, Takes, Attaching, Between
    <2>2. ReplacesOlder'
      <3> SUFFICES ASSUME NEW d \in Conns, conns'[d].pc = "commit",
                          table'[conns'[d].node] # NoConn
                   PROVE  LET o == table'[conns'[d].node] IN conns'[o].epoch < conns'[d].epoch
        BY DEF ReplacesOlder
      <3> DEFINE o == table[conns[d].node]
      <3>1. conns'[d].node = conns[d].node /\ conns[d].node \in Nodes /\ o \in Conns
        BY DEF Takes, Ranges
      <3>2. conns[o].pc \in Up /\ Claimed(o) /\ o # c
        BY <1>1, <3>1 DEF Order, Tabled, Claimed, Up
      <3>3. CASE d = c
        BY <1>2, <3>1, <3>2, <3>3 DEF Takes
      <3>4. CASE d # c
        BY <3>1, <3>2, <3>4 DEF Takes, Order, Attached, ReplacesOlder
      <3> QED BY <3>3, <3>4
    <2>3. \A d \in Conns : conns'[d].ready => conns'[d].pc \notin {"off", "admit", "claim", "commit"}
      BY DEF Order, Attached, Takes
    <2> QED BY <2>1, <2>2, <2>3 DEF Attached
  <1>6. \A d \in Conns : (InTable(d)' \/ conns'[d].pc = "commit") /\ d # c
                          => conns[d].epoch < conns[c].epoch
    BY <1>2 DEF Takes, InTable, Order, Tabled, Up, Claimed
  <1>7. Held'
    <2>1. \A d \in Conns : (InTable(d)' \/ conns'[d].pc = "commit") /\ conns'[d].epoch = authority'.epoch
            => d = c
      BY <1>0, <1>6 DEF Takes, Ranges
    <2>2. Holds(c)'
      BY DEF Takes, TakeOver, Holds
    <2>3. route' = conns'[c].node
      BY <1>0 DEF Takes
    <2> QED BY <2>1, <2>2, <2>3 DEF Held
  <1>8. Told'
    <2>1. \A d \in Conns : InTable(d)' => conns'[d].epoch # authority'.epoch
      BY <1>0, <1>1, <1>6 DEF Takes, InTable, Ranges
    <2> QED BY <2>1 DEF Told
  <1> QED BY <1>3, <1>4, <1>5, <1>7, <1>8 DEF Order

\* After the claim, into the table.
Enters(c) ==
  /\ Only(c) /\ conns'[c].ready = conns[c].ready /\ conns'[c].kick = conns[c].kick
  /\ conns[c].pc = "commit" /\ conns'[c].pc \in {"beat", "replace"}
  /\ table' = [table EXCEPT ![conns[c].node] = c]
  /\ UNCHANGED <<seq, authority, route, shown, client>>

LEMMA EntersKeeps ==
  ASSUME Ranges, Order, NEW c \in Conns, Enters(c)
  PROVE  Order'
  <1> USE DEF Only, SameView
  <1>1. Numbered'
    BY DEF Order, Numbered, Claimed, Enters
  <1>2. conns[c].node \in Nodes /\ conns[c].kick = "off" /\ ~conns[c].ready
    BY DEF Enters, Ranges, Order, Tabled, Attached, Up, Going
  <1>3. \A d \in Conns, n \in Nodes :
          table'[n] = d => IF d = c THEN n = conns[c].node ELSE table[n] = d
    BY <1>2 DEF Enters, Ranges, Order, Tabled, Up
  <1>4. Tabled'
    BY <1>2, <1>3 DEF Order, Tabled, InTable, Enters, Up, Going
  <1>5. Attached'
    <2>1. \A d \in Conns : conns'[d].pc = "commit" =>
            /\ d # c /\ conns[d].pc = "commit" /\ conns[d].node # conns[c].node
            /\ conns'[d].node = conns[d].node /\ conns[d].node \in Nodes
      BY DEF Order, Attached, Between, Enters, Ranges
    <2>2. ReplacesOlder'
      BY <1>2, <2>1 DEF Order, Attached, ReplacesOlder, Enters, Ranges
    <2> QED BY <1>2, <2>2 DEF Order, Attached, Between, Enters
  <1>6. Held'
    <2> SUFFICES ASSUME NEW d \in Conns, InTable(d)' \/ conns'[d].pc = "commit",
                        conns'[d].epoch = authority'.epoch
                 PROVE  Holds(d)' /\ route' = conns'[d].node
      BY DEF Held
    <2>1. InTable(d) \/ conns[d].pc = "commit"
      BY <1>3 DEF InTable, Enters
    <2> QED BY <2>1 DEF Order, Held, Holds, Enters
  <1>7. Told'
    BY <1>2, <1>3 DEF Order, Told, InTable, Enters
  <1> QED BY <1>1, <1>4, <1>5, <1>6, <1>7 DEF Order

\* Out of the table.
Quits(c) ==
  /\ Only(c) /\ conns'[c].ready = conns[c].ready
  /\ InTable(c) /\ table' = [table EXCEPT ![conns[c].node] = NoConn]
  /\ UNCHANGED <<seq, authority, route, shown, client>>
  /\ \/ conns[c].pc = "leave" /\ conns'[c].pc = "release" /\ conns'[c].kick = conns[c].kick
     \/ conns[c].kick = "leave" /\ conns'[c].kick = "release" /\ conns'[c].pc = conns[c].pc

LEMMA QuitsKeeps ==
  ASSUME Ranges, Order, NEW c \in Conns, Quits(c)
  PROVE  Order'
  <1> USE DEF Only, SameView
  <1>1. Numbered'
    BY DEF Order, Numbered, Claimed, Quits
  <1>2. \A d \in Conns, n \in Nodes : table'[n] = d => d # c /\ table[n] = d
    BY DEF Quits, Ranges, Order, Tabled, InTable
  <1>3. Tabled'
    BY <1>2 DEF Order, Tabled, InTable, Quits, Up, Going
  <1>4. Attached'
    <2>1. \A d \in Conns : conns'[d].pc = "commit" => conns[d].pc = "commit"
      BY DEF Quits
    <2>2. \A n \in Nodes : table'[n] # NoConn => table'[n] = table[n]
      BY DEF Quits, Ranges, InTable
    <2>3. ReplacesOlder'
      BY <2>1, <2>2 DEF Order, Attached, ReplacesOlder, Quits, Ranges
    <2> QED BY <2>3 DEF Order, Attached, Between, Quits
  <1>5. Held'
    <2> SUFFICES ASSUME NEW d \in Conns, InTable(d)' \/ conns'[d].pc = "commit",
                        conns'[d].epoch = authority'.epoch
                 PROVE  Holds(d)' /\ route' = conns'[d].node
      BY DEF Held
    <2>1. InTable(d) \/ conns[d].pc = "commit"
      BY <1>2 DEF InTable, Quits
    <2> QED BY <2>1 DEF Order, Held, Holds, Quits
  <1>6. Told'
    BY <1>2 DEF Order, Told, InTable, Quits
  <1> QED BY <1>1, <1>3, <1>4, <1>5, <1>6 DEF Order

-----------------------------------------------------------------------------
(* The state is recorded and told                                            *)

On(c) == [epoch |-> conns[c].epoch, online |-> TRUE]
Shows(c) ==
  /\ Only(c) /\ conns'[c].kick = conns[c].kick
  /\ UNCHANGED <<seq, authority, route, table>>
  /\ \/ /\ conns[c].pc = "announce" /\ conns'[c].pc = "tell" /\ conns'[c].ready = conns[c].ready
        /\ Accepts(c) /\ shown' = On(c) /\ UNCHANGED client
     \/ /\ conns[c].pc = "announce" /\ conns'[c].pc = "serve" /\ conns'[c].ready = TRUE
        /\ ~Accepts(c) \/ MayMissState
        /\ UNCHANGED <<shown, client>>
     \/ /\ conns[c].pc = "tell" /\ conns'[c].pc = "serve" /\ conns'[c].ready = TRUE
        /\ UNCHANGED shown
        /\ \/ client' = IF conns[c].epoch < client.epoch THEN client ELSE On(c)
           \/ MayMissState /\ UNCHANGED client

LEMMA ShowsKeeps ==
  ASSUME Ranges, Order, NEW c \in Conns, Shows(c)
  PROVE  Order'
  <1> USE DEF Only, SameView
  <1>1. Claimed(c) /\ conns[c].epoch <= authority.epoch
    BY DEF Order, Numbered, Claimed, Shows
  <1>2. Numbered'
    BY <1>1 DEF Order, Numbered, Claimed, Shows, On
  <1>3. Tabled'
    BY DEF Order, Tabled, InTable, Shows, Up, Going
  <1>4. Attached'
    BY DEF Order, Attached, ReplacesOlder, Between, Shows, Ranges
  <1>5. Held'
    <2> SUFFICES ASSUME NEW d \in Conns, InTable(d)' \/ conns'[d].pc = "commit",
                        conns'[d].epoch = authority'.epoch
                 PROVE  Holds(d)' /\ route' = conns'[d].node
      BY DEF Held
    <2>1. InTable(d) \/ conns[d].pc = "commit"
      BY DEF InTable, Shows
    <2> QED BY <2>1 DEF Order, Held, Holds, Shows
  <1>6. Told'
    <2> SUFFICES ASSUME ~MayMissState,
                        NEW d \in Conns, InTable(d)', conns'[d].epoch = authority'.epoch
                 PROVE  LET on == [epoch |-> conns'[d].epoch, online |-> TRUE] IN
                        /\ conns'[d].pc = "tell" => shown' = on
                        /\ conns'[d].ready => shown' = on /\ client' = on
      BY DEF Told
    <2>1. /\ InTable(d) /\ conns[d].epoch = authority.epoch
          /\ conns'[d].epoch = conns[d].epoch
      BY DEF InTable, Shows
    <2>2. /\ conns[d].pc = "tell" => shown = On(d)
          /\ conns[d].ready => shown = On(d) /\ client = On(d)
      BY <2>1 DEF Order, Told, On
    <2>3. CASE d = c
      <3>1. Accepts(c) /\ ~(conns[c].epoch < client.epoch)
        BY <2>1, <2>3 DEF Accepts, Order, Numbered, Ranges
      <3> QED BY <2>1, <2>2, <2>3, <3>1 DEF Shows, On
    <2>4. CASE d # c
      <3>1. conns[d].pc # "off"
        BY <2>1 DEF InTable, Order, Tabled, Up
      <3>2. conns[c].epoch < conns[d].epoch
        BY <1>1, <2>1, <2>4, <3>1, NewestIsOne DEF Order, Ranges
      <3>3. shown.epoch = conns[d].epoch => UNCHANGED shown
        BY <3>2 DEF Shows, Accepts, Ranges
      <3>4. client.epoch = conns[d].epoch => UNCHANGED client
        BY <3>2 DEF Shows, Ranges
      <3>5. conns'[d].pc = conns[d].pc /\ conns'[d].ready = conns[d].ready
        BY <2>4 DEF Shows
      <3> QED BY <2>1, <2>2, <3>3, <3>4, <3>5 DEF On
    <2> QED BY <2>3, <2>4
  <1> QED BY <1>2, <1>3, <1>4, <1>5, <1>6 DEF Order

-----------------------------------------------------------------------------
(* Crashes, leases and the rest of the world                                 *)

LEMMA CrashKeeps ==
  ASSUME TypeInv, Ranges, Order, NEW n \in Nodes, Crash(n)
  PROVE  Order'
  <1>1. \A d \in Conns :
          /\ conns'[d].node = conns[d].node /\ conns'[d].epoch = conns[d].epoch
          /\ conns'[d].ready = conns[d].ready
          /\ IF conns[d].node = n THEN conns'[d].pc = "gone" /\ conns'[d].kick = "off"
             ELSE conns'[d].pc = conns[d].pc /\ conns'[d].kick = conns[d].kick
    <2> SUFFICES ASSUME NEW d \in Conns
                 PROVE  /\ conns'[d].node = conns[d].node /\ conns'[d].epoch = conns[d].epoch
                        /\ conns'[d].ready = conns[d].ready
                        /\ IF conns[d].node = n THEN conns'[d].pc = "gone" /\ conns'[d].kick = "off"
                           ELSE conns'[d].pc = conns[d].pc /\ conns'[d].kick = conns[d].kick
      OBVIOUS
    <2>1. CASE conns[d].node = n
      <3>1. conns'[d] = [conns[d] EXCEPT !.pc = "gone", !.kick = "off", !.mu = "none",
                                         !.closed = TRUE]
        BY <2>1 DEF Crash
      <3> QED BY <2>1, <3>1 DEF TypeInv, Placed, Conn
    <2>2. CASE conns[d].node # n
      BY <2>2 DEF Crash
    <2> QED BY <2>1, <2>2
  <1>2. /\ table' = [table EXCEPT ![n] = NoConn]
        /\ UNCHANGED <<seq, authority, route, shown, client>>
    BY DEF Crash, redis
  <1>3. \A d \in Conns, m \in Nodes : table'[m] = d => table[m] = d /\ m # n
    BY <1>2 DEF Ranges
  <1>4. Numbered'
    <2>1. \A d \in Conns : /\ conns'[d].epoch = conns[d].epoch
                           /\ conns'[d].node = conns[d].node
                           /\ (conns'[d].pc = "off" <=> conns[d].pc = "off")
                           /\ (Claimed(d)' => Claimed(d))
      <3> SUFFICES ASSUME NEW d \in Conns
                   PROVE  /\ conns'[d].epoch = conns[d].epoch /\ conns'[d].node = conns[d].node
                          /\ (conns'[d].pc = "off" <=> conns[d].pc = "off")
                          /\ (Claimed(d)' => Claimed(d))
        OBVIOUS
      <3>1. conns[d].node = n => conns[d].pc # "off"
        BY DEF Order, Numbered
      <3> QED BY <1>1, <3>1 DEF Claimed
    <2>2. UNCHANGED <<seq, authority, shown, client>>
      BY <1>2
    <2> QED BY <2>1, <2>2 DEF Order, Numbered
  <1>5. Tabled'
    BY <1>1, <1>3 DEF Order, Tabled, InTable, Going
  <1>6. Attached'
    <2>1. \A d \in Conns : conns'[d].pc \in Between =>
            conns[d].pc = conns'[d].pc /\ conns[d].node # n
      BY <1>1 DEF Between
    <2>2. \A d \in Conns : conns'[d].pc = "commit" =>
            conns[d].pc = "commit" /\ conns[d].node # n /\ conns[d].node \in Nodes
      BY <1>1 DEF Ranges
    <2>3. ReplacesOlder'
      BY <1>1, <1>2, <2>2 DEF Order, Attached, ReplacesOlder, Ranges
    <2> QED BY <1>1, <2>1, <2>3 DEF Order, Attached
  <1>7. \A d \in Conns : InTable(d)' \/ conns'[d].pc = "commit" =>
          (InTable(d)' => InTable(d)) /\ (conns'[d].pc = "commit" => conns[d].pc = "commit")
    BY <1>1, <1>3 DEF InTable
  <1>8. Held'
    BY <1>1, <1>2, <1>7 DEF Order, Held, Holds
  <1>9. Told'
    <2>1. \A d \in Conns : InTable(d)' => conns'[d].pc = conns[d].pc
      BY <1>1, <1>3 DEF InTable
    <2> QED BY <1>1, <1>2, <1>7, <2>1 DEF Order, Told
  <1> QED BY <1>4, <1>5, <1>6, <1>8, <1>9 DEF Order

\* A lease lapses only when nobody open has its generation.
LEMMA LapsesKeep ==
  ASSUME TypeInv, Ranges, Order, RouteLapses \/ StateLapses \/ ClientLapses
  PROVE  Order'
  <1>1. UNCHANGED <<seq, authority, table, conns>>
    BY DEF RouteLapses, StateLapses, ClientLapses, redis
  <1>2. shown'.epoch = shown.epoch /\ client'.epoch = client.epoch
    BY DEF RouteLapses, StateLapses, ClientLapses, redis, TypeInv, OtherTypes
  <1>3. Numbered' /\ Tabled' /\ Attached'
    BY <1>1, <1>2 DEF Order, Numbered, Claimed, Tabled, InTable, Attached, ReplacesOlder
  <1>4. \A c \in Conns : InTable(c) \/ conns[c].pc = "commit" => Open(c)
    BY DEF Order, Tabled, InTable, Open, Up
  <1>5. Held'
    BY <1>1, <1>4 DEF Order, Held, InTable, Holds, RouteLapses, StateLapses, ClientLapses, redis,
           Outlived
  <1>6. Told'
    <2> SUFFICES ASSUME ~MayMissState,
                        NEW d \in Conns, InTable(d)', conns'[d].epoch = authority'.epoch
                 PROVE  LET on == [epoch |-> conns'[d].epoch, online |-> TRUE] IN
                        /\ conns'[d].pc = "tell" => shown' = on
                        /\ conns'[d].ready => shown' = on /\ client' = on
      BY DEF Told
    <2>1. InTable(d) /\ conns[d].epoch = authority.epoch /\ Open(d)
      BY <1>1, <1>4 DEF InTable
    <2>2. shown = On(d) => UNCHANGED shown
      BY <2>1 DEF On, RouteLapses, StateLapses, ClientLapses, redis,
           Outlived
    <2>3. client = On(d) => UNCHANGED client
      BY <2>1 DEF On, RouteLapses, StateLapses, ClientLapses, redis,
           Outlived
    <2> QED BY <1>1, <2>1, <2>2, <2>3 DEF Order, Told, On
  <1> QED BY <1>3, <1>5, <1>6 DEF Order

\* Nothing that the invariant is about changes.
LEMMA ApartKeeps ==
  ASSUME Order, UNCHANGED <<seq, authority, route, shown, client, table, conns>>
  PROVE  Order'
  BY DEF Order, Numbered, Claimed, Tabled, InTable, Attached, ReplacesOlder, Held, Holds, Told

-----------------------------------------------------------------------------
(* Every step is one of those                                                *)

\* A connection comes up.
LEMMA ComingUp ==
  ASSUME TypeInv, Ranges, Order, NEW c \in Conns
  PROVE  /\ Admit(c) \/ Withdraw(c) => Fades(c)
         /\ Claim(c) => Takes(c) \/ Fades(c)
         /\ Commit(c) => Enters(c) \/ Fades(c)
         /\ Replace(c) => Within(c)
  <1>1. conns[c].pc \notin Up => ~InTable(c)
    BY DEF Order, Tabled, InTable
  <1>2. ASSUME Admit(c) PROVE Fades(c)
    <2>1. Moved(c, "gone") \/ Moved(c, "claim")
      BY <1>2, Edited DEF Admit
    <2> QED BY <1>1, <1>2, <2>1 DEF Admit, Fades, Moved, redis, Up
  <1>3. ASSUME Withdraw(c) PROVE Fades(c)
    <2>1. Moved(c, "gone")
      BY <1>3, Edited DEF Withdraw
    <2> QED BY <1>1, <1>3, <2>1 DEF Withdraw, Fades, Moved, Up
  <1>4. ASSUME Claim(c) PROVE Takes(c) \/ Fades(c)
    <2>1. Moved(c, "commit") \/ Moved(c, "gone")
      BY <1>4, Edited DEF Claim
    <2>2. \/ TakeOver(c) /\ Claimable(c)
          \/ Moved(c, "gone") /\ UNCHANGED <<authority, route>>
      BY <1>4, Edited DEF Claim
    <2>3. TakeOver(c) /\ Claimable(c) => Takes(c)
      BY <1>4, <2>1 DEF Claim, Takes, Moved
    <2>4. Moved(c, "gone") /\ UNCHANGED <<authority, route>> => Fades(c)
      BY <1>1, <1>4 DEF Claim, Fades, Moved, Up
    <2> QED BY <2>2, <2>3, <2>4
  <1>5. ASSUME Commit(c) PROVE Enters(c) \/ Fades(c)
    <2> DEFINE n == conns[c].node
               r == [conns[c] EXCEPT !.old = table[n], !.pc = IF table[n] = NoConn THEN "beat" ELSE "replace"]
    <2>1. \/ Goto(c, "withdraw") /\ UNCHANGED table
          \/ Gone(c) /\ UNCHANGED table
          \/ table' = [table EXCEPT ![n] = c] /\ Become(c, r)
      BY <1>5 DEF Commit
    <2>2. ASSUME Become(c, r)
          PROVE  Moved(c, "beat") \/ Moved(c, "replace")
      BY <2>2 DEF Become, Moved, Only, SameView, TypeInv, Placed, Conn
    <2>3. ASSUME Moved(c, "withdraw") \/ Moved(c, "gone"), UNCHANGED table PROVE Fades(c)
      BY <1>1, <1>5, <2>3 DEF Commit, Fades, Moved, redis, Up
    <2>4. ASSUME table' = [table EXCEPT ![n] = c], Become(c, r) PROVE Enters(c)
      BY <1>5, <2>2, <2>4 DEF Commit, Enters, Moved, redis
    <2> QED BY <2>1, <2>3, <2>4, Edited
  <1>6. ASSUME Replace(c) PROVE Within(c)
    <2>0. conns[c] \in Placed /\ conns \in [Conns -> Placed] /\ conns[c].old \in Conns
      BY <1>6 DEF TypeInv, Placed, Replace
    <2> DEFINE f == [conns EXCEPT ![c] = [conns[c] EXCEPT !.pc = "beat", !.old = NoConn]]
               o == conns[c].old
               r == [conns[c] EXCEPT !.pc = "beat", !.old = NoConn]
    <2>5. /\ r.pc = "beat" /\ r.kick = conns[c].kick /\ r.node = conns[c].node
          /\ r.epoch = conns[c].epoch /\ r.ready = conns[c].ready
      BY <2>0 DEF Placed, Conn
    <2>7. r \in Placed
      <3>1. conns[c].pc # "off" /\ "beat" \in PCs \ {"off", "replace"}
        BY <1>6 DEF Replace, PCs
      <3> QED BY <2>0, <3>1, Edits
    <2>6. f = [conns EXCEPT ![c] = r]
      OBVIOUS
    <2> HIDE DEF r
    <2>1. /\ f[c].pc = "beat" /\ f[c].kick = conns[c].kick /\ f[c].node = conns[c].node
          /\ f[c].epoch = conns[c].epoch /\ f[c].ready = conns[c].ready
          /\ \A d \in Conns \ {c} : f[d] = conns[d]
          /\ f \in [Conns -> Placed]
      BY <2>0, <2>5, <2>6, <2>7
    <2>2. conns' = [f EXCEPT ![o] = [f[o] EXCEPT !.closed = TRUE]]
      BY <1>6 DEF Replace
    <2> HIDE DEF f
    <2>3. \A d \in Conns :
            /\ conns'[d].pc = f[d].pc /\ conns'[d].kick = f[d].kick /\ conns'[d].node = f[d].node
            /\ conns'[d].epoch = f[d].epoch /\ conns'[d].ready = f[d].ready
      BY <2>0, <2>1, <2>2 DEF Placed, Conn
    <2>4. Moved(c, "beat")
      BY <2>1, <2>3 DEF Moved, Only, SameView
    <2> QED BY <1>6, <2>4 DEF Replace, Within, Moved, redis, Up
  <1> QED BY <1>2, <1>3, <1>4, <1>5, <1>6

\* It is served.
LEMMA Serving ==
  ASSUME TypeInv, Ranges, Order, NEW c \in Conns
  PROVE  /\ (\/ Beat(c) \/ Renew(c) \/ Meta(c) \/ Verify(c) \/ Heartbeat(c) \/ Receive(c)
             \/ Handle(c) \/ HangUp(c) \/ Kick(c) \/ CloseForDrain(c)) => Within(c)
         /\ Announce(c) \/ Tell(c) => Shows(c)
  <1> DEFINE Still == UNCHANGED <<seq, authority, shown, client, table>>
  <1>1. Refused(c) \in Up \ {"tell", "replace"}
    BY DEF Refused, Up
  <1>2. ASSUME NEW l \in Up \ {"tell", "replace"}, conns[c].pc \in Up, Moved(c, l), Still,
               route' = route \/ (route' = conns[c].node /\ Holds(c))
        PROVE  Within(c)
    BY <1>2 DEF Within, Moved
  <1>3. Beat(c) => Within(c)
    BY <1>1, <1>2, Edited DEF Beat, redis, Up
  <1>4. Renew(c) => Within(c)
    BY <1>1, <1>2, Edited DEF Renew, Renewable, redis, Up
  <1>5. Meta(c) => Within(c)
    BY <1>1, <1>2, Edited DEF Meta, redis, Up
  <1>6. Verify(c) => Within(c)
    BY <1>1, <1>2, Edited DEF Verify, redis, Up
  <1>7. Heartbeat(c) => Within(c)
    BY <1>2, Edited DEF Heartbeat, redis, Up
  <1>8. Receive(c) => Within(c)
    BY <1>2, Edited DEF Receive, redis, Up
  <1>9. Handle(c) \/ HangUp(c) => Within(c)
    BY <1>2, Edited DEF Handle, HangUp, redis, Up
  <1>10. ASSUME Kick(c) PROVE Within(c)
    <2>1. KickMoved(c, "leave") /\ conns[c].kick = "off" /\ conns[c].pc \in Up
      BY <1>10, Edited DEF Kick, Order, Tabled
    <2> QED BY <1>10, <2>1 DEF Kick, Within, KickMoved, redis
  <1>11. ASSUME CloseForDrain(c) PROVE Within(c)
    <2>1. Moved(c, conns[c].pc)
      BY <1>11, BecomesOnly DEF CloseForDrain, Moved, TypeInv, Placed, Conn
    <2> QED BY <1>11, <2>1 DEF CloseForDrain, Within, Moved, redis
  <1>12. ASSUME Refreshed(c)
         PROVE  /\ Only(c) /\ conns'[c].kick = conns[c].kick
                /\ conns'[c].pc = "serve" /\ conns'[c].ready = TRUE
    BY <1>12 DEF Refreshed, Become, Only, SameView, TypeInv, Placed, Conn
  <1>13. ASSUME Announce(c) PROVE Shows(c)
    <2>1. Goto(c, "tell") => Moved(c, "tell")
      BY Edited
    <2> QED BY <1>12, <1>13, <2>1 DEF Announce, Shows, Record, On, Moved
  <1>14. ASSUME Tell(c) PROVE Shows(c)
    BY <1>12, <1>14 DEF Tell, Shows, Hear, On, redis
  <1> QED BY <1>3, <1>4, <1>5, <1>6, <1>7, <1>8, <1>9, <1>10, <1>11, <1>13, <1>14

\* It goes.
LEMMA GoingDown ==
  ASSUME TypeInv, Ranges, Order, NEW c \in Conns, NEW w \in {"pc", "kick"}, Leave(c, w)
  PROVE  Quits(c) \/ Fades(c)
  <1>1. CASE Unregister(c, w)
    <2>1. CASE table[conns[c].node] # c
      <3>1. End(c, w) /\ UNCHANGED <<seq, authority, route, shown, client, table>>
        BY <1>1, <2>1 DEF Unregister, redis
      <3>2. ~InTable(c)
        BY <2>1 DEF InTable
      <3>3. (conns[c].kick # "off" \/ w = "pc") /\ conns[c].pc # "off"
        BY <1>1 DEF Unregister, At, Order, Tabled, Up, Going
      <3> QED BY <3>1, <3>2, <3>3, EditedGoing DEF Fades, Moved, KickMoved
    <2>2. CASE table[conns[c].node] = c
      <3>1. /\ table' = [table EXCEPT ![conns[c].node] = NoConn]
            /\ Become(c, [Step(c, w, "release") EXCEPT !.mu = w])
            /\ UNCHANGED <<seq, authority, route, shown, client>>
        BY <1>1, <2>2 DEF Unregister, redis
      <3>2. IF w = "pc" THEN Moved(c, "release") ELSE KickMoved(c, "release")
        BY <3>1, EditedGoing
      <3>3. InTable(c)
        BY <1>1, <2>2 DEF InTable, Unregister, At, Order, Tabled, Ranges, Up, Going
      <3> QED BY <1>1, <3>1, <3>2, <3>3 DEF Quits, Moved, KickMoved, Unregister, At
    <2> QED BY <2>1, <2>2
  <1>2. ASSUME NEW l \in Going, At(c, w, l)
        PROVE  /\ ~InTable(c) /\ Claimed(c) /\ conns[c].pc \notin {"commit", "off"}
               /\ IF w = "pc" THEN conns[c].pc \in Going ELSE conns[c].kick # "off"
    BY <1>2 DEF At, Order, Tabled, InTable, Claimed, Up, Going
  <1> DEFINE Goes ==
        /\ Only(c) /\ conns'[c].ready = conns[c].ready
        /\ \/ conns'[c].pc = conns[c].pc \/ conns'[c].pc = "gone"
           \/ conns[c].pc \in Going /\ conns'[c].pc \in Going
        /\ \/ conns'[c].kick = conns[c].kick
           \/ conns[c].kick # "off" /\ conns'[c].kick \in Going \cup {"off"}
  <1>3. ASSUME NEW l \in Going, At(c, w, l),
               End(c, w) \/ \E m \in Going : Become(c, Step(c, w, m))
        PROVE  Goes
    <2>1. CASE w = "pc"
      <3>1. Moved(c, "gone") \/ \E m \in Going : Moved(c, m)
        BY <1>3, <2>1, EditedGoing
      <3> QED BY <1>2, <1>3, <2>1, <3>1 DEF Moved
    <2>2. CASE w = "kick"
      <3>1. KickMoved(c, "off") \/ \E m \in Going : KickMoved(c, m)
        BY <1>3, <2>2, EditedGoing
      <3> QED BY <1>2, <1>3, <2>2, <3>1 DEF KickMoved
    <2> QED BY <2>1, <2>2
  <1>4. CASE Release(c, w)
    <2>1. Goes /\ ~InTable(c) /\ conns[c].pc \notin {"commit", "off"}
      BY <1>2, <1>3, <1>4 DEF Release, Going
    <2>2. GiveUp(c) \/ UNCHANGED <<authority, route>>
      BY <1>4 DEF Release
    <2> QED BY <1>4, <2>1, <2>2 DEF Release, Fades
  <1>5. CASE Farewell(c, w)
    <2>1. Goes /\ ~InTable(c) /\ Claimed(c) /\ conns[c].pc # "off"
      BY <1>2, <1>3, <1>5 DEF Farewell, Going
    <2> QED BY <1>5, <2>1 DEF Farewell, Fades, Record
  <1>6. CASE TellOff(c, w)
    <2>1. Goes /\ ~InTable(c) /\ Claimed(c) /\ conns[c].pc # "off"
      BY <1>2, <1>3, <1>6 DEF TellOff, Going
    <2>2. \/ UNCHANGED client
          \/ conns[c].epoch >= client.epoch /\ client'.epoch = conns[c].epoch
      BY <1>6 DEF TellOff, Hear, Ranges
    <2> QED BY <1>6, <2>1, <2>2 DEF TellOff, Fades, redis
  <1> QED BY <1>1, <1>4, <1>5, <1>6 DEF Leave

LEMMA OrderStep ==
  ASSUME TypeInv, Order, [Next]_vars
  PROVE  Order'
  <1>0. Ranges
    BY TypesRange
  <1>1. ASSUME NEW c \in Conns,
               Within(c) \/ Fades(c) \/ Takes(c) \/ Enters(c) \/ Quits(c) \/ Shows(c)
        PROVE  Order'
    BY <1>0, <1>1, WithinKeeps, FadesKeeps, TakesKeeps, EntersKeeps, QuitsKeeps, ShowsKeeps
  <1>2. ASSUME NEW c \in Conns, ConnStep(c) PROVE Order'
    BY <1>0, <1>1, <1>2, ComingUp, Serving, GoingDown DEF ConnStep
  <1>3. ASSUME NEW c \in Conns,
               \/ Leave(c, "kick") \/ Heartbeat(c) \/ Receive(c) \/ HangUp(c) \/ Kick(c)
               \/ CloseForDrain(c)
        PROVE  Order'
    BY <1>0, <1>1, <1>3, Serving, GoingDown
  <1>4. ASSUME NEW n \in Nodes, BeginDrain(n) PROVE Order'
    BY <1>4, ApartKeeps DEF BeginDrain, redis
  <1>5. UNCHANGED vars => Order'
    BY ApartKeeps DEF vars, redis
  <1> QED BY <1>0, <1>2, <1>3, <1>4, <1>5, ReserveKeeps, CrashKeeps, LapsesKeep DEF Next

LEMMA OrderHolds == Spec => [](TypeInv /\ Order)
  <1>1. Init => Order
    BY DEF Init, Order, Numbered, Claimed, Tabled, InTable, Attached, ReplacesOlder, Between,
           Held, Told, Going
  <1>2. TypeInv /\ Order /\ [Next]_vars => Order'
    BY OrderStep
  <1> QED BY <1>1, <1>2, TypeInvHolds, PTL DEF Spec

-----------------------------------------------------------------------------
(* Theorems                                                                  *)

\* The claim in Redis decides which connection is the newest: attachConnAdmitted never finds
\* a newer one in its node's table.
THEOREM ReplacedIsOlder == Spec => []ReplacesOlder
  <1>1. Order => ReplacesOlder
    BY DEF Order, Attached
  <1> QED BY <1>1, OrderHolds, PTL

\* When the state of the agent can be recorded and told, the newest connection, once
\* authenticated, has the authority, the route and the owner's eye until it leaves its node's
\* table, whatever late claims, heartbeats, cleanups and expiries do.
THEOREM NewestIsServed ==
  ASSUME MayMissState = FALSE
  PROVE  Spec => []NewestServed
  <1>1. TypeInv /\ Order => NewestServed
    <2> SUFFICES ASSUME TypeInv, Order, NEW c \in Conns, Current(c)
                 PROVE  /\ Holds(c) /\ route = conns[c].node
                        /\ shown = [epoch |-> conns[c].epoch, online |-> TRUE] /\ client = shown
      BY DEF NewestServed
    <2>1. InTable(c) /\ conns[c].epoch = authority.epoch /\ conns[c].ready
      BY TypesRange DEF Current, Open, Ranges, InTable
    <2> QED BY <2>1 DEF Order, Held, Told
  <1> QED BY <1>1, OrderHolds, PTL

=============================================================================
