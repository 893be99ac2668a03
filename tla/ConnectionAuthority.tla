-------------------------- MODULE ConnectionAuthority --------------------------
(***************************************************************************)
(* The connections of one agent and owner, and the authority among them     *)
(* (ws/agentapi ServeWS, attachConnAdmitted, refreshAgentLease, unregister   *)
(* and route_registry; ws/handler agent_state_sync).                        *)
(*                                                                         *)
(* A connector that reconnects may reach another node while its old socket  *)
(* still looks alive.  Every connection reserves a generation from Redis;    *)
(* scripts there let the largest claimed one own the route, the metadata and *)
(* the state shown to the owner.  Every call to Redis, and the message to    *)
(* the owner's app, is a step of its own, so connections interleave between *)
(* any two of them.                                                        *)
(***************************************************************************)
EXTENDS Naturals, FiniteSets

CONSTANTS
  Conns,         \* connections; NoConn: none
  Nodes, NoConn, NoNode,
  MayDrain,      \* nodes that may shut down
  MaxFaults,     \* bound: crashes and failed calls to Redis
  MayMissState   \* TRUE: recording the state, or telling the app, may fail

ASSUME ConstantsAssumption ==
  /\ NoConn \notin Conns /\ NoNode \notin Nodes /\ MayDrain \subseteq Nodes
  /\ MaxFaults \in Nat /\ MayMissState \in BOOLEAN

VARIABLES
  seq,        \* last reserved generation
  authority,  \* authority hash: never expires
  route,      \* node of the owner route: a lease
  meta,       \* generation that wrote capabilities, profile and connection info: a lease
  shown,      \* recorded state of the agent, and the generation it is of
  client,     \* the same in the owner's app
  table,      \* connection in each node's memory
  draining,   \* nodes that shut down
  conns,
  faults

redis == <<seq, authority, route, meta, shown>>
vars == <<redis, client, table, draining, conns, faults>>

\* pc: where the goroutine of the socket is (ServeWS). kick: where a kick of the
\* connection is. mu: which of the two holds stateMu. ready: authenticated.
PCs == {"off", "admit", "claim", "commit", "withdraw", "replace", "beat", "renew", "meta",
        "verify", "announce", "tell", "serve", "handle", "leave", "release", "farewell", "tellOff",
        "gone"}
Conn == [pc : PCs, kick : {"off", "leave", "release", "farewell", "tellOff"},
         mu : {"none", "pc", "kick"}, node : Nodes \cup {NoNode}, epoch : Nat,
         old : Conns \cup {NoConn}, closed : BOOLEAN, ready : BOOLEAN]

TypeOK ==
  /\ seq \in Nat
  /\ authority \in [node : Nodes \cup {NoNode}, epoch : Nat, active : BOOLEAN]
  /\ route \in Nodes \cup {NoNode} /\ meta \in Nat
  /\ shown \in [epoch : Nat, online : BOOLEAN] /\ client \in [epoch : Nat, online : BOOLEAN]
  /\ table \in [Nodes -> Conns \cup {NoConn}]
  /\ draining \subseteq MayDrain
  /\ conns \in [Conns -> Conn]
  /\ faults \in 0..MaxFaults

Init ==
  /\ seq = 0
  /\ authority = [node |-> NoNode, epoch |-> 0, active |-> FALSE]
  /\ route = NoNode /\ meta = 0
  /\ shown = [epoch |-> 0, online |-> FALSE] /\ client = shown
  /\ table = [n \in Nodes |-> NoConn] /\ draining = {}
  /\ conns = [c \in Conns |-> [pc |-> "off", kick |-> "off", mu |-> "none", node |-> NoNode,
                               epoch |-> 0, old |-> NoConn, closed |-> FALSE, ready |-> FALSE]]
  /\ faults = 0

Open(c) == conns[c].pc \notin {"off", "gone"}
Become(c, conn) == conns' = [conns EXCEPT ![c] = conn]
Goto(c, label) == Become(c, [conns[c] EXCEPT !.pc = label])
Gone(c) == Become(c, [conns[c] EXCEPT !.pc = "gone", !.closed = TRUE])
Fault == faults < MaxFaults /\ faults' = faults + 1

\* The generation of c is the active one.
Holds(c) == authority = [node |-> conns[c].node, epoch |-> conns[c].epoch, active |-> TRUE]

-----------------------------------------------------------------------------
(* The connection comes up (ServeWS, attachConnAdmitted)                     *)

\* authenticated; reserveAgentConnectionEpochScript
Reserve(c, n) ==
  /\ conns[c].pc = "off" /\ n \notin draining
  /\ seq' = (IF seq > shown.epoch THEN seq ELSE shown.epoch) + 1
  /\ Become(c, [conns[c] EXCEPT !.pc = "admit", !.node = n, !.epoch = seq'])
  /\ UNCHANGED <<authority, route, meta, shown, client, table, draining, faults>>

\* The rest of the handshake may fail; beginDrainWork refuses when shutting down.
Admit(c) ==
  /\ conns[c].pc = "admit"
  /\ \/ Gone(c)
     \/ conns[c].node \notin draining /\ Goto(c, "claim")
  /\ UNCHANGED <<redis, client, table, draining, faults>>

TakeOver(c) ==
  /\ authority' = [node |-> conns[c].node, epoch |-> conns[c].epoch, active |-> TRUE]
  /\ route' = conns[c].node /\ meta' = 0

\* Mutant: the late claim of a lower generation wins.
ClaimableAlways(c) == TRUE
Claimable(c) == authority.epoch < conns[c].epoch

\* attachMu of the node is held from the claim until the connection is attached.
Attaching(n) == \E c \in Conns : conns[c].node = n /\ conns[c].pc \in {"commit", "withdraw", "replace"}

\* claimAgentConnectionAuthorityScript. Its answer may be lost.
Claim(c) ==
  /\ conns[c].pc = "claim" /\ ~Attaching(conns[c].node)
  /\ \/ Claimable(c) /\ TakeOver(c) /\ Goto(c, "commit") /\ UNCHANGED faults
     \/ ~Claimable(c) /\ Gone(c) /\ UNCHANGED <<authority, route, meta, faults>>
     \/ Fault /\ Gone(c) /\ Claimable(c) /\ TakeOver(c)
     \/ Fault /\ Gone(c) /\ UNCHANGED <<authority, route, meta>>
  /\ UNCHANGED <<seq, shown, client, table, draining>>

\* Into the node's table, unless a shutdown has closed the connection meanwhile.
Commit(c) ==
  LET n == conns[c].node  old == table[n] IN
  /\ conns[c].pc = "commit"
  /\ IF conns[c].closed THEN Goto(c, "withdraw") /\ UNCHANGED table
     ELSE IF old # NoConn /\ conns[old].epoch >= conns[c].epoch THEN Gone(c) /\ UNCHANGED table
     ELSE /\ table' = [table EXCEPT ![n] = c]
          /\ Become(c, [conns[c] EXCEPT !.old = old, !.pc = IF old = NoConn THEN "beat" ELSE "replace"])
  /\ UNCHANGED <<redis, client, draining, faults>>

\* Waits for a lease refresh of the connection it replaces, and closes it.
Replace(c) ==
  LET old == conns[c].old IN
  /\ conns[c].pc = "replace" /\ conns[old].mu = "none"
  /\ conns' = [conns EXCEPT ![c].pc = "beat", ![c].old = NoConn, ![old].closed = TRUE]
  /\ UNCHANGED <<redis, client, table, draining, faults>>

-----------------------------------------------------------------------------
(* Lease (refreshAgentLease): first before auth_ack, then at each heartbeat  *)

\* A refresh that is refused: before auth_ack the connection leaves.
Refused(c) == IF conns[c].ready THEN "serve" ELSE "leave"

Beat(c) ==
  /\ conns[c].pc = "beat" /\ conns[c].mu = "none"
  /\ IF table[conns[c].node] = c
     THEN Become(c, [conns[c] EXCEPT !.pc = "renew", !.mu = "pc"])
     ELSE Goto(c, Refused(c))
  /\ UNCHANGED <<redis, client, table, draining, faults>>

KeepStale(c) ==   \* mutant
  Become(c, [conns[c] EXCEPT !.pc = Refused(c), !.mu = "none"])

\* A stale connection is closed. So is one whose call failed.
CloseStale(c) ==
  Become(c, [conns[c] EXCEPT !.pc = Refused(c), !.mu = "none", !.closed = TRUE])

RenewableAlways(c) == TRUE   \* mutant
Renewable(c) == Holds(c)

\* refreshAgentConnectionAuthorityScript
Renew(c) ==
  /\ conns[c].pc = "renew"
  /\ \/ Renewable(c) /\ route' = conns[c].node /\ Goto(c, "meta") /\ UNCHANGED faults
     \/ ~Renewable(c) /\ CloseStale(c) /\ UNCHANGED <<route, faults>>
     \/ Fault /\ CloseStale(c) /\ UNCHANGED route
  /\ UNCHANGED <<seq, authority, meta, shown, client, table, draining>>

\* setAgentConnectionMetadataScript: a failure is only logged.
Meta(c) ==
  /\ conns[c].pc = "meta"
  /\ \/ meta' = (IF Holds(c) THEN conns[c].epoch ELSE meta) /\ UNCHANGED faults
     \/ Fault /\ UNCHANGED meta
  /\ Goto(c, "verify")
  /\ UNCHANGED <<seq, authority, route, shown, client, table, draining>>

\* ensureAgentConnectionAuthoritative
Verify(c) ==
  /\ conns[c].pc = "verify"
  /\ \/ Holds(c) /\ Goto(c, "announce") /\ UNCHANGED faults
     \/ ~Holds(c) /\ CloseStale(c) /\ UNCHANGED faults
     \/ Fault /\ CloseStale(c)
  /\ UNCHANGED <<redis, client, table, draining>>

\* recordAgentStateScript: rejects the state of an older generation.
Accepts(c) == conns[c].epoch >= shown.epoch
Record(c, online) == shown' = [epoch |-> conns[c].epoch, online |-> online]

Refreshed(c) ==
  Become(c, [conns[c] EXCEPT !.pc = "serve", !.mu = "none", !.ready = TRUE])

\* notifyAgentStateSync: the app is told of an accepted state.
Announce(c) ==
  /\ conns[c].pc = "announce"
  /\ \/ Accepts(c) /\ Record(c, TRUE) /\ Goto(c, "tell") /\ UNCHANGED faults
     \/ ~Accepts(c) /\ Refreshed(c) /\ UNCHANGED <<shown, faults>>
     \/ MayMissState /\ Fault /\ Refreshed(c) /\ UNCHANGED shown
  /\ UNCHANGED <<seq, authority, route, meta, client, table, draining>>

\* The app ignores the state of an older generation. A message may get lost.
HearLast(c, online) ==   \* mutant
  client' = [epoch |-> conns[c].epoch, online |-> online] /\ UNCHANGED faults
Hear(c, online) ==
  \/ /\ client' = IF conns[c].epoch < client.epoch THEN client
                  ELSE [epoch |-> conns[c].epoch, online |-> online]
     /\ UNCHANGED faults
  \/ MayMissState /\ Fault /\ UNCHANGED client

Tell(c) ==
  /\ conns[c].pc = "tell"
  /\ Hear(c, TRUE) /\ Refreshed(c)
  /\ UNCHANGED <<redis, table, draining>>

Heartbeat(c) ==
  /\ conns[c].pc = "serve" /\ ~conns[c].closed
  /\ Goto(c, "beat")
  /\ UNCHANGED <<redis, client, table, draining, faults>>

\* A packet is let through when the connection has the authority; then it is handled.
Receive(c) ==
  /\ conns[c].pc = "serve" /\ ~conns[c].closed
  /\ IF Holds(c) THEN Goto(c, "handle")
     ELSE Become(c, [conns[c] EXCEPT !.pc = "leave", !.closed = TRUE])
  /\ UNCHANGED <<redis, client, table, draining, faults>>

Handle(c) ==
  /\ conns[c].pc = "handle"
  /\ Goto(c, "serve")
  /\ UNCHANGED <<redis, client, table, draining, faults>>

\* The socket was closed here, or by the connector.
HangUp(c) ==
  /\ conns[c].pc = "serve"
  /\ Become(c, [conns[c] EXCEPT !.pc = "leave", !.closed = TRUE])
  /\ UNCHANGED <<redis, client, table, draining, faults>>

-----------------------------------------------------------------------------
(* The connection goes (unregister): by its own goroutine, w = "pc", or by a  *)
(* kick, w = "kick"                                                          *)

At(c, w, label) == IF w = "pc" THEN conns[c].pc = label ELSE conns[c].kick = label
Step(c, w, label) ==
  IF w = "pc" THEN [conns[c] EXCEPT !.pc = label] ELSE [conns[c] EXCEPT !.kick = label]
End(c, w) ==
  Become(c, [Step(c, w, IF w = "pc" THEN "gone" ELSE "off") EXCEPT !.mu = "none", !.closed = TRUE])

Kick(c) ==
  /\ conns[c].kick = "off" /\ \E n \in Nodes : table[n] = c
  /\ Become(c, [conns[c] EXCEPT !.kick = "leave"])
  /\ UNCHANGED <<redis, client, table, draining, faults>>

Unregister(c, w) ==
  LET n == conns[c].node IN
  /\ At(c, w, "leave") /\ conns[c].mu = "none"
  /\ \/ /\ table[n] = c
        /\ table' = [table EXCEPT ![n] = NoConn]
        /\ Become(c, [Step(c, w, "release") EXCEPT !.mu = w])
     \/ table[n] # c /\ End(c, w) /\ UNCHANGED table
  /\ UNCHANGED <<redis, client, draining, faults>>

\* releaseAgentConnectionAuthorityScript
GiveUp(c) ==
  IF Holds(c)
  THEN /\ authority' = [authority EXCEPT !.active = FALSE]
       /\ route' = IF route = conns[c].node THEN NoNode ELSE route
       /\ meta' = 0
  ELSE UNCHANGED <<authority, route, meta>>

\* Only the generation that was active goes on to announce that it is offline.
Release(c, w) ==
  /\ At(c, w, "release")
  /\ \/ /\ GiveUp(c) /\ UNCHANGED faults
        /\ IF Holds(c) THEN Become(c, Step(c, w, "farewell")) ELSE End(c, w)
     \/ Fault /\ End(c, w) /\ (GiveUp(c) \/ UNCHANGED <<authority, route, meta>>)
  /\ UNCHANGED <<seq, shown, client, table, draining>>

Farewell(c, w) ==
  /\ At(c, w, "farewell")
  /\ \/ /\ Accepts(c) /\ Record(c, FALSE) /\ UNCHANGED faults
        /\ Become(c, Step(c, w, "tellOff"))
     \/ ~Accepts(c) /\ End(c, w) /\ UNCHANGED <<shown, faults>>
     \/ MayMissState /\ Fault /\ End(c, w) /\ UNCHANGED shown
  /\ UNCHANGED <<seq, authority, route, meta, client, table, draining>>

TellOff(c, w) ==
  /\ At(c, w, "tellOff")
  /\ Hear(c, FALSE) /\ End(c, w)
  /\ UNCHANGED <<redis, table, draining>>

\* A connection closed between claim and commit gives the authority up silently.
Withdraw(c) ==
  /\ conns[c].pc = "withdraw"
  /\ Gone(c)
  /\ \/ GiveUp(c) /\ UNCHANGED faults
     \/ Fault /\ UNCHANGED <<authority, route, meta>>
  /\ UNCHANGED <<seq, shown, client, table, draining>>

-----------------------------------------------------------------------------
(* Shutdown, crash, leases                                                   *)

BeginDrain(n) ==
  /\ n \in MayDrain \ draining
  /\ draining' = draining \cup {n}
  /\ UNCHANGED <<redis, client, table, conns, faults>>

\* An idle connection at once, any other at the latest at the deadline.
CloseForDrain(c) ==
  /\ Open(c) /\ conns[c].node \in draining /\ ~conns[c].closed
  /\ Become(c, [conns[c] EXCEPT !.closed = TRUE])
  /\ UNCHANGED <<redis, client, table, draining, faults>>

Crash(n) ==
  /\ Fault
  /\ conns' = [c \in Conns |->
       IF conns[c].node = n
       THEN [conns[c] EXCEPT !.pc = "gone", !.kick = "off", !.mu = "none", !.closed = TRUE]
       ELSE conns[c]]
  /\ table' = [table EXCEPT ![n] = NoConn]
  /\ UNCHANGED <<redis, client, draining>>

\* Leases are long enough for an open connection to renew them in time.
Outlived(epoch) == \A c \in Conns : Open(c) => conns[c].epoch # epoch

RouteStays == FALSE /\ UNCHANGED vars   \* mutant: a route without expiry
RouteLapses ==
  /\ <<route, meta>> # <<NoNode, 0>> /\ Outlived(authority.epoch)
  /\ route' = NoNode /\ meta' = 0
  /\ UNCHANGED <<seq, authority, shown, client, table, draining, conns, faults>>

StateLapses ==
  /\ shown.online /\ Outlived(shown.epoch)
  /\ shown' = [shown EXCEPT !.online = FALSE]
  /\ UNCHANGED <<seq, authority, route, meta, client, table, draining, conns, faults>>

ClientLapses ==
  /\ client.online /\ Outlived(client.epoch)
  /\ client' = [client EXCEPT !.online = FALSE]
  /\ UNCHANGED <<redis, table, draining, conns, faults>>

Leave(c, w) == Unregister(c, w) \/ Release(c, w) \/ Farewell(c, w) \/ TellOff(c, w)

\* What the goroutine of c does once started.
ConnStep(c) ==
  \/ Admit(c) \/ Claim(c) \/ Commit(c) \/ Replace(c) \/ Withdraw(c)
  \/ Beat(c) \/ Renew(c) \/ Meta(c) \/ Verify(c) \/ Announce(c) \/ Tell(c)
  \/ Handle(c)
  \/ Leave(c, "pc")

Next ==
  \/ \E c \in Conns : ConnStep(c) \/ Leave(c, "kick") \/ Heartbeat(c) \/ Receive(c)
                      \/ HangUp(c) \/ Kick(c) \/ CloseForDrain(c)
  \/ \E c \in Conns, n \in Nodes : Reserve(c, n)
  \/ \E n \in Nodes : BeginDrain(n) \/ Crash(n)
  \/ RouteLapses \/ StateLapses \/ ClientLapses

Spec == Init /\ [][Next]_vars

\* Goroutines run, every connection heartbeats until it is closed, a closed socket ends
\* its read loop, leases expire.
Fairness ==
  /\ \A c \in Conns : /\ WF_vars(ConnStep(c)) /\ SF_vars(Leave(c, "kick"))
                      /\ SF_vars(Heartbeat(c)) /\ WF_vars(conns[c].closed /\ HangUp(c))
  /\ WF_vars(RouteLapses) /\ WF_vars(StateLapses) /\ WF_vars(ClientLapses)

FairSpec == Spec /\ Fairness

-----------------------------------------------------------------------------
(* Properties                                                                *)

\* "Only the exact active generation may remove leased metadata" or renew it: whatever
\* stale heartbeats and cleanups do, the route leads to the node of the active
\* generation, and the metadata is its own.
LeasesFollowAuthority ==
  /\ route # NoNode => authority.active /\ route = authority.node
  /\ meta # 0 => authority.active /\ meta = authority.epoch

\* "An old TCP connection must not be able to resurrect": generations only grow, and one
\* that was released or superseded is never active again.
NeverResurrected ==
  [][/\ authority'.epoch >= authority.epoch
     /\ authority'.epoch = authority.epoch /\ authority'.active => authority.active]_vars

\* An authenticated connection of the newest generation, not yet unregistered.
Current(c) ==
  /\ Open(c) /\ conns[c].ready
  /\ table[conns[c].node] = c /\ conns[c].epoch = authority.epoch

\* "A stale unregister cannot delete its successor's routes", and a late offline cannot
\* be shown after it has come online: while the current connection stays, the authority
\* and the route are its own, and the owner sees it online.
NewestServed ==
  \A c \in Conns : Current(c) =>
    /\ Holds(c) /\ route = conns[c].node
    /\ shown = [epoch |-> conns[c].epoch, online |-> TRUE] /\ client = shown

\* The claim alone decides: what a connection then replaces in the node's table is always
\* older, and the second comparison never has to refuse it.
ReplacesOlder ==
  \A c \in Conns :
    LET old == table[conns[c].node] IN
    conns[c].pc = "commit" /\ old # NoConn => conns[old].epoch < conns[c].epoch

\* "A stale connection is closed": one that lost the authority, on whatever node, does
\* not stay.
StaleCloses ==
  \A c \in Conns : Open(c) /\ conns[c].epoch < authority.epoch ~> ~Open(c)

\* When the connections are gone for good, the owner sees the agent offline and no route
\* is left.
GoneIsShown ==
  <>[](\A c \in Conns : ~Open(c)) => <>[](~shown.online /\ ~client.online /\ route = NoNode)

-----------------------------------------------------------------------------
(* What comments of the code state and TLC refutes; the README says how. No   *)
(* run checks these.                                                          *)

\* "Fence every parsed inbound packet before [...] any command handler can mutate [...]
\* on behalf of that stale connection".
InboundFenced ==
  [][\A c \in Conns : conns[c].pc = "handle" /\ conns'[c].pc = "serve" =>
       conns[c].epoch = authority.epoch]_vars

\* "Callers must gate fanout on the result so a stale cross-node disconnect cannot be
\* broadcast after a newer connection has already come online".
FanoutGated ==
  [][\A c \in Conns, w \in {"pc", "kick"} :
       At(c, w, "tellOff") /\ ~At(c, w, "tellOff")' =>
         Accepts(c) \/ ~shown.online]_vars

\* "Every active (agent, owner) connection must publish its own offline transition":
\* nobody is shown online when all connections have come to their end.
OfflinePublished ==
  shown.online => \E c \in Conns : Open(c) \/ conns[c].kick # "off"
=============================================================================
