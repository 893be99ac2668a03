-------------------------- MODULE MCDispatchTracking --------------------------
(* TLC instances of DispatchTracking. *)
EXTENDS DispatchTracking, TLC

Symmetry == Permutations(Tasks) \cup Permutations(Nodes)

\* The liveness run takes crashes and moves of the connection for its faults, and is
\* over once the single push has been acknowledged or settled: from there the record
\* never waits for an ACK again. The nodes are alike, so the connector may as well
\* start on this one (not to be combined with Symmetry).
FirstNode == CHOOSE n \in Nodes : TRUE
MovesConnection == \E n \in Nodes : Crash(n) \/ Reconnect(n)
Over == record.stage \in {"result", "closed"}
LiveNext == ~Over /\ Next /\ (book'.faults # book.faults => MovesConnection)
LiveInit == Init /\ conn = FirstNode
LiveSpec == LiveInit /\ [][LiveNext]_vars /\ Fairness
=============================================================================
