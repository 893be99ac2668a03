---------------------------- MODULE TerminalVerdict ----------------------------
(***************************************************************************)
(* What the settlement of an agent event promises its connector: one       *)
(* verdict is decided and never changes, the effects of the event happen   *)
(* in order and only after it, and the verdict is acknowledged only once   *)
(* all of them have happened.                                              *)
(***************************************************************************)
EXTENDS Naturals

CONSTANTS Verdicts, NoVerdict, NumEffects

VARIABLES
  verdict,    \* the decision, NoVerdict before it
  performed,  \* effects that happened at least once
  acked       \* verdicts acknowledged

vars == <<verdict, performed, acked>>

Init == verdict = NoVerdict /\ performed = {} /\ acked = {}

Decide(v) ==
  /\ verdict = NoVerdict
  /\ verdict' = v
  /\ UNCHANGED <<performed, acked>>

Perform(e) ==
  /\ verdict # NoVerdict
  /\ 1..(e - 1) \subseteq performed
  /\ performed' = performed \cup {e}
  /\ UNCHANGED <<verdict, acked>>

Acknowledge ==
  /\ performed = 1..NumEffects
  /\ acked' = acked \cup {verdict}
  /\ UNCHANGED <<verdict, performed>>

Next ==
  \/ \E v \in Verdicts : Decide(v)
  \/ \E e \in 1..NumEffects : Perform(e)
  \/ Acknowledge

Spec == Init /\ [][Next]_vars
=============================================================================
