------------------------- MODULE MCTerminalSettlement -------------------------
(* TLC instances of TerminalSettlement and its refinement of TerminalVerdict. *)
EXTENDS TerminalSettlement, TLC

\* Handlers of the owner of the event are alike, and so are verdicts.
Symmetry == Permutations(Handlers \ Foreign) \cup Permutations(Verdicts)

\* The abstract promise, read off the database row and the acknowledgements.
Promise == INSTANCE TerminalVerdict WITH
  verdict <- IF Frozen THEN ledger.status ELSE NoVerdict,
  performed <- ran

\* A seeded event settles as TerminalVerdict promises: one verdict, its effects
\* in order after it, acknowledgement last.
Promised == Promise!Spec
=============================================================================
