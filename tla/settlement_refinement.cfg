SPECIFICATION Spec
CONSTANTS
  Handlers = {h1, h2, h3}
  Foreign = {h3}
  Verdicts = {responded, canceled}
  NoVerdict = NoVerdict
  NoHandler = NoHandler
  NumEffects = 2
  MaxGen = 1
  Seeded = TRUE
  SeedMayVanish = FALSE
INVARIANTS ChatVerdictAgrees AckMatchesVerdict SettledRecordAgrees
PROPERTIES Promised VerdictImmutable ChatMovesForward
SYMMETRY Symmetry
