SPECIFICATION Spec
CONSTANTS
  Handlers = {h1, h2}
  Foreign = {}
  Verdicts = {responded}
  NoVerdict = NoVerdict
  NoHandler = NoHandler
  NumEffects = 1
  MaxGen = 1
  Seeded = FALSE
  SeedMayVanish = TRUE
INVARIANT TombstoneNeverNotifies
SYMMETRY Symmetry
