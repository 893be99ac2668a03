SPECIFICATION FairSpec
CONSTANTS
  Handlers = {h1, h2}
  Foreign = {}
  Verdicts = {responded}
  NoVerdict = NoVerdict
  NoHandler = NoHandler
  NumEffects = 2
  MaxGen = 1
  Seeded = TRUE
  SeedMayVanish = FALSE
PROPERTIES EventuallyAcked SupersededNeverNotifies
