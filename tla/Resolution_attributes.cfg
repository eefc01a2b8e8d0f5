\* Two variables, up to four nested calls, a loop bound the deepest walks hit.
SPECIFICATION ResSpec
CONSTANTS
  x = x
  y = y
  attr = attr
  stray = stray
  Vars = {x, y}
  Segments <- Names
  Files <- AllFiles
  Attr = attr
  MaxHops = 3
  MaxUps = 3
  Configs <- SmallConfigs
  Globs <- SmallGlobs
  Attributes <- Strays
  Proposals <- SmallProposals
INVARIANTS ResTypeOK EditTakesEffect TierTellsOrigin ChainIsRoute ProtectedOnlyAtTheTop RootIndependent NoHopExcluded
PROPERTY Resolves
CHECK_DEADLOCK FALSE
