\* One module call; its argument is a template around one variable.
SPECIFICATION ResSpec
CONSTANTS
  x = x
  y = y
  attr = attr
  stray = stray
  Vars = {x, y}
  Segments <- Names
  Files <- AllFiles
  Attr = attr
  MaxHops = 3
  MaxUps = 3
  Configs <- OneCall
  Globs <- SmallGlobs
  Attributes <- Strays
  Proposals <- SmallProposals
INVARIANT OnlyPassthrough
CHECK_DEADLOCK FALSE
