\* A change skipped on its retry leaves its first edit on the branch.
SPECIFICATION Spec
CHECK_DEADLOCK FALSE
CONSTANTS
  c1 = c1
  c2 = c2
  r1 = r1
  r2 = r2
  f1 = f1
  f2 = f2
  NoFile = NoFile
  Files = {f1, f2}
  Resources = {r1, r2}
  Edits <- AllEdits
  Changes = {c1, c2}
  ResourceOf <- TwoResources
  Target <- Targets
  Proposals <- SkipProposals
  Tiers <- OnlyTransforming
  MaxRetries = 1
INVARIANT
  SkippedIsNotPublished
