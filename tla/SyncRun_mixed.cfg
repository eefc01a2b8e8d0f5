\* Two attributes of two resources, every kind of proposal, two retries.
SPECIFICATION FairSpec
CHECK_DEADLOCK FALSE
CONSTANTS
  c1 = c1
  c2 = c2
  r1 = r1
  r2 = r2
  f1 = f1
  f2 = f2
  NoFile = NoFile
  Files = {f1, f2}
  Resources = {r1, r2}
  Edits <- AllEdits
  Changes = {c1, c2}
  ResourceOf <- TwoResources
  Target <- Targets
  Proposals <- MixedProposals
  Tiers <- EveryEditor
  MaxRetries = 2
INVARIANTS
  TypeOK
  GuardedWrites
  FixedIsVerified
  FixedIsPublished
  PublishedIsVerified
  DryRunRestores
  ExitCodes
  RetryBudget
PROPERTIES
  GivenUpIsFinal
  KeepsPromise
  Terminates
