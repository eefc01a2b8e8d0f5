\* A change whose retry got no proposal is reported fixed on a dirty resource.
SPECIFICATION Spec
CHECK_DEADLOCK FALSE
CONSTANTS
  c1 = c1
  c2 = c2
  r1 = r1
  r2 = r2
  f1 = f1
  f2 = f2
  NoFile = NoFile
  Files = {f1, f2}
  Resources = {r1, r2}
  Edits <- AllEdits
  Changes = {c1}
  ResourceOf <- Single
  Target <- SingleTarget
  Proposals <- OneAppend
  Tiers <- OnlyTransforming
  MaxRetries = 2
INVARIANT
  FixedMeansClean
