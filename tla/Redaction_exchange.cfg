\* One retry, replies that copy up to two pieces of the prompt.
SPECIFICATION Spec
CONSTANTS
  Fragments <- AllFragments
  Systems <- TwoSystems
  ExplainSystem <- JustWords
  Payloads <- SomePayloads
  AllowedAttrs <- Names
  MaxValue = 2
  MaxSummary = 3
  ValidateRetryMax = 1
INVARIANTS TypeOK PromptsAreRedacted PlaceholdersTellValues CopiesComeBack
CHECK_DEADLOCK FALSE
