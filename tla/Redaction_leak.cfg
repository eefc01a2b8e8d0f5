\* As in Redaction_exchange.
SPECIFICATION Spec
CONSTANTS
  Fragments <- AllFragments
  Systems <- TwoSystems
  ExplainSystem <- JustWords
  Payloads <- SomePayloads
  AllowedAttrs <- Names
  MaxValue = 2
  MaxSummary = 3
  ValidateRetryMax = 1
INVARIANTS RawValuesNeverLeave
CHECK_DEADLOCK FALSE
