SPECIFICATION Spec
CONSTANTS
  Regular = Regular
  Fingerprint = Fingerprint
  Types = {Regular, Fingerprint}
  RespondsAtOnce = FALSE
  MaxQuickFailures = 1
  MaxCalls = 1
  MaxDelays = 0
INVARIANT OnlyEnabledIsUsed
