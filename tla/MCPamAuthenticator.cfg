SPECIFICATION FairSpec
CONSTANTS
  RespondsAtOnce = FALSE
  MaxQuickFailures = 3
  MaxCalls = 3
  MaxDelays = 2
INVARIANTS
  TypeOK
  EveryCallIsAnswered
  PromptIsInOnePlace
  OnlyPamUnlocks
  DelayIsScheduled
  BrokenServiceIsLeftAlone
PROPERTIES
  PromptIsAnswered
  BusyEnds
