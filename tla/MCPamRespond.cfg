SPECIFICATION FairSpec
CONSTANTS
  RespondsAtOnce = TRUE
  MaxQuickFailures = 1
  MaxCalls = 2
  MaxDelays = 1
PROPERTY PromptIsAnswered
