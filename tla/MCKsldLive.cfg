SPECIFICATION FairSpec
CONSTANTS
  Configurations <- AllConfigurations
  StartFaults <- ForkFault
INVARIANTS
  LogindExitIsOfThisLock
PROPERTIES
  UnlockedOnlyWithLicence
  ForcedUnlockCompletes
  CrashIsResolved
  PromptAppears
  RelocksAfterRestart
