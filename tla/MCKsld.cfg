SPECIFICATION Spec
CONSTANTS
  Configurations <- AllConfigurations
  StartFaults <- AllFaults
INVARIANTS
  TypeOK
  NoLeakBetweenLocks
  EmergencyIsTheLastResort
  LeftoverGreeterIsDoomed
PROPERTIES
  OnlyGraceKillAbandons
