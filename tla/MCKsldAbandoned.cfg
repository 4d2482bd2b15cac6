SPECIFICATION Spec
CONSTANTS
  Configurations <- OneConfiguration
  StartFaults <- NoFaults
INVARIANTS
  GreeterOrEmergency
