SPECIFICATION FairSpec
CONSTANTS
  kmix = kmix
  plasmashell = plasmashell
  Components <- TwoComponents
  Whitelist <- OneListed
  Available = {"logind", "consolekit"}
  Restarting = {"logind"}
  MaxInFlight = 2
INVARIANTS
  TypeOK
  HintIsRight
  CounterIsCalls
  ShortcutsAreThisLocks
PROPERTIES
  Reconnects
  FetchEnds
