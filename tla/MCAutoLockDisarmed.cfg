SPECIFICATION Spec
CONSTANTS
  firefox = firefox
  vlc = vlc
  Clients <- TwoClients
  Settings <- OneSetting
  MaxCookies = 1
  MaxInFlight = 2
INVARIANTS
  TimeoutRuns
