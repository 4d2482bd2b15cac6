SPECIFICATION FairSpec
CONSTANTS
  firefox = firefox
  vlc = vlc
  Clients <- TwoClients
  Settings <- TwoSettings
  MaxCookies = 2
  MaxInFlight = 2
INVARIANTS
  TypeOK
  RequestsAreCounted
  TimeoutIsRightful
PROPERTIES
  OnlyServiceLossDisarms
  ReleaseReachesService
  PowerInhibitionFollows
