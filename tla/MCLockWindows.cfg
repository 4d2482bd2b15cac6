SPECIFICATION FairSpec
CONSTANTS
  laptop = laptop
  projector = projector
  small = small
  large = large
  Screens <- TwoScreens
  Geometries <- TwoGeometries
  NullGeometry = none
  MaxPosted = 3
INVARIANTS
  TypeOK
  ViewsAgree
  EveryScreenIsCovered
PROPERTIES
  PromptOnEveryScreen
  TypingReachesEveryView
