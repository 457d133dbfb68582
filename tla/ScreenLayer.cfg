SPECIFICATION FairSpec
CONSTANTS
  Screens = {"chat", "voting"}
  CaptureScreens = {"voting"}
  ToggleScreens = {"chat"}
  KeyScreens = {"chat"}
  InputTypes = {"ui"}
  MaxScripts = 2
  MaxQueries = 6
  MaxContexts = 4
INVARIANTS
  TypeOK
  CapturedInputHasContext
  GameInputIsRestored
  OverlayFollowsScreens
  LastCallCounts
PROPERTY InputComesBack
