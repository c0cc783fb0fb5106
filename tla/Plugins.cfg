SPECIFICATION Spec
CONSTANTS
  Names = {a, b, c}
  Garbled = {c}
  Uploads = {u, v}
  NoName = NoName
  MaxPlaced = 3
  MaxFaults = 2
  MaxCrashes = 1
CHECK_DEADLOCK FALSE
INVARIANTS TypeOK OnlyUploadsWithdraw
PROPERTIES StartedOnce PluginsAreTaken
