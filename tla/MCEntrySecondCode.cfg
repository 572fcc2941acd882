CONSTANTS
  Ids <- MCIds
  MaxSettings = 2
  MaxListeners = 1
  MaxReloads = 2
  TwoFactor = TRUE
  UserActs <- OnlyReconfigure
SPECIFICATION Spec
INVARIANT CodeIsAskedOnce
