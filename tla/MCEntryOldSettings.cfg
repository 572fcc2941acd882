CONSTANTS
  Ids <- MCIds
  MaxSettings = 2
  MaxListeners = 1
  MaxReloads = 2
  TwoFactor = FALSE
  UserActs <- OnlyReconfigure
SPECIFICATION Spec
INVARIANT NewestSettingsWin
