CONSTANTS
  Ids <- MCIds
  MaxSettings = 2
  MaxListeners = 1
  MaxReloads = 1
  TwoFactor = TRUE
  UserActs <- AllActs
SPECIFICATION FairSpec
INVARIANT TypeOK
INVARIANT HandoffIsAccepted
INVARIANT SessionsAreReused
INVARIANT NewestSettingsRun
PROPERTY SecretIsKept
PROPERTY UpdatesTakeEffect
