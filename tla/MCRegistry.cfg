CONSTANTS
  Resources = {r1}
  Plan <- CoreAndOptional
  Core <- MCCore
  Cached <- MCCached
  Selected <- MCSelected
  Interval = 2
  MaxFailures = 2
SPECIFICATION RegistryFairSpec
INVARIANT TypeOK
INVARIANT HeldDataIsLastValid
INVARIANT VerifiedInventory
INVARIANT MarksAreExact
PROPERTY KeepsGrace
PROPERTY PrunesOnlyVerified
PROPERTY GoneIsPruned
PROPERTY DownIsNoticed
PROPERTY UpIsShown
