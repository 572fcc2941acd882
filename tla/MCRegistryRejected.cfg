CONSTANTS
  Resources = {r1}
  Plan <- CoreKinds
  Core <- MCCore
  Cached <- MCCached
  Selected <- MCSelected
  Interval = 1
  MaxFailures = 1
SPECIFICATION RegistrySpec
PROPERTY RejectionPrunesOnlyVerified
