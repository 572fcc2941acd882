CONSTANTS
  Devices <- MCDevices
  MdDevices <- MCMdDevices
  WithoutPartition <- MCWithoutPartition
  Appliances <- MCAppliances
  StoredBefore <- MCStoredBefore
  Upgrades = TRUE
  MaxChanges = 1
  MaxSaves = 1
SPECIFICATION Spec
CHECK_DEADLOCK FALSE
INVARIANT TypeOK
INVARIANT NoDuplicateEntities
INVARIANT DegradedIsTold
INVARIANT MembersStayBare
INVARIANT CreatedIsExpected
INVARIANT UntouchedFormKeepsAll
INVARIANT CountsAddUp
PROPERTY PruneNeedsLoss
PROPERTY UpgradeKeepsUnselected
