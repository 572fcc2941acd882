CONSTANTS
  Devices <- MCDevices
  MdDevices <- MCMdDevices
  WithoutPartition <- MCWithoutPartition
  Appliances <- MCAppliances
  StoredBefore <- MCStoredByIds
  Upgrades = TRUE
  MaxChanges = 1
  MaxSaves = 1
SPECIFICATION Spec
CHECK_DEADLOCK FALSE
PROPERTY UpgradeKeepsContainers
