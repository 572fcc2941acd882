CONSTANTS
  Devices <- MCDevices
  MdDevices <- MCMdDevices
  WithoutPartition <- MCWithoutPartition
  Appliances <- MCAppliances
  StoredBefore <- MCStoredBefore
  Upgrades = FALSE
  MaxChanges = 1
  MaxSaves = 1
SPECIFICATION Spec
CHECK_DEADLOCK FALSE
PROPERTY TempMonIsExposed
