CONSTANTS
  web = web
  vm = vm
  stack = stack
  Containers = {web}
  Vms = {vm}
  Projects = {stack}
  Jobs = {}
  Plugin = {"Compose", "compose"}
  MaxRetries = 1
  MaxId = 2
  MaxEvents = 2
SPECIFICATION FairSpec
INVARIANT TypeOK
INVARIANT OutcomeIsTold
PROPERTY RepeatedOnlyWhenLost
PROPERTY RefusedOnlyIfStale
PROPERTY SwitchesSettle
