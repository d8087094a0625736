\* A bridge, its guest and a tool through reconfigurations and failures.
CONSTANTS
  Harness <- Bridge
  Initial = "guest"
  PluginOrder <- BridgePlugins
  ComponentOrder <- BridgeComponents
  Factories = {"bridge", "tool"}
  Preloaded = {}
  Calls = {c1}
  Tasks = {t1}
  MaxObjects = 6
  MaxStops = 0
  None = None
SPECIFICATION Spec
INVARIANTS InstanceAccounting ActiveIsCurrent OneTopology
  GuestsFollowProvider RollbackOrder
PROPERTY ActiveWorkSpared
