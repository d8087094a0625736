\* An import that moves between providers, explicit stops and preloading.
CONSTANTS
  Harness <- MoveBack
  Initial = "a"
  PluginOrder <- MovePlugins
  ComponentOrder <- MoveComponents
  Factories = {"Q", "X"}
  Preloaded = {"Y"}
  Calls = {c1}
  Tasks = {t1}
  MaxObjects = 5
  MaxStops = 1
  None = None
SPECIFICATION Spec
INVARIANT RetirementCancels
