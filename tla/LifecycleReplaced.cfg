\* A task begun two generations before its instance is replaced.
CONSTANTS
  Harness <- Move
  Initial = "a"
  PluginOrder <- MovePlugins
  ComponentOrder <- MoveComponents
  Factories = {"Q", "X", "Y"}
  Preloaded = {}
  Calls = {}
  Tasks = {t1}
  MaxObjects = 6
  MaxStops = 0
  None = None
SPECIFICATION Spec
INVARIANT ReplacedWorkCancelled
