\* Back to a generation under which a retained instance has a task.
CONSTANTS
  Harness <- Move
  Initial = "a"
  PluginOrder <- MovePlugins
  ComponentOrder <- MoveComponents
  Factories = {"Q", "X", "Y"}
  Preloaded = {}
  Calls = {}
  Tasks = {t1}
  MaxObjects = 6
  MaxStops = 0
  None = None
SPECIFICATION Spec
PROPERTY FailureLeavesActiveUntouched
