\* Every pair of graphs over three components, two revisions each.
CONSTANTS
  Order <- ThreeComponents
  Revisions = {1, 2}
  Changing = {"a", "b", "c"}
  MaxImports = 2
  None = None
SPECIFICATION Spec
INVARIANT RestartsDependents
