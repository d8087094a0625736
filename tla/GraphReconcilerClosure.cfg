\* Four components: an import can move from one provider to another.
CONSTANTS
  Order <- FourComponents
  Revisions = {1, 2}
  Changing = {"a"}
  MaxImports = 1
  None = None
SPECIFICATION Spec
INVARIANT RestartsClosure
