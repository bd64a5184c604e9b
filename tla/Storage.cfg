SPECIFICATION StorageSpec
CONSTANTS
  Presets = {"xbox"}
  Default = "xbox"
  Ids = {l1, l2}
  MaxEdits = 2
  Biases = {1}
  Full = 2
  MaxPrompts = 2
INVARIANTS SavedAsShown ActiveIsEdited ProgressIsReal BiasIsStored
SYMMETRY Symmetry
CHECK_DEADLOCK FALSE
