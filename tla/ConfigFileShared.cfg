\* The manager and the panel, through the same temporary name.
SPECIFICATION Spec
CONSTANTS
  Writers = {"manager", "panel"}
  Kind <- SaveKind
  Tmp <- SaveName
  Config = "config.json"
  Blocks <- SaveBlocks
  MaxBlocks = 2
  IoErrors = FALSE
  MaxSaves <- SaveBounds
  MaxCrashes = 0
INVARIANT ConfigIsWhole
