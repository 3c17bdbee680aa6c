\* A stop whose two seconds may pass.
SPECIFICATION Spec
CONSTANTS
  Slots = 2
  MaxSent = 2
  MaxInits = 1
INVARIANT CallbacksLetGo
CHECK_DEADLOCK FALSE
