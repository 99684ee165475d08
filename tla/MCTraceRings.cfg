CONSTANTS
  Scenes <- Rings
  MaxMoves = 1
  Surfaces <- Surfaces_
  One = 64
  MIN_OPTICAL_INTENSITY = 1
  MAX_OPTICAL_RECURSION_DEPTH = 4
SPECIFICATION Spec
INVARIANTS SceneArrives
CHECK_DEADLOCK FALSE
