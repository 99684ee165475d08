CONSTANTS
  Scenes <- Scenes_
  MaxMoves = 2
  Surfaces <- Surfaces_
  One = 64
  MIN_OPTICAL_INTENSITY = 1
  MAX_OPTICAL_RECURSION_DEPTH = 4
SPECIFICATION Spec
INVARIANTS RigidMotion CrossingsAreBoundary MediumIsRight NoLightFromNothing FailsOnlyAtSeams
PROPERTIES TreeSpec
CHECK_DEADLOCK FALSE
