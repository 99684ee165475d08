SPECIFICATION Spec
CONSTANTS
  Scenes <- SmallScenes
  Gaps <- SmallGaps
  EPSILON = 2
INVARIANTS LitByTheNearest AmbiguousIsClose ShadowsAreTrue
CHECK_DEADLOCK FALSE
