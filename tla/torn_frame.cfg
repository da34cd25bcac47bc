CONSTANTS
  MaxFrames = 3
  Cells = 2
  StreakMax = 1
SPECIFICATION Spec
INVARIANT PartsAreFrames
