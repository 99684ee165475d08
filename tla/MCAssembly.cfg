SPECIFICATION AssemblySpec
CONSTANTS
  Widths <- SmallWidths
  Heights <- SmallHeights
  LineCounts <- SmallLineCounts
  Sizes <- SmallSizes
  Channels <- SmallChannels
  Colors <- SmallColors
  Ambiguous = Ambiguous
INVARIANTS EachPixelOnce HealedFromTraced OnePicture PixelNeverThrows
CHECK_DEADLOCK FALSE
