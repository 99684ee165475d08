CONSTANTS
  Pictures <- MCPictures
  PaletteMax <- MCPaletteMax
  Images <- MCImages
  Byte <- MCByte
  LzInputs <- MCLzInputs
  WindowSize = 10
  BlockSize = 8
  MaxMatch = 7
  FarDistance = 4
  ChainShare = 3
  HashValues <- MCHashValues
  HashStep <- MCHashStep
  CodeInputs <- MCCodeInputs
  LengthInputs <- MCLengthInputs
  BlockInputs <- MCBlockInputs
  Drawings <- MCDrawings
SPECIFICATION PngSpec
INVARIANTS LzLossless ColorModeIsLossless FilterUndone CodeIsDecodable CodeIsOptimal BlockReadBack WholeOrRefused
PROPERTIES WriterEnds
