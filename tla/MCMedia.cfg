SPECIFICATION MediaSpec
CONSTANTS
  Cells <- MCCells
  Images <- MCImages
  CountRange = 4
  NumBytes = 2
  Tracks = 1
  Sectors = 1
  Bytes = {0, 1, 2}
INVARIANTS Framed RxHandshake
PROPERTIES LatchesInterrupt ProtectedKeeps RxProgress RxBufferWhole
