CONSTANTS
  W = 4
  Layouts <- MCNeighbour
  NoMaximum = NoMaximum
SPECIFICATION Spec
INVARIANT InitStaysInSegment
