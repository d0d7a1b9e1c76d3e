CONSTANTS
  W = 4
  Layouts <- MCDropped
  NoMaximum = NoMaximum
SPECIFICATION Spec
INVARIANT DroppedStayDropped
