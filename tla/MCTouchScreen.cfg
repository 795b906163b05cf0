SPECIFICATION Spec
CONSTANTS
  a = a
  b = b
  Id = {0, 1}
  Place = {0, 1, 2, 3}
  Screen = {0, 1, 2}
  Areas <- MCAreas
  Inside <- MCInside
  recordDistance = 1
  MaxLost = 1
  Nowhere = Nowhere
INVARIANTS
  TracksAreas
  PointersFollow
PROPERTY ShortTouchTold
