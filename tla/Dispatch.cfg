CONSTANTS
  Class = {c1, c2}
  Pattern = {p1, p2}
  Apps <- MCApps
  MaxInits = 2
  MaxFrames = 2
SPECIFICATION Spec
SYMMETRY Symmetry
CHECK_DEADLOCK FALSE
INVARIANTS
  AnnouncedOnce
  LiveMeansReady
  EachHearsOnce
