SPECIFICATION Spec
CONSTANTS
  MinOffset <- MCMinOffset
  MaxOffset = 11
  Pointers = {p, q}
  Geps <- MCGeps
  Widths <- MCWidths
  Window <- MCWindow
  MaxGeps = 2
SYMMETRY MCSymmetry
INVARIANTS
  ChainSound
  RelationsExact
CHECK_DEADLOCK FALSE
