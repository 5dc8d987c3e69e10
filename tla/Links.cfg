SPECIFICATION Spec
CONSTANTS
  c1 = c1
  c2 = c2
  g1 = g1
  g2 = g2
  Controller = {c1, c2}
  Stream = {g1, g2}
  MaxMoves = 4
  MaxWire = 2
  None = None
SYMMETRY Symm
CONSTRAINT Small
CHECK_DEADLOCK FALSE
INVARIANTS
  LinksInv
  HandedOnce
  OutStaysOut
  LivePlayerLit
  GameColourForgotten
