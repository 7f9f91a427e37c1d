SPECIFICATION Spec
CONSTANTS
  Consumable = {c1}
  User = {u1, u2}
  Issue = {i1, i2, i3}
  Handler = {h1, h2}
  Item = {k1}
  None = None
  Spenders = {u2}
  MaxStock = 2
  MaxAsk = 2

INVARIANTS NoUnitsInvented HoldingsTracked
SYMMETRY Symmetry
CHECK_DEADLOCK FALSE
