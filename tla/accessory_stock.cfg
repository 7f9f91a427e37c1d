SPECIFICATION FairSpec
CONSTANTS
  Accessory = {a1}
  User = {u1, u2}
  Row = {r1, r2, r3}
  Handler = {h1, h2}
  None = None
  Endpoints = {"assign", "return", "self", "use", "condemn", "restock", "edit"}
  MaxStock = 2
  MaxAsk = 2

INVARIANTS OneOpenAssignment HoldingsMatchEvents
PROPERTIES OnlyEditsOverAssign RequestsAnswered
