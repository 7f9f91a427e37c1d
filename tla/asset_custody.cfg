SPECIFICATION Spec
CONSTANTS
  Equipment = {1, 2}
  User = {u1, u2}
  Request = {r1}
  Handler = {h1, h2}
  None = None
  Endpoints = {"assign", "unassign", "reassign", "status", "condemn", "ask", "decide", "process"}
  Changeable = {1}

INVARIANTS ClosedHasNoPending
PROPERTIES NoSilentTakeover
SYMMETRY Symmetry
