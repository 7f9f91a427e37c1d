SPECIFICATION Spec
CONSTANTS
  u1 = u1
  User = {u1}
  Role = {r1}
  Owner <- OneOwner
  Request = {q1, q2}
  None = None
  Faults = {"down", "lost", "flush"}
  MaxEvents = 2
PROPERTY KeepsPromise
SYMMETRY Symmetric
