SPECIFICATION AccountSpec
CONSTANTS
  Handler = {h1, h2}
  LockAfter = 2
  PermanentAfter = 3
  MaxSessions = 1
  Link = {l1}
  MaxPasswords = 1
  MaxOpen = 2
INVARIANTS SessionsFollowPassword LockoutComes
PROPERTIES LockStands LimitHolds
SYMMETRY Symmetry
