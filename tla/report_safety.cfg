SPECIFICATION Spec
CONSTANTS
  Job = {j1}
  Imports = {}
  Legacy = {}
  Worker = {w1, w2}
  NoJob = NoJob
  Task = {t1, t2}
  NoTask = NoTask
  MaxAttempts = 2
  MaxRetries = 1
  StaleAfter = 2
  DispatchGrace = 1
  TimeLimit = 1
  SweepLimit = 1
  AgeCap = 3
  Faults = {"crash","timeout","transient","fatal","broker","storage","redeliver","commit"}
  MaxFaults = 2
  Deletable = {j1}
  Prompt = FALSE

INVARIANTS TypeOK LeaseExclusive WorkingOwnsLease DoneFileStored
PROPERTIES ImplementsLifecycle
SYMMETRY Symmetric
