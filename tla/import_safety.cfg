SPECIFICATION RowsSpec
CONSTANTS
  Job = {j1}
  Imports = {j1}
  Legacy = {}
  Worker = {w1, w2}
  NoJob = NoJob
  Task = {t1,t2,t3}
  NoTask = NoTask
  MaxAttempts = 2
  MaxRetries = 1
  StaleAfter = 2
  DispatchGrace = 1
  TimeLimit = 1
  SweepLimit = 0
  AgeCap = 2
  Faults = {"redeliver","commit","transient","fatal","broker"}
  MaxFaults = 1
  Deletable = {}
  Prompt = TRUE
  File <- MCFile
  Fragile = {"plain"}
  Serial = {"serial"}
  CheckAt = {3}

INVARIANTS UploadKept NoOrphanObject AllRowsAccounted NoImportAfterPayload TwiceOnlyAtOnce
SYMMETRY Symmetric
