SPECIFICATION FairSpec
CONSTANTS
  Job = {j1}
  Imports = {j1}
  Legacy = {j1}
  Worker = {w1}
  NoJob = NoJob
  Task = {t1,t2,t3,t4}
  NoTask = NoTask
  MaxAttempts = 2
  MaxRetries = 1
  StaleAfter = 2
  DispatchGrace = 1
  TimeLimit = 1
  SweepLimit = 1
  AgeCap = 3
  Faults = {"crash","timeout","transient","broker","redeliver"}
  MaxFaults = 1
  Deletable = {}
  Prompt = TRUE


PROPERTIES JobSettles
