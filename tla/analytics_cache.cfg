SPECIFICATION FairSpec
CONSTANTS
  system = system
  auth = auth
  Kind = {system, auth}
  Section = {kpis}
  Depends <- OfKpis
  Request = {q1, q2}
  Task = {t1}
  None = None
  MaxDay = 2
  MaxRows = 2
  Faults = {"down", "crash", "error"}
PROPERTIES KeepsPromise AnswersCatchUp
