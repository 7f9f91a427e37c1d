SPECIFICATION FairSpec
CONSTANTS
  Tab = {t1, t2}
  Token = {k1, k2, k3, k4}
  None = None
  Latency = 1
  Grace = 3
  PingGap = 3
  Idle = 6
  AccessLife = 4
  MaxFaults = 1

INVARIANTS OneWinner CredentialKept SignedOutIsEnded NoFalseAlarm
PROPERTY TabsServed
