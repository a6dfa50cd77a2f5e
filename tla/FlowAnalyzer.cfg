\* One TCP and one UDP flow; time for a handshake to time out and an entry to expire.
CONSTANTS
  Tcp = {t1}
  Udp = {u1}
  Timeout = 1
  Idle = 1
  MaxCount = 2
  MaxTime = 2
SPECIFICATION Spec
INVARIANTS TypeOK VerdictIsTrue LatencyIsHandshake
PROPERTY TableSpec
