SPECIFICATION Spec
CONSTANTS
  Conns = {c1,c2}
  Procs = {p1,p2}
  Callers = {k1,k2}
  NoConn = NoConn
  NoProc = NoProc
  IPs = {ip1,ip2}
  MaxRetries = 1
  AutoReconnect = TRUE
  MaxGen = 2
SYMMETRY Symm
INVARIANTS TypeOK StoppedIsDead Attended OneBeatActs BeatKillsJudged
