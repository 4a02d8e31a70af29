SPECIFICATION FairSpec
CONSTANTS
  Conns = {c1}
  Procs = {p1,p2}
  Callers = {k1}
  NoConn = NoConn
  NoProc = NoProc
  IPs = {ip1}
  MaxRetries = 2
  AutoReconnect = TRUE
  MaxGen = 1
PROPERTY GivesUp
