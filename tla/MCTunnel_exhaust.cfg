SPECIFICATION PacedSpec
CONSTANTS
  Conns = {c1,c2}
  Procs = {p1,p2,p3}
  Callers = {k1}
  NoConn = NoConn
  NoProc = NoProc
  IPs = {ip1}
  MaxRetries = 1
  AutoReconnect = TRUE
  MaxGen = 0
PROPERTY ExhaustsOwn
