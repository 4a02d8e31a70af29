SPECIFICATION PacedSpec
CONSTANTS
  Conns = {c1,c2}
  Procs = {p1,p2,p3}
  Callers = {k1,k2}
  NoConn = NoConn
  NoProc = NoProc
  IPs = {ip1,ip2}
  MaxRetries = 2
  AutoReconnect = TRUE
  MaxGen = 1
SYMMETRY Symm
INVARIANTS OneAttends NoOrphan NewsIsCurrent Watched RestartMarkIsFresh
PROPERTY SlotSpec
