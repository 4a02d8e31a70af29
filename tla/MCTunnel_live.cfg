SPECIFICATION FairSpec
CONSTANTS
  Conns = {c1,c2}
  Procs = {p1,p2}
  Callers = {k1}
  NoConn = NoConn
  NoProc = NoProc
  IPs = {ip1}
  MaxRetries = 1
  AutoReconnect = TRUE
  MaxGen = 2
PROPERTIES DeathIsNoticed BannerEnds BeatRetires
