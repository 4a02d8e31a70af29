SPECIFICATION FairSpec
CONSTANTS
  Zones = {z1,z2}
  NoZone = NoZone
  Refreshers = {r1}
  IPs = {ip1,ip2}
  NoIP = NoIP
  Host = z1
  PageSize = 1
  MaxPages = 2
  MaxRecords = 2
  MaxRetries = 2
INVARIANTS TypeOK FoundIfSteady RowIsCurrent
PROPERTIES CondemnsJustly FollowsRecord
