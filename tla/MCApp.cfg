SPECIFICATION FairSpec
CONSTANTS
  Absent = Absent
  Torn = Torn
  IOErrors = TRUE
  Nobody = Nobody
  Launches = {l1,l2}
INVARIANTS TypeOK NothingLost SealHasKey Reachable
PROPERTY ShowFromTray
