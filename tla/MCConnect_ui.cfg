SPECIFICATION FairSpec
CONSTANTS
  AutoReconnect = TRUE
  Jobs = {j1,j2}
  Configs = {a}
  MaxCmds = 1
INVARIANTS TypeOK BusyOwned DialogExclusive
PROPERTY ButtonsRecover
