SPECIFICATION Spec
CONSTANTS
  AutoReconnect = TRUE
  Jobs = {j1,j2}
  Configs = {a,b}
  MaxCmds = 1
INVARIANT RunsWhatIsSaved
