SPECIFICATION StoreSpec
CONSTANTS
  Absent = Absent
  Torn = Torn
  IOErrors = FALSE
INVARIANT SecretIsRead
