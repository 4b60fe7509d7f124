SPECIFICATION Spec
CONSTANTS
  Threads = {t1}
  Fds <- OneFd
  Calls <- SingleCalls
  MaxIO = 2
  MaxBytes = 2
  MaxOpens = 3
  MaxIds = 6
  Threshold = 2
  Match = "All"
  Control = {}
  Faulty = TRUE
  Absent = Absent
CHECK_DEADLOCK FALSE
INVARIANTS TypeOK   
