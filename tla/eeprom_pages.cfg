SPECIFICATION Spec
CONSTANTS
  Capacity = 16
  Retries = 3
  MaxBusy = 4
  Faults = TRUE
  LC08 <- MCLC08
  AA64 <- MCAA64
  Calls <- AllCalls
INVARIANT WritesPrefix
CHECK_DEADLOCK FALSE
