\* The catch block adds a unit that was never taken.
CONSTANTS
  Sids = {s1}
  Users = {u1}
  Consumers = {c1}
  Partitions = {p1}
  InitialCount <- OneUnit
  Faults = {"mysql"}
  MaxFaults = 1
  MaxRecords = 1
  MaxBatch = 1
  NoJob = NoJob
SPECIFICATION Spec
CHECK_DEADLOCK FALSE
INVARIANT StockNotInflated
