\* Two threads: EXEC gives up silently after the row is inserted.
CONSTANTS
  Sids = {s1}
  Users = {u1}
  Consumers = {c1, c2}
  Partitions = {p1, p2}
  InitialCount <- OneUnit
  Faults = {}
  MaxFaults = 0
  MaxRecords = 1
  MaxBatch = 1
  NoJob = NoJob
SPECIFICATION Spec
CHECK_DEADLOCK FALSE
INVARIANT EveryOrderDeducted
