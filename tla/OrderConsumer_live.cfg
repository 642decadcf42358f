\* Every record is handled in the end, and the calls amount to the abstract ledger.
CONSTANTS
  Sids = {s1}
  Users = {u1}
  Consumers = {c1, c2}
  Partitions = {p1}
  InitialCount <- OneUnit
  Faults = {"crash", "rebalance", "redis", "mysql"}
  MaxFaults = 2
  MaxRecords = 2
  MaxBatch = 2
  NoJob = NoJob
SPECIFICATION FairSpec
CHECK_DEADLOCK FALSE
PROPERTIES EveryRecordHandled LedgerSpec
