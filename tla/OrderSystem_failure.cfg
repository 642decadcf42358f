\* One instance, no failure: told of failure, then of success.
CONSTANTS
  s1 = s1
  u1 = u1
  u2 = u2
  c1 = c1
  c2 = c2
  r1 = r1
  r2 = r2
  r3 = r3
  Sids = {s1}
  Users = {u1}
  Consumers = {c1}
  Partitions = {p1}
  InitialCount <- OneUnit
  Faults = {}
  MaxFaults = 0
  MaxRecords = 1
  MaxBatch = 1
  NoJob = NoJob
  Requests = {r1}
  NoUser = NoUser
  BuyerOf <- OneLogged
  SidOf <- OneSid
  ServedBy <- OneHost
  BrokerFaults = FALSE
CHECK_DEADLOCK FALSE
SPECIFICATION SystemSpec
PROPERTY FailureIsFinal
