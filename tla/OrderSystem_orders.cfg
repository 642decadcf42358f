\* Two instances, every kind of failure: what holds whatever happens.
CONSTANTS
  s1 = s1
  u1 = u1
  u2 = u2
  c1 = c1
  c2 = c2
  r1 = r1
  r2 = r2
  r3 = r3
  Sids = {s1}
  Users = {u1}
  Consumers = {c1, c2}
  Partitions = {p1}
  InitialCount <- OneUnit
  Faults = {"crash", "rebalance", "redis", "mysql"}
  MaxFaults = 1
  MaxRecords = 3
  MaxBatch = 2
  NoJob = NoJob
  Requests = {r1}
  NoUser = NoUser
  BuyerOf <- OneLogged
  SidOf <- OneSid
  ServedBy <- TwoHosts
  BrokerFaults = TRUE
CHECK_DEADLOCK FALSE
SPECIFICATION SystemSpec
INVARIANTS TypeOK CountNonNegative DeductionsBacked OversellBound AtLeastOnce SystemTypeOK OrdersRequested
