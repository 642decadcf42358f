\* Two instances, three requests, no failure: who is turned away, who is served and told so.
CONSTANTS
  s1 = s1
  u1 = u1
  u2 = u2
  c1 = c1
  c2 = c2
  r1 = r1
  r2 = r2
  r3 = r3
  Sids = {s1}
  Users = {u1, u2}
  Consumers = {c1, c2}
  Partitions = {p1, p2}
  InitialCount <- OneUnit
  Faults = {}
  MaxFaults = 0
  MaxRecords = 2
  MaxBatch = 2
  NoJob = NoJob
  Requests = {r1, r2, r3}
  NoUser = NoUser
  BuyerOf <- TwoLogged
  SidOf <- OneSid
  ServedBy <- TwoHosts
  BrokerFaults = FALSE
CHECK_DEADLOCK FALSE
SPECIFICATION FairSystem
INVARIANTS OneOrderPerRequest TurnedAwayOnlyWhenSoldOut ExactSale
PROPERTIES SaleSpec VerdictsSettle
