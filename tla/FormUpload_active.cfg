\* One upload through a hidden frame that the timeout or a broken connection aborts.
CONSTANTS
  Submissions = {u1}
  Browsers = {"frames"}
  DomCheckCount = 1
SPECIFICATION FormSpec
CHECK_DEADLOCK FALSE
INVARIANT ActiveCounts
