\* A removal answered with success leaves the content.
CONSTANTS
  u1 = u1
  u2 = u2
  u3 = u3
  Uploads = {u1}
  FileCount <- TwoThenOne
  LoggedIn = {u1}
  Removals = {d1}
  Views = {}
  NoFile = NoFile
  MaxFaults = 0
SPECIFICATION Spec

CHECK_DEADLOCK FALSE
INVARIANTS RemovedIsGone
