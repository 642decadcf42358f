CONSTANTS
  u1 = u1
  u2 = u2
  u3 = u3
  v1 = v1
  s1 = s1
  s2 = s2
  Uploads = {u1, u2, u3}
  Submissions = {u1, u2}
  FileCount <- TwoThenOne
  LoggedIn = {}
  Removals = {1, 2, 3}
  Views = {v1}
  NoFile = NoFile
  MaxFaults = 2
  Browsers = {"formdata", "opera"}
  DomCheckCount = 2
  Selections = {s1, s2}
  NoSelection = NoSelection
  Escape <- SpaceEscaped
  Visits <- EightVisits
SPECIFICATION FairAlbum
CHECK_DEADLOCK FALSE
INVARIANTS TypeOK RecordHasContent RemovedOnce SuccessIsComplete NeverEmpty PageTypeOK
  ShownHasContent RemovalFindsElement ShownOnce GoneIsExplained UploadsToThisAlbum StatusIsTrue PreviewIsInput MenuCanClose
PROPERTIES AsOneCall Settles
