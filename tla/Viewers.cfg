SPECIFICATION FairSpec
CONSTANTS
  i1 = i1
  i2 = i2
  i3 = i3
  i4 = i4
  i5 = i5
  a = a
  b = b
  p = p
  q = q
  Unset = Unset
  Nothing = Nothing
  Failed = Failed
  ThreadIds = {i1, i2, i3, i4, i5}
  ProfileNames = {a, b}
  ProjectRoots = {p, q}
  Feeds <- MCFeeds
  WireSize = 1
  AccountNumber = 2
  Searches = {p}
  PageSize = 2
  MaxRequests = 2
  MaxEvents = 3
INVARIANTS
  TypeOK
  CursorOnRow
  ListNotOlder
  ListAnswersControls
  SubagentsPlaced
PROPERTIES
  ViewersCatchUp
