SPECIFICATION FairSpec
CONSTANTS
  Profiles = {p1, p2}
  Sessions = {1}
  Free = Free
  Line = {x, y}
  Name = {n, m}
  NoName = NoName
  EligibleChoices <- RunEligible
  ResolveChoices <- ProjectWins
  CodexConcurrent = FALSE
  MaxLines = 3
  MaxEdits = 4
  MaxCrashes = 0
INVARIANT StaleSideNeverWins
PROPERTIES
  RenamesMerge
  EventuallyInSync
