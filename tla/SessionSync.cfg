SPECIFICATION Spec
CONSTANTS
  Profiles = {p1, p2}
  Sessions = {1, 2}
  Free = Free
  Line = {x, y}
  Name = {n}
  NoName = NoName
  EligibleChoices <- AllEligible
  ResolveChoices <- BothWinners
  CodexConcurrent = FALSE
  MaxLines = 3
  MaxEdits = 4
  MaxCrashes = 0
SYMMETRY Symmetry
INVARIANTS
  TypeOK
  TombstoneFinal
  TombstonesOnlyDeleted
PROPERTIES
  NoSilentLoss
  SyncConverges
  ConflictStopsAll
  ReplicaSpec
