SPECIFICATION Spec
CONSTANTS
  Profiles = {p1, p2}
  Sessions = {1}
  Free = Free
  Line = {x, y}
  Name = {n}
  NoName = NoName
  EligibleChoices <- AllEligible
  ResolveChoices <- BothWinners
  CodexConcurrent = TRUE
  MaxLines = 3
  MaxEdits = 4
  MaxCrashes = 0
SYMMETRY Symmetry
INVARIANT OverwriteKeepsLines
