SPECIFICATION Spec
CONSTANTS
  Profiles = {p1, p2}
  Sessions = {1, 2}
  Free = Free
  Line = {x}
  Name = {n}
  NoName = NoName
  EligibleChoices <- AllEligible
  ResolveChoices <- BothWinners
  CodexConcurrent = TRUE
  MaxLines = 3
  MaxEdits = 4
  MaxCrashes = 2
SYMMETRY Symmetry
INVARIANT AtMostOneTorn
PROPERTY UnmanagedSurvives
\* A torn mirror stops every later synchronization.
CHECK_DEADLOCK FALSE
