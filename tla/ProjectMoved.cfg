SPECIFICATION RenamingSpec
CONSTANTS
  t1 = t1
  t2 = t2
  t3 = t3
  a = a
  b = b
  c1 = c1
  c2 = c2
  s1 = s1
  s2 = s2
  dir1 = dir1
  dir2 = dir2
  away = away
  other = other
  Checkouts = {c1, c2}
  Origin = origin
  Profiles = {a, b}
  Terminals = {t1}
  CheckoutOf <- MCCheckoutOf
  ProfileOf <- MCProfileOf
  Free = Free
  Sessions = {s1}
  Paths = {dir1, dir2, away, other}
  Elsewhere = {away}
  Portable = portable
  HomePath <- MCHomePath
  Visited <- MCVisited
  Line <- MCLine
  Name = {}
  NoName = NoName
  MaxLines = 2
  MaxEdits = 2
  MaxMoves = 1
  MaxCrashes = 0
INVARIANT TombstonesOnlyDeleted
