SPECIFICATION FairSpec
CONSTANTS
  Commands = {c1, c2}
  Daemons = {d1, d2, d3}
  None = None
  Cancellable = {c1}
  MaxCrashes = 1
INVARIANTS
  TypeOK
  LostOnlyByCrash
  TokenFitsState
  RunFindsToken
  NeverSignalsStranger
  NormalStopSparesBusy
PROPERTY ForcedStopStops
\* Every spawned process may be gone for good.
CHECK_DEADLOCK FALSE
