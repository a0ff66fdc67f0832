SPECIFICATION MCSpec
CONSTANTS
    None = None
    h1 = h1
    h2 = h2
    s = s
    d = d
    Profiles <- MCProfiles
    Homes <- MCHomes
    Servers <- MCServers
    Paths <- MCPaths
    Commands <- MCCommands
    Procs = {c1, c2}
    MaxCommands = 3
    MaxEdits = 1
SYMMETRY ProcSymmetry
INVARIANTS
    TypeOK
    ReferencesValid
    SyncsBeforeUse
PROPERTIES
    StoreSpec
    SyncKeepsSettings
CHECK_DEADLOCK FALSE
