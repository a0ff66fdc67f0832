SPECIFICATION MCSpec
CONSTANTS
    None = None
    Publishers = {"watcher", "ticker"}
    Threads = {"t"}
    MaxVersion = 20
    QueueSize = 1
    MaxRetries = 1
    Ids = {1, 2, 3, 4, 5, 6}
    MaxEvents = 2
INVARIANTS
    TypeOK
    AnswersMatch
PROPERTIES
    SnapshotsInOrder
CHECK_DEADLOCK FALSE
