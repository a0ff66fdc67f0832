SPECIFICATION MCFairSpec
CONSTANTS
    None = None
    Publishers = {"watcher"}
    Threads = {"t"}
    MaxVersion = 1
    QueueSize = 1
    MaxRetries = 1
    Ids = {1, 2, 3, 4, 5, 6}
    MaxEvents = 2
PROPERTIES
    MonitorConverges
CHECK_DEADLOCK FALSE
