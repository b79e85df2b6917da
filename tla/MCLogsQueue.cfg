SPECIFICATION FairSpec
CONSTANTS
    Producers = {acceptor, poller, managers}
    Sender = sender
    Nobody = nobody
    Logs = {l1, l2}
    NoLog = nolog
    MaxSize = 2
INVARIANTS
    TypeOK
    QueueInv
    AssertsHold
PROPERTIES
    ImplementsFifo
    EnqueueNeverBlocks
    AcceptedLogIsTaken
    ThreadsEnd
CHECK_DEADLOCK FALSE
