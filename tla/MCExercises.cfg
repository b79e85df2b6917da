\* Two threads and three chunks; four generators and three adders; three bits; two numbers;
\* of the ring casts of two writers or up to three readers.  The programs end.
SPECIFICATION MCSpec
CONSTANTS
    Versions = {1, 2, 3}
    Threads = {t1, t2}
    Nobody = Nobody
    MaxLength = 5
    ChunkSize = 2
    w1 = w1
    w2 = w2
    r1 = r1
    r2 = r2
    r3 = r3
    NoPid = NoPid
    Writers = {w1, w2}
    Readers = {r1, r2, r3}
    BUF_SIZE = 2
    MAX_READERS = 2
    MaxCtrlC = 2
    Numbers = 2
    MaxRetries = 2
INVARIANTS
    EncodingIsRight
    NumbersAreRight
    SharedMemoryIsRight

    
CHECK_DEADLOCK FALSE
