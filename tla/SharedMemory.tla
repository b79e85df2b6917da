---------------------------- MODULE SharedMemory ----------------------------
(***************************************************************************)
(* The two exercises whose processes share memory: the cell of os_hw6 and  *)
(* os_hw7 (SharedNumber) and the ring of os_hw8 (ReadersWriter).  They     *)
(* share no state with each other.                                         *)
(***************************************************************************)
EXTENDS Integers, Sequences, FiniteSets

CONSTANTS
    Numbers, MaxRetries,                                            \* SharedNumber
    Writers, Readers, NoPid, BUF_SIZE, MAX_READERS, MaxCtrlC        \* ReadersWriter

\* A process is either program, and there are finitely many; a ring has a cell.
ASSUME SharedMemoryAssumption ==
    /\ Numbers \in Nat /\ MaxRetries \in Nat
    /\ Writers \intersect Readers = {} /\ IsFiniteSet(Readers) /\ NoPid \notin Writers
    /\ BUF_SIZE \in Nat \ {0} /\ MAX_READERS \in Nat /\ MaxCtrlC \in Nat

VARIABLES
    by_signal, type, rand_num, csPc, s_running, client_id, retries, printed, ccPc, c_running,
    server_pid, made, typed_last, interrupted, usr1,
    ringPc, sigterm, handling, ctrl_c, known, full, empty, read_mutex, write_mutex, admin, writer,
    first_writer, reader, own, reader_gen, removed, spoilt, store, ring_write, ring_read,
    reader_pids, writer_pid

Cell == INSTANCE SharedNumber WITH sPc <- csPc, cPc <- ccPc, ctrl_c <- interrupted
Ring == INSTANCE ReadersWriter WITH pc <- ringPc, write_index <- ring_write, read_index <- ring_read

sharing == <<by_signal, type, rand_num, csPc, s_running, client_id, retries, printed, ccPc,
             c_running, server_pid, made, typed_last, interrupted, usr1>>
reading == <<ringPc, sigterm, handling, ctrl_c, known, full, empty, read_mutex, write_mutex, admin,
             writer, first_writer, reader, own, reader_gen, removed, spoilt, store, ring_write,
             ring_read, reader_pids, writer_pid>>

\* run_server, run_client of os_hw6 and os_hw7: what is printed are the client's numbers in
\* their order, and who exchanges numbers knows the other.
CellIsRight == Cell!TypeOK /\ Cell!NumbersInOrder /\ Cell!PidsAreKnown

\* The loops of the reader and of the writer of os_hw8: a reader finds a number and the writer
\* an empty cell; one writer sets the ring up before readers see it; readers are registered
\* within the array and objects of two ages do not meet, before a removal (sigfunc).
RingIsRight == Ring!TypeOK /\ Ring!CellsAreRight /\ Ring!OneWriter /\ Ring!SpoiltByRemoval

\* Both exercises: what one process finds in the memory is what the other has put there.
SharedMemoryIsRight == CellIsRight /\ RingIsRight
=============================================================================
