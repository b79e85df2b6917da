----------------------------- MODULE LogsQueue ------------------------------
(***************************************************************************)
(* The logs queue of os_ihw3/mark-10 (net/server-logs-queue.h): a ring of  *)
(* ServerLog slots, two semaphores counting free and added slots, and a    *)
(* mutex.  The acceptor, the workers poller and the managers handler       *)
(* (Producers) enqueue without ever waiting: no free slot or a busy mutex  *)
(* drops the log.  The logs sender is the only consumer and waits for both *)
(* the semaphore and the mutex.                                            *)
(*                                                                         *)
(* Every call on shared state is a step of its own, so the window in which *)
(* a producer holds a free slot but not the mutex, and the one in which a  *)
(* semaphore was posted but the mutex is still held, are visible.          *)
(* stop_all_threads cancels the threads; a thread only dies at a           *)
(* cancellation point, and there is none between taking the mutex and      *)
(* releasing it.                                                           *)
(***************************************************************************)
EXTENDS Naturals, FiniteSets

CONSTANTS
    Producers,   \* the threads that enqueue logs
    Sender,      \* the thread logs_sender runs in
    Nobody,      \* the owner of an unlocked mutex
    Logs,        \* the messages
    NoLog,       \* a log buffer before anything is written to it
    MaxSize      \* SERVER_LOGS_QUEUE_MAX_SIZE

ASSUME QueueAssumption ==
    /\ IsFiniteSet(Producers)
    /\ Sender \notin Producers
    /\ Nobody \notin Producers \union {Sender}
    /\ NoLog \notin Logs
    /\ MaxSize \in Nat \ {0}

VARIABLES
    array, size, read_index, write_index,   \* struct ServerLogsQueue
    mutex,                                  \* queue_access_mutex: its owner
    free, added,                            \* free_elems_sem, added_elems_sem
    pc,         \* where each producer is in ..._nonblocking_enqueue
    plog,       \* the log each producer passes to it
    spc,        \* where the sender is in its loop and in ..._dequeue
    slog,       \* the sender's buffer
    stopping    \* stop_all_threads has run

ring == <<array, size, read_index, write_index>>
vars == <<array, size, read_index, write_index, mutex, free, added,
          pc, plog, spc, slog, stopping>>

Slots == 0 .. MaxSize - 1

\* The slot after i, as both indices advance.
NextSlot(i) == (i + 1) % MaxSize

Init ==
    /\ array = [i \in Slots |-> NoLog]
    /\ size = 0 /\ read_index = 0 /\ write_index = 0
    /\ mutex = Nobody
    /\ free = MaxSize /\ added = 0
    /\ pc = [p \in Producers |-> "idle"]
    /\ plog = [p \in Producers |-> NoLog]
    /\ spc = "loop"
    /\ slog = NoLog
    /\ stopping = FALSE

-----------------------------------------------------------------------------
(* server_logs_queue_nonblocking_enqueue, run by producer p.               *)

Goto(p, l) == pc' = [pc EXCEPT ![p] = l]

\* Mutant: sem_getvalue in place of sem_trywait, the slot is not taken.
TryWaitPeeks(p) ==
    /\ pc[p] = "idle" /\ free > 0
    /\ \E l \in Logs : plog' = [plog EXCEPT ![p] = l]
    /\ Goto(p, "trylock")
    /\ UNCHANGED <<ring, mutex, free, added, spc, slog, stopping>>

\* A call begins: sem_trywait takes a free slot ...
TryWait(p) ==
    /\ pc[p] = "idle" /\ free > 0
    /\ free' = free - 1
    /\ \E l \in Logs : plog' = [plog EXCEPT ![p] = l]
    /\ Goto(p, "trylock")
    /\ UNCHANGED <<ring, mutex, added, spc, slog, stopping>>

\* ... or finds none, and the call returns false with nothing changed.
NoFreeSlot(p) ==
    /\ pc[p] = "idle" /\ free = 0
    /\ UNCHANGED vars

\* Mutant: pthread_mutex_lock in place of pthread_mutex_trylock.
TryLockWaits(p) ==
    /\ pc[p] = "trylock" /\ mutex = Nobody
    /\ mutex' = p /\ Goto(p, "write")
    /\ UNCHANGED <<ring, free, added, plog, spc, slog, stopping>>

TryLock(p) ==
    /\ pc[p] = "trylock"
    /\ \/ mutex = Nobody /\ mutex' = p /\ Goto(p, "write")
       \/ mutex # Nobody /\ UNCHANGED mutex /\ Goto(p, "giveup")
    /\ UNCHANGED <<ring, free, added, plog, spc, slog, stopping>>

\* Mutant: the early return leaves out sem_post.
GiveUpKeepsSlot(p) ==
    /\ pc[p] = "giveup"
    /\ Goto(p, "idle")
    /\ UNCHANGED <<ring, mutex, free, added, plog, spc, slog, stopping>>

\* Mutant: the early return posts the other semaphore.
GiveUpPostsAdded(p) ==
    /\ pc[p] = "giveup"
    /\ added' = added + 1
    /\ Goto(p, "idle")
    /\ UNCHANGED <<ring, mutex, free, plog, spc, slog, stopping>>

\* The mutex was busy: the slot is given back and the log is dropped.
GiveUp(p) ==
    /\ pc[p] = "giveup"
    /\ free' = free + 1
    /\ Goto(p, "idle")
    /\ UNCHANGED <<ring, mutex, added, plog, spc, slog, stopping>>

WriteSlot(p) ==
    /\ pc[p] = "write"
    /\ array' = [array EXCEPT ![write_index] = plog[p]]
    /\ write_index' = NextSlot(write_index)
    /\ size' = size + 1
    /\ Goto(p, "post")
    /\ UNCHANGED <<read_index, mutex, free, added, plog, spc, slog, stopping>>

\* Mutant: nobody wakes the sender.
PostNothing(p) ==
    /\ pc[p] = "post"
    /\ Goto(p, "unlock")
    /\ UNCHANGED <<ring, mutex, free, added, plog, spc, slog, stopping>>

PostAdded(p) ==
    /\ pc[p] = "post"
    /\ added' = added + 1
    /\ Goto(p, "unlock")
    /\ UNCHANGED <<ring, mutex, free, plog, spc, slog, stopping>>

Unlock(p) ==
    /\ pc[p] = "unlock"
    /\ mutex' = Nobody
    /\ Goto(p, "idle")
    /\ UNCHANGED <<ring, free, added, plog, spc, slog, stopping>>

\* A producer thread ends between two calls once it is cancelled; or, with the slot it
\* holds, in the perror of a failed trylock, which does not set the errno that is tested.
ProducerExit(p) ==
    /\ stopping
    /\ \/ pc[p] = "idle" /\ Goto(p, "done")
       \/ pc[p] = "giveup" /\ Goto(p, "cancelled")
    /\ UNCHANGED <<ring, mutex, free, added, plog, spc, slog, stopping>>

-----------------------------------------------------------------------------
(* logs_sender and server_logs_queue_dequeue.                              *)

\* The loop condition, while (is_logger_running).
SenderLoop ==
    /\ spc = "loop"
    /\ spc' = IF stopping THEN "done" ELSE "wait"
    /\ UNCHANGED <<ring, mutex, free, added, pc, plog, slog, stopping>>

WaitAdded ==
    /\ spc = "wait" /\ added > 0
    /\ added' = added - 1
    /\ spc' = "lock"
    /\ UNCHANGED <<ring, mutex, free, pc, plog, slog, stopping>>

LockMutex ==
    /\ spc = "lock" /\ mutex = Nobody
    /\ mutex' = Sender
    /\ spc' = "read"
    /\ UNCHANGED <<ring, free, added, pc, plog, slog, stopping>>

\* Mutant: the index is advanced before the slot is read.
ReadNextSlot ==
    /\ spc = "read"
    /\ slog' = array[NextSlot(read_index)]
    /\ read_index' = NextSlot(read_index)
    /\ size' = size - 1
    /\ spc' = "post"
    /\ UNCHANGED <<array, write_index, mutex, free, added, pc, plog, stopping>>

ReadSlot ==
    /\ spc = "read"
    /\ slog' = array[read_index]
    /\ read_index' = NextSlot(read_index)
    /\ size' = size - 1
    /\ spc' = "post"
    /\ UNCHANGED <<array, write_index, mutex, free, added, pc, plog, stopping>>

PostFree ==
    /\ spc = "post"
    /\ free' = free + 1
    /\ spc' = "unlock"
    /\ UNCHANGED <<ring, mutex, added, pc, plog, slog, stopping>>

SenderUnlock ==
    /\ spc = "unlock"
    /\ mutex' = Nobody
    /\ spc' = "send"
    /\ UNCHANGED <<ring, free, added, pc, plog, slog, stopping>>

\* send_server_log and the nanosleep that follows it.
Send ==
    /\ spc = "send"
    /\ spc' = "loop"
    /\ UNCHANGED <<ring, mutex, free, added, pc, plog, slog, stopping>>

\* Mutant: the flags are cleared but nobody calls pthread_cancel.
SenderNotCancelled ==
    /\ stopping /\ spc = "send"
    /\ spc' = "done"
    /\ UNCHANGED <<ring, mutex, free, added, pc, plog, slog, stopping>>

\* sem_wait, send and nanosleep are the sender's cancellation points.
SenderCancelled ==
    /\ stopping /\ spc \in {"wait", "send"}
    /\ spc' = "done"
    /\ UNCHANGED <<ring, mutex, free, added, pc, plog, slog, stopping>>

-----------------------------------------------------------------------------
StopAllThreads ==
    /\ ~stopping
    /\ stopping' = TRUE
    /\ UNCHANGED <<ring, mutex, free, added, pc, plog, spc, slog>>

\* The step a producer takes inside a call.
Enqueue(p) ==
    TryLock(p) \/ GiveUp(p) \/ WriteSlot(p) \/ PostAdded(p) \/ Unlock(p)

\* The step of the sender's thread.
SenderStep ==
    \/ SenderLoop \/ WaitAdded \/ LockMutex \/ ReadSlot
    \/ PostFree \/ SenderUnlock \/ Send

Next ==
    \/ \E p \in Producers :
          TryWait(p) \/ NoFreeSlot(p) \/ Enqueue(p) \/ ProducerExit(p)
    \/ SenderStep
    \/ SenderCancelled
    \/ StopAllThreads

Spec == Init /\ [][Next]_vars

\* The scheduler runs every thread that can run.  Nothing makes a producer
\* start a call, and nothing makes anybody press Ctrl-C.
Fairness ==
    /\ \A p \in Producers : WF_vars(Enqueue(p)) /\ WF_vars(ProducerExit(p))
    /\ WF_vars(SenderStep) /\ WF_vars(SenderCancelled)

FairSpec == Spec /\ Fairness

-----------------------------------------------------------------------------
(* What the queue guarantees.                                              *)

Ended == {"done", "cancelled"}
ProducerPC == {"idle", "trylock", "giveup", "write", "post", "unlock"} \union Ended
SenderPC == {"loop", "wait", "lock", "read", "post", "unlock", "send", "done"}

\* The queue's fields and both semaphores (server-logs-queue.h:15-23) stay in
\* range: the indices name slots, and no counter leaves 0 .. MaxSize.
TypeOK ==
    /\ array \in [Slots -> Logs \union {NoLog}]
    /\ size \in 0 .. MaxSize
    /\ read_index \in Slots /\ write_index \in Slots
    /\ mutex \in Producers \union {Sender, Nobody}
    /\ free \in 0 .. MaxSize /\ added \in 0 .. MaxSize
    /\ pc \in [Producers -> ProducerPC]
    /\ plog \in [Producers -> Logs \union {NoLog}]
    /\ \A p \in Producers : pc[p] \notin {"idle"} \union Ended => plog[p] \in Logs
    /\ spc \in SenderPC
    /\ slog \in Logs \union {NoLog}
    /\ stopping \in BOOLEAN

\* The producers that took a free slot and have not filled it.
Reserving == {p \in Producers : pc[p] \in {"trylock", "giveup", "write", "cancelled"}}

\* The mutex is held by exactly the thread that is between lock and unlock.
MutexHeld ==
    /\ \A p \in Producers : mutex = p <=> pc[p] \in {"write", "post", "unlock"}
    /\ mutex = Sender <=> spc \in {"read", "post", "unlock"}

\* Every slot is free, reserved by a producer, filled, or read and about to be
\* posted back: what free_elems_sem counts, in the windows between the calls.
FreeSlotsCounted ==
    free + Cardinality(Reserving) + size + (IF spc = "post" THEN 1 ELSE 0)
        = MaxSize

\* Every filled slot was posted to added_elems_sem, is about to be, or is
\* already claimed by the sender.
FilledSlotsCounted ==
    added + (IF \E p \in Producers : pc[p] = "post" THEN 1 ELSE 0)
          + (IF spc \in {"lock", "read"} THEN 1 ELSE 0)
        = size

\* The slots from read_index on, size of them, end just before write_index.
IndicesAgree == write_index = (read_index + size) % MaxSize

\* The inductive invariant: both semaphores, the size field and the two
\* indices describe the same ring at every step of every thread.
QueueInv ==
    TypeOK /\ MutexHeld /\ FreeSlotsCounted /\ FilledSlotsCounted /\ IndicesAgree

\* assert(queue->size < SERVER_LOGS_QUEUE_MAX_SIZE) in the enqueue (line 80)
\* and assert(queue->size > 0) in the dequeue (line 106) never abort the
\* server, although neither function tests size before it changes it.
AssertsHold ==
    /\ \A p \in Producers : pc[p] = "write" => size < MaxSize
    /\ spc = "read" => size > 0

\* n slots of the ring a from slot r on, in order.
SlotsFrom(a, r, n) == [i \in 1 .. n |-> a[(r + i - 1) % MaxSize]]

\* The logs in the ring, oldest first.
Contents == SlotsFrom(array, read_index, size)

Fifo == INSTANCE LogsFifo
    WITH queue <- Contents, taken <- slog, Capacity <- MaxSize

\* The ring implements a FIFO: an accepted log is never overwritten, reordered,
\* taken twice or taken before it was written, whatever the threads interleave.
ImplementsFifo == Fifo!Spec

\* nonblocking_enqueue keeps its name: a call always ends, however long the
\* sender or another producer keeps the mutex or the ring stays full.
EnqueueNeverBlocks == \A p \in Producers :
    (pc[p] \notin {"idle"} \union Ended) ~> (pc[p] \in {"idle"} \union Ended)

\* A log in the ring gets the sender to take a log, unless the server stops.
\* The producers can not keep the mutex from the sender for ever: each of
\* them needs a free slot to try it, and only the sender makes more of those.
AcceptedLogIsTaken == (size > 0) ~> (spc = "send" \/ stopping)

\* After stop_all_threads every thread ends, so the pthread_join calls of
\* start_runtime_loop return: no thread dies holding the mutex, and the sender
\* does not sleep on in sem_wait.
ThreadsEnd == stopping ~> (spc = "done" /\ \A p \in Producers : pc[p] \in Ended)
=============================================================================
