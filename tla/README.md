# Models of arch-comp-systems

The repository holds the assignments of a course on computer architecture and operating
systems. The programs worth verifying are the concurrent ones: servers and clients over TCP
and UDP, processes that share memory, semaphores, queues, pipes and signals. This directory
models them in TLA+, checks small instances with TLC and proves the main safety properties
with TLAPS for every value of the constants.

The largest program, and the one modelled first, is the pin factory of `os_ihw3/mark-10`:
workers of three stages connect to a TCP server, which passes pins from stage to stage,
sends its logs to logs collectors, and takes commands from managers.

## 1. Inventory

### os_ihw3/mark-10: the TCP server and its clients

| part | state | operations | interacts with |
|---|---|---|---|
| logs queue (`server-logs-queue.h`) | a ring of `ServerLog`, read and write index, semaphores `added_elems` and `free_elems`, a mutex | `..._nonblocking_enqueue` (gives up when the ring is full or the mutex taken), `..._dequeue` (waits) | every thread logs through it; the logs sender empties it |
| pin pipeline (`workers_poller`, `poll_workers`, `send_pins_to_workers`, `pin.h`, the three workers) | `pins_1_to_2`, `pins_2_to_3`, the sockets, the workers' hands | receive from stage 1, send to and receive from stage 2, send to stage 3; drop dead workers | the client arrays, TCP, the logs queue |
| client arrays (`handle_new_client`, `insert_new_client_into_arrays`, `find_and_shutdown`, `send_server_log`, `close_manager`) | per kind of client: descriptors, addresses, size, mutex | accept and insert, drop, shut down by command | four threads: main, poller, logs sender, managers handler |
| threads and shutdown (`server.c`) | `app_threads`, the flags `is_..._running`, `disposed` | create, record, cancel, join; `signal_handler`; `stop_all_threads` from any of them; farewell to the clients | the mutexes of the arrays, `accept`, the logs queue |
| clients (`client-tools.c`, `first-`, `second-`, `third-worker.c`, `logs-collector.c`, `manager.c`) | one socket | the runtime loops, `client_should_stop`, `receive_data`, commands | the server |

Hard here: four threads and a signal handler over the same arrays, of which one mutex is a
no-op and others are not taken; descriptors that the kernel hands out again; `recv` that
returns 0 and leaves an old `errno`; cancellation of threads that hold mutexes; a handler
that runs between any two steps of main.

Correct means: accepted logs are sent once, in order, and nobody waits for the logs; a pin is
never doubled, vanishes only when its worker does, and moves on while there is a worker for
it; the arrays agree with the connections, a descriptor has one owner, and only the clients
a command names are disconnected; after Ctrl-C the clients are told, no thread outlives the
resources, and the server ends.

### The other programs

| component | state and operations | hard | correct means | status |
|---|---|---|---|---|
| first TCP server (`os_ihw3/mark-4-5`) | two threads, arrays of workers, two rings | signals without handlers for SIGPIPE, a test and then accept | workers in a slot learn of the end; it ends for a signal or for a worker that left | modelled |
| TCP servers of `os_ihw3/mark-6-7`, `mark-8` | the parts of mark-10 without managers | as mark-10 | as mark-10 | not modelled again |
| UDP server and clients (`os_ihw4`, all marks) | one broadcast socket, a logs queue, commands and their results | lost and overheard messages | stages work on what the stage before has sent; a shutdown stops whom it is for; a manager reads its own result | modelled |
| pins over shared memory (`os_ihw2/mark-4-5`, `6-7`) | two rings of pins, semaphores for added, free and access | processes that end between two calls, semaphores that outlive a run | two bounded FIFOs, no pin lost or doubled | modelled |
| pins over System V objects and POSIX queues (`os_ihw2/mark-8`, `9`, `10`) | shared memory or queues, a counter of their users | creation and removal by several processes, signals inside a start | created once, removed by the last, never under a user; where the code goes wrong is named | partly |
| generators and adders (`hw9`) | `CyclicQueue`, threads | no free-slot check, a reader without a lock | the sum is that of what was generated, all ends | modelled |
| text encoder (`ihw4/version_1..3`) | text in chunks, results in a list or an array | threads take chunks in any order, one may have no memory | the output is in the order of the text, every chunk once | modelled |
| bits over signals (`os_hw5`) | a number, the bit sent | signals merge; the race before `pause` | the receiver has the number if no signal comes late | modelled |
| one cell of shared memory (`os_hw6`, `os_hw7`) | a number and its type | no lock; process ids go through the same cell; a second Ctrl-C kills | numbers in order; Ctrl-C ends both | modelled |
| readers and a writer (`os_hw8`) | a ring, semaphores, the list of readers | several writers at once; Ctrl-C anywhere, also inside a handler; names that are removed while others start | one writer sets the ring up; no empty cell is read; all are told | partly |
| one pipe, two directions (`os_hw9`) | a pipe, a System V semaphore | taking turns, Ctrl-C | one message for whoever has the semaphore; both end | modelled |
| pipes and FIFOs (`os_ihw1/mark4..10`) | two pipes, up to three processes | open blocks, ends must be closed, chunks cut a range | success means reversed; nobody is left behind | modelled |
| relay and broadcast (`os_hw10`, `os_hw11`) | a stream, datagrams | pieces, loss, copies | bytes in order, the end is recognised | modelled |
| calculations and file copy (`os_hw3`, `os_hw4`) | 64-bit numbers; a loop of reads and writes | overflow flags; short writes, old destinations | the flags are right; the copy is whole | modelled |
| exercises in assembler (`hw1`..`hw8`, `ihw1`..`ihw3`) | sequential | - | - | not modelled |

`PROJECT.json` lists the components with their files, and under "hazards" what is hard to
test, at its line.

## 2. Modules

| module | models | proofs |
|---|---|---|
| `LogsQueue` | the logs queue of mark-10, its producers, the sender, their cancellation | `LogsQueueProofs` |
| `LogsFifo` | what the logs queue promises: a bounded FIFO; `LogsQueue` implements it | |
| `PinPipeline` | the poller of mark-10, the workers, TCP between them | `PinPipelineProofs` |
| `ClientTable` | the client arrays of mark-10 under the steps of four threads | `ClientTableProofs` |
| `ServerShutdown` | the life of the threads of mark-10, the signal, the end | `ServersProofs` |
| `TcpClients` | the clients of `os_ihw3` in all marks, with whatever a server may do to them | `TcpClientsProofs` |
| `FirstServer` | the server of `os_ihw3/mark-4-5`; it implements the server of `TcpClients` | `ServersProofs` |
| `UdpFactory` | server and clients of `os_ihw4` in all marks | `UdpFactoryProofs` |
| `PinBuffer` | main and workers of `os_ihw2/mark-4-5` and `mark-6-7` | `PinWorkersProofs` |
| `PinLine` | what `PinBuffer` promises: two bounded lines of pins; `PinBuffer` implements it | |
| `WorkerResources` | creating, counting and removing in `os_ihw2/mark-8`, `9`, `10` | `PinWorkersProofs` |
| `Servers`, `PinWorkers` | the two servers of `os_ihw3`, the factories of `os_ihw2`, each side by side | |
| `SharedNumber`, `ReadersWriter` | `os_hw6` and `os_hw7`, `os_hw8` | `ExercisesProofs` |
| `TextStream`, `PipeTalk` | `os_ihw1`, marks 9 and 10; `os_hw9` | `ExercisesProofs` |
| `UdpBroadcast`, `FileCopy` | `os_hw11`, `os_hw4` | `ExercisesProofs` |
| `SharedMemory`, `Transfers` | the exercises of these three lines, the first line and the other two, side by side | |
| `TextReversal`, `TextRelay` | `os_ihw1`, marks 4 to 8; `os_hw10` | |
| `TextEncoder`, `NumberAdders` | `ihw4`, `hw9` | |
| `BitTransfer`, `Calculations` | `os_hw5`, `os_hw3` | |

`MCLogsQueue`, `MCPinPipeline`, `MCClientTable` and `MCUdpFactory` give the constants of one
module their values for TLC. `MCServers`, `MCPinWorkers`, `MCTexts` and `MCExercises` put
programs that have nothing to do with each other under one run: a variable (`program`, in
`MCPinWorkers` `running`) is chosen in the initial state, its program runs, the variables of
the others stay as they are. A property of such a run is the conjunction of what the modules
state, each with its reason at its definition there. `Servers`, `PinWorkers`, `SharedMemory`
and `Transfers` have the variables of two or four modules each and state the properties of a
run once, so that the run and a proof speak of the same; they add no behaviour.

The server's parts share little state, and each module keeps of the others what it needs:
`PinPipeline` has the arrays with atomic insertion (the mutexes of the workers' arrays work
against main and the poller), `ClientTable` has them one access at a time, with the managers
handler, and knows of pins only that loops may end early; `ServerShutdown` has one mutex
and one test of "is there a log". A product of the four would be out of TLC's reach and would
show no behaviour that the parts lack.

### LogsQueue

One action per call on shared state: `TryWait` (`sem_trywait(&free_elems)`), `TryLock`
(`pthread_mutex_trylock`), `GiveUp` (`sem_post(&free_elems)` after a failed trylock),
`WriteSlot`, `PostAdded`, `Unlock` of a producer; `WaitAdded`, `LockMutex`, `ReadSlot`,
`PostFree`, `SenderUnlock`, `Send` of the sender. Threads end through the flags or by
`SenderCancelled`: `sem_wait` is a cancellation point, `pthread_mutex_lock` is not. A failed
`pthread_mutex_trylock` does not set the `errno` that is tested next, so the `perror` behind it
may be reached, and a producer that is cancelled there takes its free slot with it
(`ProducerExit`). A log is the thread that made it and its number. The abstract `LogsFifo` has `Enqueue`, `Dequeue`
and `Send`; the mapping reads the ring from the read index on, as many logs as were
written and not read.

### PinPipeline

`EnterFirst`, `PollFirst`, `EnterSecond`, `SendSecond`, `PollSecond`, `EnterThird`,
`SendThird` are one round of `workers_poller`. `PollSlot` is one turn of the loop of
`poll_workers` (is_socket_alive, recv, `handle_socket_op_error`), `SendSlot` one of
`send_pins_to_workers`. Workers make, take, pass on and check pins, leave at any time and
connect again. `peer` is what the server can know of a connection: open, closed in order
(`fin`), reset. `errno` is the poller's, because recv that returns 0 leaves it alone and the
code then decides by its old value. `UnknownError` is an error that arrives between
`is_socket_alive` and the call on the socket and that `handle_socket_op_error` does not list
(`ETIMEDOUT`): it ends the poller.

The rings are sequences here. A pin is an id, used again when its pin is gone.

### ClientTable

`fds`, `info` and `arr_size` for workers, collectors and managers; `sock` is the kernel's
table of descriptors, the lowest free one is handed out. An action is one access to an
array or one call into the kernel, so that `(*array_size)++` is a load and a store for the
managers' array, whose lock unlocks. `find_and_shutdown` takes no mutex: `MgrFound`,
`MgrShut` and `MgrClear` read the slot three times.

### ServerShutdown

Main creates (`CreateThread`, `RecordThread`, `CreateFails`), accepts, and joins in the order
of `start_runtime_loop`; `Signal` can come at any of its steps and runs `stop_all_threads` on
main's stack; threads that fail run it too. A cancelled thread ends at its next cancellation
point and keeps what it has locked.

### TcpClients and FirstServer

A client connects and turns in its loop: `Check` (`client_should_stop`, which peeks at the first
bytes of the socket), `Make`, `Recheck`, `Take` (`receive_data`, `receive_pin`), `Give`, and the
menu of the manager. A socket is a sequence of pairs of bytes, because before mark 10 the
shutdown message is two pins long and a worker that waits for a pin takes its halves. The
server of this module does anything a server can do: send, tell, close, vanish; TCP is that
of Linux, where data is still read after the peer has closed and is gone after a reset.
`FirstServer` is one server: main (`Accept`, insertion, the farewell, the closing), the
poller, the signal, which interrupts accept. `ImplementsServer` maps it to `TcpClients`, so
that what is shown of clients with any server holds with this one.

### UdpFactory

Everyone hears every datagram: `Broadcast` appends it to the inbox of all whose code looks at
it somewhere, a fault lets one of them miss it. The poller takes one message and works its
handler off step by step (`msg`, `todo`, `good`), as each kind of message has its own order of
forwarding, logging and answering; marks differ in kinds, in who is told at the end, and in
what a full logs queue does. Mark "8" stands for marks 6-7 and 8.

### PinBuffer, PinLine, WorkerResources

A worker of `PinBuffer` takes a semaphore, the lock, a slot, the lock and the other semaphore, a
step each; Ctrl-C ends all of them anywhere, kill ends one, and main may be run again on
what the run before has left. `LineOf` reads a ring from its read index on and is the
mapping to `PinLine`.

In `WorkerResources` each system call that creates, finds, counts, tests or removes is an action,
of which `Opening` lists those of `init_*` and `Closing` those of `deinit_*`; workers start and
leave in any order, two at one point included. The handler is installed before `init_*`, so a
signal acts at any point: `Quit` at work, `QuitEarly` where the record of the tie tells the
handler what to do, and `Caught` where it does not: the object is made and not in the record
yet, the record is zeros, or the handler itself is interrupted. `Wrong(w)` names the five
ways in which a step goes wrong: such a signal, a creator that sets the counter after others
have raised it (`SetsAgain`), a removal under those who have opened the tie meanwhile
(`RemovesOpened`), joining what is being removed (`JoinsDying`), and the use of a semaphore
that is not there (`Misses`). Such a step makes the behaviour `spoilt` and is its last; what
comes of it depends on ids that are used again. `overlapped` remembers whether a start has
overlapped a creation or a removal. The ring is not repeated there: a tie is a bounded line.

### TextReversal, TextStream, PipeTalk, TextRelay, UdpBroadcast, FileCopy, Calculations

A process of `TextReversal` is a list of operations for each mark (`open`, `close`, `fork`, ...),
of which a step is the next; who still has an end of a pipe open decides what read and write
do. `TextStream` has the chunks of marks 9 and 10 byte by byte, because the property is about
where bytes end up. In `TextRelay` recv returns any prefix of what has come; in `UdpBroadcast`
a line may be lost, doubled and late. `Calculations` computes in 64 bits, as a sequence of
digits, because TLC's integers are shorter.

### TextEncoder, NumberAdders, BitTransfer, SharedNumber, ReadersWriter

Threads and processes, a step for each access to what they share. In `BitTransfer` a pending
signal is a member of a set, so that two of a kind merge, a handler interrupts at any
statement, and `stack` is what it has interrupted. In `SharedNumber` a handler serves once
(`_XOPEN_SOURCE` makes `signal()` that of System V): a second signal of the kind kills the
process wherever it is, and `BothEnded` says who then is not told.

In `ReadersWriter` a start is a step for each group of names that are opened and removed in a
row: the semaphores of `init` (`OpenSemaphores`), the memory (`CreateMemory`, `OpenMemory`),
`writer` and `first_writer` (`OpenRoles`), the readers' semaphore (`OpenReaderSem`). A handler
is entered (`EnterHandler`), tells the others, and removes the names group by group
(`RemoveNames`, `RemoveReaderSem`); the other signal may interrupt it, after which
`sem_close` fails and the process ends with names left. `removed` are the groups whose names
are gone. Who opens a name after that makes a newer object: all newer ones are another run,
of which only the signals are followed (`elsewhere`); objects of both ages make the behaviour
`spoilt`, which is its last step, and so does a reader that is registered beyond
`reader_pids`. `reader_gen` counts the removals of the readers' semaphore, and `own` is whose
semaphore is of which age: two readers with different ones do not keep each other out.

## 3. What is checked

All runs are in `PROJECT.json`; each property of a passing run has a mutant of the code there
(a dropped guard, a forgotten reset, ...) that breaks it.

| run | instance | shows |
|---|---|---|
| `logs_queue` | three producers, ring of two | `QueueInv` (accounting of semaphores, threads and slots), the asserts, `ImplementsFifo`, `EnqueueNeverBlocks`, `AcceptedLogIsTaken`, `ThreadsEnd` |
| `pins` | 2+2+1 workers on 1+2+1 slots, 3 pins, rings of 2 | `TablesAgree`, `PinInOnePlace`, `PinsVanishForAReason` |
| `pins_move` | one worker a stage | `PinsMoveOn`: the only reason in the code for a stuck pin is the skipped second stage |
| `tables` | 2 workers, a collector, a manager, one slot each, no commands | `FdsOwnedOnce`, `OnlyNamedAreDisconnected` |
| `tables_commands` | a worker on two slots, a manager, commands against both | `NoWorkerIgnored` |
| `table_room` | 2 workers, one slot, commands | **violated**: the assert on `*array_size < max_array_size` |
| `shutdown` | the threads of mark-10 with a signal at any step; the server of mark-4-5 with two or three workers; one client of each kind and mark with any server | `ThreadsEndBeforeDeinit`, `OnlyCancelOrphansTheMutex`; `WorkersAreTold`, `ImplementsServer`; `ClientsAreRight`; `ProgramsEnd`: server and clients end, save for the reasons named there |
| `pin_workers` | four workers, rings of two, three pins, Ctrl-C, one kill, one fork that fails, main run again | `SemaphoresAddUp`, `ImplementsPinLine` and pins in rings are taken (in `PinsReachUsers`); of marks 8 to 10 with all starts, leaves and signals `ResourcesFollowUsers`, and in `PinsReachUsers` that only the last user removes, that pins outlive their senders, and why a behaviour goes wrong |
| `texts` | all marks of `os_ihw1` with four kinds of input, texts of up to five bytes in chunks of two; `os_hw3`, `4`, `9`, `10`, `11` | `TextsAreRight` (`TextReversal`, `TextRelay`), `TransfersAreRight` (`TextStream`, `PipeTalk`, `UdpBroadcast`, `FileCopy`), `ResultsAreRight` (`Calculations`), `ProgramsEnd` |
| `exercises` | two threads and three chunks; four generators; three bits; two numbers; two writers and a reader, one and two, one and three, with Ctrl-C once or twice | `EncodingIsRight` (`TextEncoder`), `NumbersAreRight` (`NumberAdders`, `BitTransfer`), `SharedMemoryIsRight` (`SharedNumber`, `ReadersWriter`), `ProgramsEnd` |
| `udp` | a few casts of one or two clients a kind for each mark | `MessagesAreRight`, `PinsSurviveFullQueue`, `ResultIsOwn`, `ProgramsEnd` |
| `udp_collector` | a collector of mark 8 | **violated**: it throws the shutdown away and waits for ever |

### Bounds, and why they are enough

- *logs_queue*: with two slots and three producers the ring is full with a producer to
  spare, the indices wrap, and trylock fails while another producer and the sender compete.
  The proofs cover every number of producers and slots.
- *pins*: stage 1 has more workers than slots, so that slots are fought for and used again;
  stage 2 has two slots, so that a loop meets a free slot, a dead worker and a live one in a
  row; rings of two can be empty, half full and full; three pins fill a ring while one is on
  its way. Socket buffers hold one pin: EAGAIN from a full and from an empty buffer occur. The
  pins are symmetric; the workers are not, because the slots they take are ordered.
- *pins_move*: one worker a stage and no symmetry, as is right for liveness.
- *tables*: single slots make every insertion meet the slot another thread is freeing. Four
  descriptors for four clients: accept never runs out, and a closed one comes back at once.
  `tables_commands` has two slots because in one slot the first command already makes the
  next insertion abort, after which nothing more can be seen.
- *shutdown*: the threads of mark-10 have no bound but one, one signal. The System V semantics
  of the build (`_POSIX_C_SOURCE`, `_XOPEN_SOURCE`) reset the handler, and a second Ctrl-C
  kills the process. `SignalAt` is where the signal may arrive, everywhere. The first
  server has one slot a stage, so that a third worker finds none, and rings of two with one
  pin: that a full ring makes the second stage wait is in `pins_move`. Its casts keep the
  run small: with two workers one of them may be refused, interrupted or leave anywhere;
  with three all goes well and the signal comes when the pin has reached the third. The
  client alone has three messages at most and a server that stops reading after one.
- *pin_workers*: two workers of the second stage compete on both rings; three pins fill a ring
  of two with one on its way, and indices wrap. Ctrl-C reaches main of mark-6-7 before main
  ignores it, and that of mark-4-5 only afterwards (`EarlyInterrupt`): what an earlier one
  leaves behind is told in section 5. Only one worker of mark-6-7 can be killed, and
  `PinsAreTaken` watches one pin, as pins are alike. In marks 8 to 10 all four workers start,
  leave and get signals at any call, as often as they like, up to a step that goes wrong. Two
  workers of the second stage share both ties with a first and a third, so that starts meet
  starts, leaves and removals on either tie. The pins matter there only for what a removal
  does to them: one pin and lines of one; the proofs have any number of either.
- *texts*: texts shorter than, as long as and longer than a chunk, all ranges in them. Two
  lines of two kinds and a buffer of four bytes make recv return parts of a line and more than
  one. Datagrams come up to twice. Files of up to five bytes in pieces of two have an empty and
  a short last piece. The calculations are done with the numbers at which something changes
  (0 to 3, 20 and 21, 65 and 66, 92 and 93), in the real 64 bits.
- *exercises*: with three chunks one thread takes two of them, and inserts before, between and
  behind. The queue of the adders has four cells for four generators, so that it is full once
  and its indices wrap. Three bits are the first, which the semaphore lets pass, one between,
  and the last, which is sent in another way. Either process of the cell may get Ctrl-C at
  any time and any number of times. Of the ring two writers and a reader or a writer and two
  readers run with one Ctrl-C: with the first cast a writer is interrupted, removes the names,
  and the others start on both sides of each removal. For an array of two, three readers are
  needed, and for a handler inside a handler Ctrl-C twice: a writer and three readers with one,
  and two writers and a reader with two, run without writing anything yet (`crowd`).
- *udp*: a cast has what its question needs: two workers of a stage, who get the same pin; a
  collector of mark 8; a manager and a worker that is told to stop. The queue has one log, so
  that it is full at once; one call may fail or one datagram be lost in a behaviour, Ctrl-C
  comes once, and two commands show an old result in the way of a new one. Datagrams to one
  socket keep their order.

Deadlock is not checked where the system may stop: the threads of the logs queue end, an
assert aborts the server of `ClientTable`, the poller of `PinPipeline` may have ended,
and `ServerShutdown` is about stopping.

### Fairness, and why the code justifies it

Each thread and each process is weakly fair: they are scheduled by the kernel, their loops
sleep with bounded `nanosleep` or `sleep` and take mutexes whose holders run. In
`ReadersWriter` this holds up to a step that makes the behaviour spoilt, after which nothing
is claimed. In `PinPipeline`
a connected worker of stage 2 or 3 goes on working (its loop has bounded sleeps), and
`ResetArrives` is weakly fair because the server sets `SO_KEEPALIVE` on accepted sockets: a
dead peer is found. No fairness is assumed of what people do: connecting, making a pin,
leaving, Ctrl-C, an answer in the manager's menu, a client that would end an accept; nor of
the network, where a datagram may be lost.

Strong fairness is used in three places. `semop` of `PipeTalk`: the kernel keeps the waiting
processes in a queue, and the other one sleeps between two turns. A pin of `TcpClients` that is
not crooked (`Make(c, FALSE)`): the quality is drawn at random, and does not come out bad for
ever. The reset behind a connection that the server has closed (`Give` that finds it dead):
a client that goes on sending gets it after finitely many sends.

## 4. What is proved

With TLAPS, for all values of the constants that the named assumptions allow.

**LogsQueueProofs** (assumptions: finitely many producers, a size of at least one).
`QueueInvariant`: `QueueInv` says that the free slots are the value of `free_elems` plus the
threads between taking a free slot and giving it back, likewise for `added_elems`, and that the
holder of the mutex is the only thread inside. It is inductive together with `TypeOK`: each
action moves one unit from a semaphore to a thread, or from a thread to a semaphore, which
the lemmas on cardinalities state once. `AssertsNeverFail` follows: inside the mutex a thread
that holds a unit knows the ring is not full, or not empty. `RingImplementsFifo`: under the
invariant the logs between the indices are a sequence, `WriteSlot` appends to it and
`ReadSlot` removes its head, all other steps leave it alone. The lemma on indices deals
with the wrap-around.

**PinPipelineProofs** (assumptions: the stages' workers are disjoint, sizes at least one).
`TypeCorrect`: `TypeOK` is inductive by itself, in four parts (arrays, rings, sockets, poller);
the bounds on the rings need that `poll_workers` tests for a full ring before each recv, and
`arr_size \in Nat` needs the test `arr_size > 0` of both loops. `TablesAlwaysAgree`:
`TablesAgree` speaks of cardinalities and is not inductive; `TableInv` adds that no client is
in two slots and that a worker has a slot iff its connection is not closed. `TableSteps` shows
that every step leaves the arrays alone, puts one client in, or takes one out, and one lemma
for each of the three finishes the proof. A client that is in a slot is not "away",
and only such a one is accepted: this is why it cannot get a second slot.

`PinsInOnePlace`: all rings, socket buffers and hands are one function from places to sequences
(`Holding`), and `PinInv` says that no pin is at two positions of it (`Apart`). With `TypeOK` it is
inductive: a step takes pins off some buffers (`Shrinks`) and then adds at most one to one
buffer (`Adds`), a pin that was taken off or that was nowhere; a lemma for each of the two
does the rest, and what is left for an action is to name the buffers. Two buffers shrink in a
step only when a connection is reset. `PinsVanishOnlyForAReason` is an action property: the same
two facts say which pins a step can lose, and `VanishStep` goes through the actions that
take one off without adding it elsewhere.

**ServersProofs**, of `ServerShutdown` (assumption: `SignalAt` names steps of main).
`ShutdownInv` adds to the properties how far main has come: the threads it has not created
do not exist, those it has joined have ended, and the holder of the mutex is at work or
was cancelled at work. `EndedStays` is the key lemma: after main has left "create" no step
starts a thread again or puts one back into `stop_all_threads`. From the invariant follow
`ThreadsTypeCorrect`, `ThreadsEndFirst` and `MutexLostByCancelOnly`.

**ClientTableProofs** (assumptions: the types' clients are disjoint, arrays are not empty, accept
does not run out of descriptors). `TypeCorrect`: `TypeOK` claims that no size is decremented
below 0, which a worker freed by a shutdown command, and decremented for by nobody, seems to
endanger. `WorkersCounted`: `NoWorkerIgnored` speaks of the size and the slots only and is
not inductive. `TableInv` adds where each thread is (`Positions`), that main and the poller
exclude each other at the workers' array (`Mutexes`), and what their positions add to the count:
a slot main is about to fill is counted already, the slot the poller looks at stays counted
even if a command frees it meanwhile, so that its own decrement is covered (`WorkerSize`);
likewise for the managers (`ManagerSize`). A shutdown command only shrinks the set of used
slots, `FewerSlots`, and cannot break this; that the size may then be too large is finding 1.

`DescriptorsOwnedOnce` and `NobodyElseDisconnected` have the hypothesis that no command names a
client (`Targets = {}`); with commands both are false, because `find_and_shutdown` reads a slot
that another thread may empty and main fill again. `OwnerInv` adds to `TableInv` that an open
descriptor has exactly one key, a slot or a thread that has it in hand (`OwnedOnce`), that a
client is at one descriptor (`SocketsOnce`), that the poller, the sender and the handler
still find in its slot the client they look at, and drop it only when it has left, and that main
fills a free slot. `FdsOwnedOnce` counts owners; that the count is one follows from there
being one key.

**PinWorkersProofs**, of `PinBuffer` (assumptions: the stages' workers are disjoint and finitely many, a size of
at least one; condition `MainRemovesNames`: main of mark-4-5 is not killed before it ignores
Ctrl-C). `SemaphoresAlwaysAddUp`: what the three semaphores of a ring lack is with the workers
at the labels between two calls, alive or killed there. `BufferInv` adds that a worker is at
labels of its stage (`Roles`), that it holds a pin exactly between taking and passing it on
(`Hands`), that the slots that count as stored hold pins, and that names do not outlive main
(`NamesRemoved`). The workers of a ring are counted by label, and each step moves one of them
from one count to the next; the wrap-around of the indices has lemmas of its own.
`BufferImplementsPinLine`: `LineOf`, the ring from the read index on, loses its head at `read`,
gets a pin at its end at `write`, and stays as it is otherwise. Section 5 says what happens
without the condition.

**PinWorkersProofs**, of `WorkerResources` (condition `SizeOfObjects`: a queue holds a number of
pins). The theorems hold for all interleavings of the calls and all signals, up to a step that
goes wrong. `Joined(t)` are the workers that have a unit of the counter of a tie, and
`ResourceInv` says that the counter is their number (`CountersCount`), that what is joined
exists (`JoinedIsThere`), that what exists is joined or a worker is on its way to make, to join
or to remove it (`Kept`), what a worker between two calls has found (`Begun`), and that nobody
has joined what is being removed (`Dead`). The guards that `Wrong` leaves to the good steps are
what carries it: a counter is set while nobody is in it, a removal meets nobody with the
tie open. `JoinedAfter` says how `Joined` changes when one worker moves, and `TogetherKeeps` that the
invariant is kept when several do, because who removes an object ends the removal of others that
find its id dead.
`ResourcesAlwaysFollowUsers` follows. `OnlyTheLastRemoves` has the action properties. For
`LastRemoves` and `PinsWaitForUsers` the invariant is enough. `SpoiltByOverlap` needs a fact
about the past: `Conflict` describes the states from which a step can go wrong without a
signal, and `ConflictStep` shows that such a state is entered only with an overlap; `Traced`,
proved with the invariant for each action, says what a step leaves of who has joined and where
workers are.

**TcpClientsProofs** (`ConstantsOK`: the bounds are numbers). `ClientsTakeWhatWasSent`:
`ClientsAreRight` compares what a client took with what it was sent and cannot be inductive, as it
does not know the bytes between. `Stream` does: the socket holds the rest of the messages, each
as many pairs as its size, numbered, and then the shutdown message if it was sent; a client
that took more than was sent has taken halves of the shutdown for pins (`Takes`). `Room`
bounds the socket. All parts speak of one client, so that a step of one leaves the others'
alone.

**ServersProofs**, of `FirstServer` (`ConstantsOK`: a slot at least, bounds are numbers).
`FirstServerImplementsServer`: each step of main, of the poller and of a worker is a step of
`TcpClients` or leaves its variables alone. For that `ServerInv` says where the threads are
(`Threads`), that a connection waits, is the newcomer or is in one slot (`Places`), and that what
the server believes of a connection is true (`Peers`). As every step is one of `TcpClients`, the
invariant of the clients is taken over from `TcpClientsProofs` and not proved again
(`WorkersOfFirstServerAreRight`). `FirstServerTellsWorkers` needs besides whose turn in
`send_shutdown_signal_to_all` has been (`Told`), why the poller has ended (`Leavers`), and that
the sizes count the taken slots (`Counts`). The theorems state `ImplementsServer`,
`WorkersAreTold` and `ClientsAreRight` of the run `shutdown`.

**UdpFactoryProofs** (`FactoryAssumption`: a client is of one kind, finitely many clients,
bounds are numbers). `MessagesRight`: that a stage works on what the stage before has done is an
invariant only together with where pins are on their way: in the server's socket
(`PinsAsked`), in the poller's hands (`PinHandled`), in an inbox (`PinsSent`) and with a worker
about to send (`PinsHeld`); a shutdown in an inbox was sent (`ShutdownsSent`). Lost datagrams do not
matter, as all of this holds for any part of what was sent, and neither do pins that two
workers of a stage have both heard.
`FullQueueIsSurvived` is an action property; `StopReasons` says what the handler in work must be
if a thread is about to stop the others. `OwnResultIsRead`: while a manager is alone, its command is
in one place at most, as a command, as a pending answer or as a result (`OneInFlight`).

**ExercisesProofs**, of `SharedMemory` and `Transfers`. `SharedMemoryAlwaysRight` and
`TransfersAlwaysRight` state `SharedMemoryIsRight` and `TransfersAreRight` of the runs `exercises`
and `texts`; each puts together one theorem per exercise. Their hypotheses are the
specifications of all exercises at once. These have no variable in common, so every tuple of
behaviours is one of them, and in a run, where one exercise moves and the others stay as they
are, the others only stutter. `SharedMemoryAssumption`: a process is a reader or a writer,
there are finitely many readers, the ring has a cell. `TransfersAssumption`: a chunk and
a piece have room for a byte. The rest says that bounds are numbers; the code has constants
for all of them.

- `RingAlwaysRight` (`os_hw8`). `CellsAreRight` speaks of the one cell that a process looks at,
  and needs the whole ring. `RingHolds(o, n)` says that from the read index on there are `o`
  empty cells, `n` numbers, and empty cells up to the write index, where `o` is 1 while a reader
  has taken a number and not moved the index on. Ctrl-C can end it there, and `o` remains 1 for
  ever; this does no harm because it also leaves `read_mutex` locked (`o = 1` implies
  `read_mutex = 0`), and nobody reads again. The units of `full` and `empty` with processes
  that wait or have ended explain the inequalities. `WritersApart` and `ReadersApart` have the
  doors that processes pass one by one, `SetUpFirst` that readers come in only when `admin` was
  raised. `RegisterInv` is about `reader_pids`: the semaphores of an age let one reader in at a
  time, and the list has at most `MAX_READERS` names, less one while somebody is between check
  and registration, as long as the readers' semaphore was never removed. Where objects of two
  ages meet, a name was removed: with these, `SpoiltByRemoval`. Starts on newer objects
  and handlers leave the ring alone.
- `CellAlwaysRight` (`os_hw6`, `os_hw7`). `InStep` is the exchange of process ids: while nobody was
  interrupted, it says of each place of one process where the other is, and what is in
  the cell. `NumbersLate` holds also after an interrupt: a number is written only when the server
  has left the cell to the client, hence never over a process id. A message of the end is
  sent by no one in the version with signals (`EndedBySignal`). A process that is killed
  leaves the cell as it was.
- `StreamAlwaysRight` (`os_ihw1`). There is one chunk under way: with nobody (`BetweenChunks`), on its
  way there (`ChunkIsOut`), on its way back (`ChunkIsBack`), and after `io_handler` has ended, the
  byte that tells the end (`EndIsOut`). `Good` says of a chunk from byte `a` on that it is right, and
  `ChunkIsReversed` that `reverse_substring` makes it so: with a range in the first chunk,
  only that one is changed.
- `TalkAlwaysRight` (`os_hw9`): semaphore and message are functions of where the processes are
  (`TalkInTurn`), and the parent goes to remove the semaphore after the child's end (`ChildFirst`).
- `BroadcastAlwaysRight` (`os_hw11`): what is under way was sent, and the last line is the end only
  if the server has come to it.
- `CopyAlwaysRight` (`os_hw4`): while no write was short, what was written is the beginning of the
  destination (`CopyGrows`); a piece smaller than the buffer is the last one.

Only model-checked:

- Everything temporal under fairness (`PinsMoveOn`, `ThreadsEnd`, `ProgramsEnd`, ...): TLAPS has no
  rules for `ENABLED`.
- `EnqueueNeverBlocks` and `AcceptedLogIsTaken` of the logs queue, for the same reason.
- `EncodingIsRight`: that the codes come out in the order of the text is a statement about flattened
  and sorted sequences of any length, an induction over data.
- `NumbersAreRight`: the sum of `NumberAdders` is over any set of threads and cells, an induction as well;
  `BitTransfer` speaks of powers of two, which the provers do not know.
- `ResultsAreRight`: `Calculations` compares with recursive functions.
- `TextsAreRight`: `TextReversal` has no constant but the marks, and the run has all of them, so TLC
  covers every instance; the stream of bytes of `TextRelay` is a flattened sequence again.

## 5. Where code and documents disagree

Two runs show code that breaks what its own text says; the lines are in `PROJECT.json`,
"findings".

1. `find_and_shutdown` of mark-10 frees a slot and not the size, and the assert of the next
   insertion into a full array aborts (`server-tools.c:808`); the same through
   `send_server_log` and through the managers' lock that unlocks (`server-tools.h:147`).
2. A logs collector of `os_ihw4` marks 6-7 and 8 that looks at the shutdown before it waits
   for a log takes it for somebody else's, throws it away, and waits for ever; mark 10
   addresses all clients.

The other surprises of the code are named in the passing properties, as the only exceptions
they allow. In `os_ihw3/mark-10`:

- the second stage is skipped when `pins_1_to_2` is full and `pins_2_to_3` is empty
  (`server-tools.c:705`), after which nothing moves (`Stalled` in `PinsMoveOn`);
- recv that returns 0 leaves `errno`, and an old value stops the poller (`server-tools.c:594`);
- `find_and_shutdown` takes no mutex and reads the slot again: it can disconnect the client that
  has just got the slot, so that `OnlyNamedAreDisconnected` is checked without commands;
- Ctrl-C may not end the server: a thread is cancelled with a mutex locked (`server.c:52`),
  the signal comes just before accept (`server.c:257`) or before a thread is recorded
  (`server.c:219`): `Orphaned`, `InAccept` and `StoppedEarly` in `StoppedServerEnds`.

In the others:

- `TcpClients`: `receive_data` of mark 10 asks again for ever when the server is gone without a
  shutdown (`Spins`); before mark 10 a waiting worker takes the shutdown for two pins
  (`Ghost` in `OnlyStopIsMistaken`);
- `FirstServer`: main may have passed the test of the flag when the signal comes, and waits for
  one more worker (`CtrlCEndsAll`);
- `UdpFactory`: a thread that is created and not yet recorded is not cancelled (`missed` in
  `ServerEnds`); results are broadcast, and only a manager that is alone reads its own;
- `PinBuffer`: Ctrl-C before main of `os_ihw2/mark-4-5` ignores it kills main, and the named
  semaphores stay; the next main gets their old values from `sem_open`
  (`resources.c:64`), with empty rings, so that nothing adds up any more. `EarlyInterrupt`
  without "4-5" is the assumption that this does not happen. Mark-6-7 has its semaphores in the
  shared memory and is not affected;
- `TextReversal`: marks 4, 6, 7 and 8 wait for ever for certain inputs (`Hangs`);
- `TextStream`: the processor of mark 10 does not recognise the end and never ends; an old byte
  behind a chunk can look like the end (`early`); a range that begins behind the first chunk
  is reversed with indices outside of the chunk, so that the properties speak of the first;
- `BitTransfer`: a signal that comes after the sender's second (`late`), and a pause that begins
  when the last signal has been (`missed`);
- `WorkerResources`: the counters of `os_ihw2/mark-8` to `mark-10` hold only while starts do
  not overlap a creation or a removal, and while no signal comes inside a start or a handler
  (`SpoiltByOverlap`). A signal after `semget` and before the id is in the record takes back
  nothing and leaves the unit (`resources.c:83-85` of mark-9); one before
  `++sh_mem_ref_counter` of mark-8 takes back what was not added;
- `SharedNumber`: the second Ctrl-C kills, and the other process goes on for ever if it was not
  told (`BothEnded`); without signals a client whose next number overwrites `SERVER_SHUTDOWN` goes
  on as well (`server.c:83`);
- `ReadersWriter`: a reader that ends removes the name of the semaphore that keeps readers
  apart (`reader.c:36`), and two that hold different ones can both be registered in the last
  place; a process that starts while a writer removes names can get old counters with
  new memory, or the other way round (`SpoiltByRemoval`);
  Ctrl-C before the memory is mapped makes the handler use a null pointer;
- `FileCopy`: a short write is no error (`short`), and the old end of a longer file stays;
- `TextRelay`: a client that connects in the other's place is taken for it (`Swapped`); `accept`
  waits for ever for one that could not connect (`WaitsForClient`).

## 6. What the models leave out

- Bytes: in the models of `os_ihw3/mark-10` a pin never arrives in parts, and a log or a command
  is one message. Texts of logs and of the console are not modelled anywhere.
- Time: a client that is turned away because its type came late is an action that may happen;
  how often is not said.
- A send that blocks: sockets of collectors have no bounded buffers in the models, so the logs
  sender does not hang on a collector that reads nothing, as it can in the code.
- One stage stands for the three in `ServerShutdown` (one mutex) and in `ClientTable` (one
  array of workers): the code of the stages is the same function with other arguments.
- Failures of `pthread_mutex_init`, `sem_init` and of the socket calls at startup: they end
  main before any thread exists.
- The servers of `os_ihw3/mark-6-7` and `mark-8`: their functions are those of mark-10 but for
  the managers, and their clients are in `TcpClients`.
- `os_ihw2/mark-8`, `9`, `10`: `kill -9`, which no handler sees, and `semget`, `shmget`, `msgget`,
  `mq_open` that fail for another reason than that the object exists or does not. The three
  semaphores of mark-8 are created, and removed, in one step each, and a signal within counts
  as one that goes wrong. A signal inside a transfer of mark-8 takes a unit of a
  semaphore along, which stops the others; only safety is claimed there.
- `os_hw8`: within a group of names the opens, and the unlinks, are one step; mixing inside
  a group is a spoilt behaviour as well and is counted there. A `sem_wait` that fails is left out.
- After a step that makes a behaviour spoilt nothing is followed, in `WorkerResources` and in
  `ReadersWriter`: the objects then depend on which ids and addresses are used again.
- `ihw4` and `hw9` do not check `pthread_create`; here threads are always created. A thread that
  is missing would leave `pthread_join` with an id that was never written.
- `TextReversal`: `fork`, `pipe`, `read`, `write` and `close` that fail (`mark4/main.c:319-342`); files
  that cannot be opened, a text that is too short and a pipe without readers are there.
- `UdpFactory`: the branches of `is_socket_alive`, `SOCKET_ERROR` and a failing `recv` on the side
  of the clients (`client-tools.c:178-240`): a client ends there as it does after a failed call,
  which it may do in the model when it sends.
- Undefined behaviour is not followed further than to where it begins: the index outside of
  the chunk in `TextStream` ends the claim, the record of zeros in mark-9 makes a signal go wrong.
- The exercises in assembler: sequential, and without a state that outlives a call.

## 7. Plan

1. `PinsRing`: `pin.h` implements the sequences of `PinPipeline` (refinement, proof).
2. Collectors with bounded sockets in `ServerShutdown`, for the logs sender that hangs.
