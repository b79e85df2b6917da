---------------------------- MODULE ReadersWriter ---------------------------
(***************************************************************************)
(* os_hw8: a writer puts numbers into a ring in shared memory and up to    *)
(* MAX_READERS readers take them out.  The processes are started in any    *)
(* order; a writer that is not the first and a reader too many end.        *)
(* Ctrl-C (SIGINT) in one ends the others with SIGTERM; a writer removes   *)
(* the names of the semaphores and of the memory, a reader that of its own *)
(* semaphore.  Who opens a name that was removed makes a newer object.     *)
(*                                                                         *)
(* A behaviour is followed up to the step that makes it spoilt: a process  *)
(* then holds objects of two ages, or writes beyond reader_pids.           *)
(***************************************************************************)
EXTENDS Integers, Sequences, FiniteSets, SequencesExt

CONSTANTS
    Writers, Readers,       \* the processes that may be started
    NoPid,                  \* writer_pid of zeroed memory
    BUF_SIZE, MAX_READERS,
    MaxCtrlC                \* how often the user presses it: a bound

Processes == Writers \union Readers

VARIABLES
    pc,
    sigterm,                    \* the processes with a pending SIGTERM
    handling,                   \* the signals a process is in the handler of
    full, empty, read_mutex, write_mutex, admin,    \* semaphores
    writer, first_writer,
    reader, own,                \* which of the readers' semaphores are taken, and whose is which
    reader_gen,                 \* how often their name was removed
    removed,                    \* the names that a writer removed
    spoilt,
    store, write_index, read_index, reader_pids, writer_pid,
    ctrl_c,                     \* how often it is still pressed
    known                       \* who worked when one that works was interrupted first

mutexes == <<read_mutex, write_mutex>>
counters == <<full, empty>>
roles == <<admin, writer, first_writer>>
reader_sem == <<reader, own, reader_gen>>
names == <<removed, spoilt>>
ring == <<store, write_index, read_index>>
pids == <<reader_pids, writer_pid>>
signals == <<sigterm, handling, ctrl_c, known>>
shared == <<mutexes, counters, roles, ring, pids>>
vars == <<pc, signals, shared, reader_sem, names>>

\* off: who may be started.
Init ==
    /\ pc \in [Processes -> {"off", "ended"}] /\ ctrl_c \in 0 .. MaxCtrlC
    /\ sigterm = {} /\ handling = [p \in Processes |-> {}] /\ known = {}
    /\ full = 0 /\ empty = BUF_SIZE /\ read_mutex = 1 /\ write_mutex = 1
    /\ admin = 0 /\ writer = 1 /\ first_writer = 1
    /\ reader = {} /\ own = [r \in Readers |-> 0] /\ reader_gen = 0
    /\ removed = {} /\ spoilt = FALSE
    /\ store = [i \in 0 .. BUF_SIZE - 1 |-> 0] /\ write_index = 0 /\ read_index = 0
    /\ reader_pids = <<>> /\ writer_pid = NoPid

Goto(p, to) == pc' = [pc EXCEPT ![p] = to]

\* A pending SIGTERM is taken first, unless its handler runs already.
Free(p) == p \in sigterm => "SIGTERM" \in handling[p]
At(p, here) == pc[p] = here /\ Free(p)

Spoil == spoilt' = TRUE /\ UNCHANGED <<pc, removed>>

\* Where a process has the memory, and where it takes part.
Mapped(p) == pc[p] \notin {"off", "map", "pass", "newer", "elsewhere", "ended"}
Working(p) == pc[p] \in {"release", "wait", "mutex", "cell", "advance", "unlock"}

-----------------------------------------------------------------------------
(* Starting.  The names stand for: admin; ring, the two mutexes and the    *)
(* counters; memory; roles, writer and first_writer.                       *)

\* init: of the names it opens the ring's are removed before admin's.
OpenSemaphores(p) ==
    /\ pc[p] = "off"
    /\ \/ /\ "ring" \notin removed /\ Goto(p, IF p \in Writers THEN "map" ELSE "pass")
          /\ UNCHANGED names
       \/ /\ "admin" \in removed /\ Goto(p, IF p \in Writers THEN "newer" ELSE "elsewhere")
          /\ UNCHANGED names
       \/ "ring" \in removed /\ "admin" \notin removed /\ Spoil
    /\ UNCHANGED <<signals, shared, reader_sem>>

\* The newer objects are another run; memory of this one would not fit to them.
OpenNewerMemory(w) ==
    /\ At(w, "newer")
    /\ IF "memory" \in removed THEN Goto(w, "elsewhere") /\ UNCHANGED names ELSE Spoil
    /\ UNCHANGED <<signals, shared, reader_sem>>

\* A writer makes what is not there.
CreateMemory(w) ==
    /\ w \in Writers /\ At(w, "map")
    /\ IF "memory" \in removed THEN Spoil ELSE Goto(w, "role") /\ UNCHANGED names
    /\ UNCHANGED <<signals, shared, reader_sem>>

OpenRoles(w) ==
    /\ At(w, "role")
    /\ IF "roles" \in removed THEN Spoil ELSE Goto(w, "enter") /\ UNCHANGED names
    /\ UNCHANGED <<signals, shared, reader_sem>>

\* A reader lets the next one pass at once.
PassAdmin(r) ==
    /\ At(r, "pass") /\ admin > 0 /\ Goto(r, "map")
    /\ UNCHANGED <<signals, shared, reader_sem, names>>

\* It makes no memory: it ends when there is none, or finds that of a newer writer.
OpenMemory(r) ==
    /\ r \in Readers /\ At(r, "map")
    /\ \/ "memory" \notin removed /\ Goto(r, "sem") /\ UNCHANGED names
       \/ "memory" \in removed /\ Goto(r, "ended") /\ UNCHANGED names
       \/ "memory" \in removed /\ (\E w \in Writers : pc[w] = "elsewhere") /\ Spoil
    /\ UNCHANGED <<signals, shared, reader_sem>>

OpenReaderSem(r) ==
    /\ At(r, "sem") /\ own' = [own EXCEPT ![r] = reader_gen] /\ Goto(r, "enter")
    /\ UNCHANGED <<signals, shared, reader, reader_gen, names>>

-----------------------------------------------------------------------------
(* The writer.                                                             *)

EnterWriters(w) ==
    /\ At(w, "enter") /\ writer > 0 /\ writer' = writer - 1 /\ Goto(w, "check")
    /\ UNCHANGED <<signals, mutexes, counters, admin, first_writer, reader_sem, names, ring, pids>>

\* Mutant: the writers are not kept apart, and the first is a matter of luck.
CheckFirstOpen(w) ==
    /\ At(w, "check") /\ Goto(w, "set_up") /\ writer' = writer + 1
    /\ UNCHANGED <<signals, mutexes, counters, admin, first_writer, reader_sem, names, ring, pids>>

CheckFirst(w) ==
    /\ At(w, "check")
    /\ IF first_writer = 0 THEN Goto(w, "ended") /\ writer' = writer + 1
       ELSE Goto(w, "claim") /\ UNCHANGED writer
    /\ UNCHANGED <<signals, mutexes, counters, admin, first_writer, reader_sem, names, ring, pids>>

ClaimFirst(w) ==
    /\ At(w, "claim") /\ first_writer > 0 /\ first_writer' = first_writer - 1
    /\ writer' = writer + 1 /\ Goto(w, "set_up")
    /\ UNCHANGED <<signals, mutexes, counters, admin, reader_sem, names, ring, pids>>

\* memset, and -1 for a cell that is empty.
SetUp(w) ==
    /\ At(w, "set_up") /\ store' = [i \in 0 .. BUF_SIZE - 1 |-> -1]
    /\ write_index' = 0 /\ read_index' = 0 /\ reader_pids' = <<>> /\ writer_pid' = w
    /\ Goto(w, "raise")
    /\ UNCHANGED <<signals, mutexes, counters, roles, reader_sem, names>>

RaiseAdmin(w) ==
    /\ At(w, "raise") /\ admin' = (IF admin = 0 THEN 1 ELSE admin) /\ Goto(w, "wait")
    /\ UNCHANGED <<signals, mutexes, counters, writer, first_writer, reader_sem, names, ring, pids>>

WaitEmpty(w) ==
    /\ w \in Writers /\ At(w, "wait") /\ empty > 0 /\ empty' = empty - 1 /\ Goto(w, "mutex")
    /\ UNCHANGED <<signals, mutexes, full, roles, reader_sem, names, ring, pids>>

LockWrite(w) ==
    /\ w \in Writers /\ At(w, "mutex") /\ write_mutex > 0 /\ write_mutex' = write_mutex - 1
    /\ Goto(w, "cell")
    /\ UNCHANGED <<signals, read_mutex, counters, roles, reader_sem, names, ring, pids>>

\* The number, any of 0 .. 10, is 1 here.
WriteCell(w) ==
    /\ w \in Writers /\ At(w, "cell") /\ store' = [store EXCEPT ![write_index] = 1]
    /\ write_index' = (write_index + 1) % BUF_SIZE /\ full' = full + 1 /\ Goto(w, "unlock")
    /\ UNCHANGED <<signals, mutexes, empty, roles, reader_sem, names, read_index, pids>>

UnlockWrite(w) ==
    /\ w \in Writers /\ At(w, "unlock") /\ write_mutex' = write_mutex + 1 /\ Goto(w, "wait")
    /\ UNCHANGED <<signals, read_mutex, counters, roles, reader_sem, names, ring, pids>>

-----------------------------------------------------------------------------
(* A reader.                                                               *)

EnterReaders(r) ==
    /\ At(r, "enter") /\ own[r] \notin reader
    /\ reader' = reader \union {own[r]} /\ Goto(r, "check_full")
    /\ UNCHANGED <<signals, shared, own, reader_gen, names>>

\* Mutant: one more is let in.
CheckReadersMore(r) ==
    /\ At(r, "check_full")
    /\ IF Len(reader_pids) > MAX_READERS THEN Goto(r, "ended") /\ reader' = reader \ {own[r]}
       ELSE Goto(r, "register") /\ UNCHANGED reader
    /\ UNCHANGED <<signals, shared, own, reader_gen, names>>

CheckReaders(r) ==
    /\ At(r, "check_full")
    /\ IF Len(reader_pids) >= MAX_READERS THEN Goto(r, "ended") /\ reader' = reader \ {own[r]}
       ELSE Goto(r, "register") /\ UNCHANGED reader
    /\ UNCHANGED <<signals, shared, own, reader_gen, names>>

\* The size may have grown since, behind another semaphore of the same name.
Register(r) ==
    /\ At(r, "register") /\ reader_pids' = Append(reader_pids, r) /\ Goto(r, "release")
    /\ spoilt' = (Len(reader_pids) >= MAX_READERS)
    /\ UNCHANGED <<signals, mutexes, counters, roles, ring, writer_pid, reader_sem, removed>>

ReleaseReaders(r) ==
    /\ At(r, "release") /\ reader' = reader \ {own[r]} /\ Goto(r, "wait")
    /\ UNCHANGED <<signals, shared, own, reader_gen, names>>

WaitFull(r) ==
    /\ r \in Readers /\ At(r, "wait") /\ full > 0 /\ full' = full - 1 /\ Goto(r, "mutex")
    /\ UNCHANGED <<signals, mutexes, empty, roles, reader_sem, names, ring, pids>>

\* Mutant: the readers do not exclude each other.
LockReadOpen(r) ==
    /\ r \in Readers /\ At(r, "mutex") /\ read_mutex' = read_mutex - 1 /\ Goto(r, "cell")
    /\ UNCHANGED <<signals, write_mutex, counters, roles, reader_sem, names, ring, pids>>

LockRead(r) ==
    /\ r \in Readers /\ At(r, "mutex") /\ read_mutex > 0 /\ read_mutex' = read_mutex - 1
    /\ Goto(r, "cell")
    /\ UNCHANGED <<signals, write_mutex, counters, roles, reader_sem, names, ring, pids>>

\* The cell is emptied, and its number's factorial is printed.
TakeNumber(r) ==
    /\ r \in Readers /\ At(r, "cell") /\ store' = [store EXCEPT ![read_index] = -1]
    /\ Goto(r, "advance")
    /\ UNCHANGED <<signals, mutexes, counters, roles, reader_sem, names, write_index, read_index, pids>>

AdvanceRead(r) ==
    /\ At(r, "advance") /\ read_index' = (read_index + 1) % BUF_SIZE /\ empty' = empty + 1
    /\ Goto(r, "unlock")
    /\ UNCHANGED <<signals, mutexes, full, roles, reader_sem, names, store, write_index, pids>>

UnlockRead(r) ==
    /\ r \in Readers /\ At(r, "unlock") /\ read_mutex' = read_mutex + 1 /\ Goto(r, "wait")
    /\ UNCHANGED <<signals, write_mutex, counters, roles, reader_sem, names, ring, pids>>

-----------------------------------------------------------------------------
(* sigfunc.                                                                *)

Alive(p) == pc[p] \notin {"off", "ended"}


TellOthers(p) ==
    (ToSet(reader_pids) \ {p}) \union (IF p \in Readers THEN {writer_pid} \ {NoPid} ELSE {})

\* sem_close fails on what was not opened or is closed: the process ends and removes nothing.
EnterHandler(p, signal) ==
    /\ handling' = [handling EXCEPT ![p] = @ \union {signal}]
    /\ \/ handling[p] = {} /\ Goto(p, IF pc[p] \in {"role", "sem"} THEN "ended" ELSE "close")
       \/ handling[p] # {} /\ Goto(p, "ended")
       \/ handling[p] # {} /\ pc[p] = "close" /\ UNCHANGED pc

\* Without the memory the handler fails on the null pointer; elsewhere it tells others there.
Interrupt(p) ==
    /\ Alive(p) /\ Free(p) /\ "SIGINT" \notin handling[p]
    /\ ctrl_c > 0 /\ ctrl_c' = ctrl_c - 1
    /\ \/ /\ Mapped(p) /\ EnterHandler(p, "SIGINT")
          /\ sigterm' = sigterm \union {q \in TellOthers(p) : Alive(q)}
          /\ known' = (IF known = {} /\ Working(p) THEN {q \in Processes : Working(q)} ELSE known)
          /\ UNCHANGED reader_gen
       \/ /\ ~Mapped(p) /\ Goto(p, "ended") /\ UNCHANGED <<handling, known>>
          /\ IF pc[p] = "elsewhere"
             THEN /\ \E others \in SUBSET {q \in Processes \ {p} : pc[q] = "elsewhere"} :
                        sigterm' = sigterm \union others
                  /\ reader_gen' = (IF p \in Readers THEN reader_gen + 1 ELSE reader_gen)
             ELSE UNCHANGED <<sigterm, reader_gen>>
    /\ UNCHANGED <<shared, reader, own, names>>

Terminate(p) ==
    /\ p \in sigterm /\ Alive(p) /\ "SIGTERM" \notin handling[p] /\ sigterm' = sigterm \ {p}
    /\ \/ /\ pc[p] # "elsewhere" /\ EnterHandler(p, "SIGTERM") /\ UNCHANGED reader_gen
       \/ /\ pc[p] = "elsewhere" /\ Goto(p, "ended") /\ UNCHANGED handling
          /\ reader_gen' = (IF p \in Readers THEN reader_gen + 1 ELSE reader_gen)
    /\ UNCHANGED <<ctrl_c, known, shared, reader, own, names>>

\* A reader removes its semaphore's name, a writer the others one by one.
RemoveReaderSem(r) ==
    /\ At(r, "close") /\ reader_gen' = reader_gen + 1 /\ Goto(r, "ended")
    /\ UNCHANGED <<signals, shared, reader, own, names>>

RemoveNames(w) ==
    /\ \/ At(w, "close") /\ removed' = removed \union {"roles"} /\ Goto(w, "rm_ring")
       \/ At(w, "rm_ring") /\ removed' = removed \union {"ring"} /\ Goto(w, "rm_admin")
       \/ At(w, "rm_admin") /\ removed' = removed \union {"admin"} /\ Goto(w, "rm_memory")
       \/ At(w, "rm_memory") /\ removed' = removed \union {"memory"} /\ Goto(w, "ended")
    /\ UNCHANGED <<signals, shared, reader_sem, spoilt>>

Writer(w) ==
    \/ OpenNewerMemory(w) \/ CreateMemory(w) \/ OpenRoles(w) \/ EnterWriters(w)
    \/ CheckFirst(w) \/ ClaimFirst(w) \/ SetUp(w) \/ RaiseAdmin(w)
    \/ WaitEmpty(w) \/ LockWrite(w) \/ WriteCell(w) \/ UnlockWrite(w)
    \/ Terminate(w) \/ RemoveNames(w)

Reader(r) ==
    \/ PassAdmin(r) \/ OpenMemory(r) \/ OpenReaderSem(r) \/ EnterReaders(r)
    \/ CheckReaders(r) \/ Register(r) \/ ReleaseReaders(r)
    \/ WaitFull(r) \/ LockRead(r) \/ TakeNumber(r) \/ AdvanceRead(r) \/ UnlockRead(r)
    \/ Terminate(r) \/ RemoveReaderSem(r)

Next ==
    /\ ~spoilt
    /\ \/ \E w \in Writers : Writer(w)
       \/ \E r \in Readers : Reader(r)
       \/ \E p \in Processes : OpenSemaphores(p) \/ Interrupt(p)

\* The processes run while they are followed; sem_wait lets in who waits in turn.
Spec ==
    /\ Init /\ [][Next]_vars
    /\ \A w \in Writers : WF_vars(~spoilt /\ Writer(w))
    /\ \A r \in Readers : WF_vars(~spoilt /\ Reader(r))

-----------------------------------------------------------------------------
(* Properties.                                                             *)

\* The type of the state (shared_memory, common.h).
TypeOK ==
    /\ pc \in [Processes -> {"off", "map", "pass", "newer", "elsewhere", "role", "sem", "enter",
                             "check", "claim", "set_up", "raise", "check_full", "register",
                             "release", "wait", "mutex", "cell", "advance", "unlock", "close",
                             "rm_ring", "rm_admin", "rm_memory", "ended"}]
    /\ full \in 0 .. BUF_SIZE /\ empty \in 0 .. BUF_SIZE
    /\ \A s \in {read_mutex, write_mutex, admin, writer, first_writer} : s \in 0 .. 1
    /\ store \in [0 .. BUF_SIZE - 1 -> -1 .. 10]
    /\ \A i \in DOMAIN reader_pids : reader_pids[i] \in Readers
    /\ writer_pid \in Writers \union {NoPid}

\* A reader never takes from an empty cell and the writer never writes over a number that
\* was not read, also when others are ended in the middle (the loops of both programs).
CellsAreRight ==
    \A p \in Processes : At(p, "cell") =>
        store[IF p \in Readers THEN read_index ELSE write_index]
            = (IF p \in Readers THEN 1 ELSE -1)

\* One writer takes part, and a ring that readers can see has been set up by it
\* (first_writer, admin).
OneWriter ==
    /\ Cardinality({w \in Writers : Working(w) \/ pc[w] \in {"set_up", "raise"}}) <= 1
    /\ admin = 1 => writer_pid # NoPid

\* No reader is registered beyond the array before one that ended has removed the readers'
\* semaphore, and objects of two ages meet only after a writer has begun to remove the names
\* (reader.c, sem_wait(reader) to sem_post(reader); unlink_all).
SpoiltByRemoval ==
    /\ Len(reader_pids) > MAX_READERS => reader_gen > 0
    /\ spoilt => reader_gen > 0 \/ removed # {}

\* After Ctrl-C in one that works, whoever worked then comes to its end (sigfunc of both
\* programs).
WorkersEnded == spoilt \/ \A p \in known : pc[p] = "ended"
WorkersEnd == known # {} ~> WorkersEnded
=============================================================================
