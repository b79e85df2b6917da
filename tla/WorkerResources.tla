-------------------------- MODULE WorkerResources ---------------------------
(***************************************************************************)
(* The pin factories of os_ihw2/mark-8, mark-9 and mark-10: every worker   *)
(* is a program of its own.  The first to come creates what carries the    *)
(* pins of a tie (shared memory with three semaphores, a System V queue, a *)
(* POSIX queue) with a count of its users, the last to leave removes it.   *)
(* Each system call is a step, and a signal may come between any two.      *)
(*                                                                         *)
(* Workers that start while others start or leave can go wrong, and so can *)
(* one that is interrupted while it starts or leaves.  A behaviour is      *)
(* followed up to that step, which makes it spoilt (see Wrong).            *)
(***************************************************************************)
EXTENDS Naturals, Sequences, FiniteSets

CONSTANTS
    FirstWorkers, SecondWorkers, ThirdWorkers,
    Pins, NoPin,
    Size,           \* SH_MEM_BUFFER_SIZE, MAX_QUEUE_MESSAGES
    Marks           \* the programs, of {"8", "9", "10"}

Ties == {"1-2", "2-3"}
Workers == FirstWorkers \union SecondWorkers \union ThirdWorkers

\* The order in which main opens its ties; the handler leaves them backwards.
FirstTie(w) == IF w \in ThirdWorkers THEN "2-3" ELSE "1-2"
LastTie(w) == IF w \in FirstWorkers THEN "1-2" ELSE "2-3"

VARIABLES
    mark,
    object,     \* the ties whose memory or queue exists
    extra,      \* the ties whose semaphores, or counting semaphore, exist
    count,      \* the users of a tie, as its counter says
    line,       \* the pins on the way
    pc, tie,    \* what a worker does, and with which tie
    pin,
    overlapped, \* a start has overlapped one that creates or removes (see Overlap)
    spoilt

objects == <<object, extra, count, line>>
vars == <<mark, objects, pc, tie, pin, overlapped, spoilt>>

Init ==
    /\ mark \in Marks /\ object = {} /\ extra = {}
    /\ count = [t \in Ties |-> 0] /\ line = [t \in Ties |-> <<>>]
    /\ pc = [w \in Workers |-> "off"] /\ tie = [w \in Workers |-> FirstTie(w)]
    /\ pin = [w \in Workers |-> NoPin] /\ overlapped = FALSE /\ spoilt = FALSE

Starting == {"open", "found", "create", "set", "post"}
Leaving == {"drop", "test", "delete", "remove"}
At(w, l) == pc[w] = l
Stay(w, l) == pc' = [pc EXCEPT ![w] = l] /\ UNCHANGED tie

\* After one tie the next, then the work.
Opened(w) ==
    IF tie[w] = LastTie(w) THEN Stay(w, "run")
    ELSE pc' = [pc EXCEPT ![w] = "open"] /\ tie' = [tie EXCEPT ![w] = LastTie(w)]

\* Who has left a tie, or not opened it, leaves the one before.
Before(w) == IF tie[w] = FirstTie(w) THEN "off" ELSE "drop"
Leave(S, other) ==
    /\ pc' = [w \in Workers |-> IF w \in S THEN Before(w) ELSE other[w]]
    /\ tie' = [w \in Workers |-> IF w \in S THEN FirstTie(w) ELSE tie[w]]
Left(w) == Leave({w}, pc)

\* Who else is at these points with the same tie, and whether it is being removed.
Others(w, L) == {v \in Workers \ {w} : tie[v] = tie[w] /\ pc[v] \in L}
Dying(w) == Others(w, {"delete", "remove"}) # {}

Remove(t) == object' = object \ {t} /\ line' = [line EXCEPT ![t] = <<>>]
Add(n, w) == count' = [count EXCEPT ![tie[w]] = @ + n]
Lower(w) == count' = [count EXCEPT ![tie[w]] = @ - 1]

\* The ties a worker is counted in.
Joined(w) ==
    IF At(w, "run") THEN {FirstTie(w), LastTie(w)}
    ELSE IF At(w, "off") THEN {}
    ELSE IF At(w, "drop") THEN {tie[w], FirstTie(w)}
    ELSE {FirstTie(w)} \ {tie[w]}

-----------------------------------------------------------------------------
(* mark-8: the counter lies in the shared memory.                          *)

\* What shmget has created it finds no second time.
GetMemory(w) ==
    /\ mark = "8" /\ At(w, "open") /\ object' = object \union {tie[w]}
    /\ IF tie[w] \in object THEN Stay(w, "found") /\ UNCHANGED count
       ELSE Stay(w, "set") /\ count' = [count EXCEPT ![tie[w]] = 0]
    /\ UNCHANGED <<extra, line, pin>>

FindMemory(w) ==
    /\ mark = "8" /\ At(w, "found")
    /\ IF tie[w] \in object THEN Stay(w, "post") ELSE Left(w)
    /\ UNCHANGED <<objects, pin>>

InitMemory(w) ==
    /\ mark = "8" /\ At(w, "set") /\ count[tie[w]] = 0 /\ ~Dying(w)
    /\ count' = [count EXCEPT ![tie[w]] = 1] /\ Stay(w, "create")
    /\ UNCHANGED <<object, extra, line, pin>>

CreateSemaphores(w) ==
    /\ mark = "8" /\ At(w, "create")
    /\ extra' = extra \union {tie[w]} /\ Opened(w)
    /\ UNCHANGED <<object, count, line, pin>>

JoinMemory(w) ==
    /\ mark = "8" /\ At(w, "post") /\ ~Dying(w)
    /\ Add(1, w) /\ Opened(w) /\ UNCHANGED <<object, extra, line, pin>>

LeaveMemory(w) ==
    /\ mark = "8" /\ At(w, "drop")
    /\ IF count[tie[w]] > 0 THEN Lower(w) ELSE UNCHANGED count
    /\ IF count[tie[w]] = 1 THEN Stay(w, "delete") ELSE Left(w)
    /\ UNCHANGED <<object, extra, line, pin>>

DeleteSemaphores(w) ==
    /\ mark = "8" /\ At(w, "delete") /\ Others(w, {"set", "post"}) = {}
    /\ extra' = extra \ {tie[w]} /\ Stay(w, "remove")
    /\ UNCHANGED <<object, count, line, pin>>

\* Of two that remove the memory the other finds its id dead.
RemoveMemory(w) ==
    /\ mark = "8" /\ At(w, "remove") /\ Others(w, {"set", "post"}) = {}
    /\ Remove(tie[w]) /\ Leave({w} \union Others(w, {"delete", "remove"}), pc)
    /\ UNCHANGED <<extra, count, pin>>

-----------------------------------------------------------------------------
(* mark-9: a System V semaphore counts the users of a System V queue.      *)

GetQueue(w) ==
    /\ mark = "9" /\ At(w, "open")
    /\ object' = object \union {tie[w]} /\ Stay(w, "create")
    /\ UNCHANGED <<extra, count, line, pin>>

\* A new semaphore has the value 0 until it is set.
CreateCounter(w) ==
    /\ mark = "9" /\ At(w, "create") /\ extra' = extra \union {tie[w]}
    /\ IF tie[w] \in extra THEN Stay(w, "found") /\ UNCHANGED count
       ELSE Stay(w, "set") /\ count' = [count EXCEPT ![tie[w]] = 0]
    /\ UNCHANGED <<object, line, pin>>

FindCounter(w) ==
    /\ mark = "9" /\ At(w, "found")
    /\ IF tie[w] \in extra THEN Stay(w, "post") ELSE Left(w)
    /\ UNCHANGED <<objects, pin>>

SetCounter(w) ==
    /\ mark = "9" /\ At(w, "set") /\ count[tie[w]] = 0 /\ ~Dying(w)
    /\ count' = [count EXCEPT ![tie[w]] = 1] /\ Opened(w)
    /\ UNCHANGED <<object, extra, line, pin>>

RaiseCounter(w) ==
    /\ mark = "9" /\ At(w, "post") /\ ~Dying(w)
    /\ Add(1, w) /\ Opened(w) /\ UNCHANGED <<object, extra, line, pin>>

LowerCounter(w) ==
    /\ mark = "9" /\ At(w, "drop")
    /\ IF count[tie[w]] = 0 THEN Left(w) /\ UNCHANGED count
       ELSE Stay(w, "test") /\ Lower(w)
    /\ UNCHANGED <<object, extra, line, pin>>

\* Mutant: the last but one removes.
ReadCounterEarly(w) ==
    /\ mark = "9" /\ At(w, "test")
    /\ IF count[tie[w]] < 2 THEN Stay(w, "delete") ELSE Left(w)
    /\ UNCHANGED <<objects, pin>>

\* Of two that leave at once both may read 0.
ReadCounter(w) ==
    /\ mark = "9" /\ At(w, "test")
    /\ IF count[tie[w]] = 0 THEN Stay(w, "delete") ELSE Left(w)
    /\ UNCHANGED <<objects, pin>>

\* The id is dead then: who would read the counter leaves, who would delete it goes on to
\* the queue.
DeleteCounter(w) ==
    /\ mark = "9" /\ At(w, "delete") /\ Others(w, {"set", "post"}) = {}
    /\ extra' = extra \ {tie[w]}
    /\ Leave(Others(w, {"test"}),
             [v \in Workers |-> IF v = w \/ v \in Others(w, {"delete"}) THEN "remove" ELSE pc[v]])
    /\ UNCHANGED <<object, count, line, pin>>

HaveQueue == {"create", "found", "set", "post"}

DeleteQueue(w) ==
    /\ mark = "9" /\ At(w, "remove") /\ Others(w, HaveQueue) = {}
    /\ Remove(tie[w]) /\ Leave({w} \union Others(w, {"remove"}), pc)
    /\ UNCHANGED <<extra, count, pin>>

-----------------------------------------------------------------------------
(* mark-10: a POSIX semaphore counts the users of a POSIX queue.           *)

OpenQueue(w) ==
    /\ mark = "10" /\ At(w, "open")
    /\ object' = object \union {tie[w]} /\ Stay(w, "create")
    /\ UNCHANGED <<extra, count, line, pin>>

OpenCounter(w) ==
    /\ mark = "10" /\ At(w, "create") /\ extra' = extra \union {tie[w]}
    /\ IF tie[w] \in extra THEN Stay(w, "found") /\ UNCHANGED count
       ELSE ~Dying(w) /\ Opened(w) /\ count' = [count EXCEPT ![tie[w]] = 1]
    /\ UNCHANGED <<object, line, pin>>

ReopenCounter(w) ==
    /\ mark = "10" /\ At(w, "found") /\ tie[w] \in extra /\ Stay(w, "post")
    /\ UNCHANGED <<objects, pin>>

PostCounter(w) ==
    /\ mark = "10" /\ At(w, "post") /\ ~Dying(w)
    /\ Add(1, w) /\ Opened(w) /\ UNCHANGED <<object, extra, line, pin>>

TryWaitCounter(w) ==
    /\ mark = "10" /\ At(w, "drop")
    /\ IF count[tie[w]] = 0 THEN Left(w) /\ UNCHANGED count
       ELSE Stay(w, "test") /\ Lower(w)
    /\ UNCHANGED <<object, extra, line, pin>>

GetValue(w) ==
    /\ mark = "10" /\ At(w, "test")
    /\ IF count[tie[w]] = 0 THEN Stay(w, "delete") ELSE Left(w)
    /\ UNCHANGED <<objects, pin>>

\* Mutant: the queue keeps its name.
UnlinkCounterOnly(w) ==
    /\ mark = "10" /\ At(w, "delete")
    /\ extra' = extra \ {tie[w]} /\ Left(w)
    /\ UNCHANGED <<object, count, line, pin>>

\* Who has the semaphore open still reads its value, which is 0.
UnlinkCounter(w) ==
    /\ mark = "10" /\ At(w, "delete") /\ Others(w, {"post"}) = {}
    /\ extra' = extra \ {tie[w]}
    /\ Leave({}, [v \in Workers |-> IF v = w THEN "remove"
                                    ELSE IF v \in Others(w, {"test"}) THEN "delete" ELSE pc[v]])
    /\ UNCHANGED <<object, count, line, pin>>

UnlinkQueue(w) ==
    /\ mark = "10" /\ At(w, "remove") /\ Others(w, {"create", "found", "post"}) = {}
    /\ Remove(tie[w]) /\ Left(w) /\ UNCHANGED <<extra, count, pin>>

-----------------------------------------------------------------------------
(* The work of the three marks.                                            *)

Start(w) ==
    /\ At(w, "off") /\ pc' = [pc EXCEPT ![w] = "open"]
    /\ tie' = [tie EXCEPT ![w] = FirstTie(w)]
    /\ UNCHANGED <<objects, pin>>

\* A first worker made a good pin: rand() gave an id that is nowhere.
MakePin(w) ==
    /\ w \in FirstWorkers /\ At(w, "run") /\ pin[w] = NoPin
    /\ \E p \in Pins :
          /\ \A v \in Workers : pin[v] # p
          /\ \A t \in Ties : \A i \in 1 .. Len(line[t]) : line[t][i] # p
          /\ pin' = [pin EXCEPT ![w] = p]
    /\ UNCHANGED <<objects, pc, tie>>

\* In mark-8 the transfer needs the semaphores.
Carries(t) == mark = "8" => t \in extra
Sends(w) == w \notin ThirdWorkers /\ At(w, "run") /\ pin[w] # NoPin
Waits(w) == w \notin FirstWorkers /\ At(w, "run") /\ pin[w] = NoPin

\* Blocks while the tie is full.
SendPin(w) ==
    /\ Sends(w) /\ Carries(LastTie(w)) /\ Len(line[LastTie(w)]) < Size
    /\ line' = [line EXCEPT ![LastTie(w)] = Append(@, pin[w])]
    /\ pin' = [pin EXCEPT ![w] = NoPin]
    /\ UNCHANGED <<object, extra, count, pc, tie>>

WaitForPin(w) ==
    /\ Waits(w) /\ Carries(FirstTie(w)) /\ line[FirstTie(w)] # <<>>
    /\ pin' = [pin EXCEPT ![w] = Head(line[FirstTie(w)])]
    /\ line' = [line EXCEPT ![FirstTie(w)] = Tail(@)]
    /\ UNCHANGED <<object, extra, count, pc, tie>>

CheckQuality(w) ==
    /\ w \in ThirdWorkers /\ At(w, "run") /\ pin[w] # NoPin
    /\ pin' = [pin EXCEPT ![w] = NoPin] /\ UNCHANGED <<objects, pc, tie>>

-----------------------------------------------------------------------------
(* Signals, and where the code goes wrong.                                 *)

\* The handler.  A worker of mark-8 may be between two calls of a transfer: the units it
\* takes with it only stop the others, which nothing here excludes.
Quit(w) ==
    /\ At(w, "run") /\ pc' = [pc EXCEPT ![w] = "drop"]
    /\ tie' = [tie EXCEPT ![w] = LastTie(w)]
    /\ pin' = [pin EXCEPT ![w] = NoPin] /\ UNCHANGED objects

\* Somebody else will remove the queue.
CaredFor(w) ==
    \/ tie[w] \in extra
    \/ Others(w, {"create", "found", "remove"}) # {}

\* During a start: the record says that the tie is not open, or that its counter is not.
QuitEarly(w) ==
    /\ \/ At(w, "open") \/ At(w, "post")
       \/ At(w, "found") /\ (mark = "8" \/ CaredFor(w))
       \/ At(w, "create") /\ mark # "8" /\ CaredFor(w)
    /\ Left(w) /\ UNCHANGED <<objects, pin>>

\* A signal that comes when the count, or an object, is not in the record, or is not
\* counted yet; at "open" of mark-9 the record is zeros, which name a semaphore and a queue;
\* a second signal inside the handler.
Caught(w) ==
    \/ pc[w] \in {"create", "set", "post"} \union Leaving
    \/ At(w, "open") /\ mark = "9"
    \/ At(w, "found") /\ mark # "8" /\ ~CaredFor(w)

\* The creator sets the counter after others have raised it.
SetsAgain(w) == mark # "10" /\ At(w, "set") /\ count[tie[w]] # 0

\* The last to leave did not see those who have opened it since, and they not that it is
\* being removed.
RemovesOpened(w) ==
    \/ mark = "8" /\ pc[w] \in {"delete", "remove"} /\ Others(w, {"set", "post"}) # {}
    \/ mark # "8" /\ At(w, "delete") /\ Others(w, {"set", "post"}) # {}
    \/ mark = "9" /\ At(w, "remove") /\ Others(w, HaveQueue) # {}
    \/ mark = "10" /\ At(w, "remove") /\ Others(w, {"create", "found", "post"}) # {}
JoinsDying(w) ==
    /\ Dying(w)
    /\ \/ pc[w] \in {"set", "post"}
       \/ mark = "10" /\ At(w, "create") /\ tie[w] \notin extra

\* A worker of mark-8 uses semaphores that the creator has not created, which fails; a
\* counter of mark-10 is gone between two sem_open, and sem_post gets SEM_FAILED.
Misses(w) ==
    \/ Sends(w) /\ ~Carries(LastTie(w))
    \/ Waits(w) /\ ~Carries(FirstTie(w))
    \/ mark = "10" /\ At(w, "found") /\ tie[w] \notin extra

Wrong(w) == Caught(w) \/ SetsAgain(w) \/ RemovesOpened(w) \/ JoinsDying(w) \/ Misses(w)

\* A worker starts at a tie that another one creates or removes.
Overlap == \E v, w \in Workers :
    /\ v # w /\ tie[v] = tie[w] /\ pc[v] \in Starting
    /\ pc[w] \in {"set", "delete", "remove"} \/ (mark = "8" /\ At(w, "create"))

Opening(w) ==
    \/ GetMemory(w) \/ FindMemory(w) \/ InitMemory(w) \/ CreateSemaphores(w) \/ JoinMemory(w)
    \/ GetQueue(w) \/ CreateCounter(w) \/ FindCounter(w) \/ SetCounter(w) \/ RaiseCounter(w)
    \/ OpenQueue(w) \/ OpenCounter(w) \/ ReopenCounter(w) \/ PostCounter(w)
Closing(w) ==
    \/ LeaveMemory(w) \/ DeleteSemaphores(w) \/ RemoveMemory(w)
    \/ LowerCounter(w) \/ ReadCounter(w) \/ DeleteCounter(w) \/ DeleteQueue(w)
    \/ TryWaitCounter(w) \/ GetValue(w) \/ UnlinkCounter(w) \/ UnlinkQueue(w)
Working(w) == MakePin(w) \/ SendPin(w) \/ WaitForPin(w) \/ CheckQuality(w)

Next ==
    /\ ~spoilt /\ UNCHANGED mark
    /\ \E w \in Workers :
          \/ /\ Start(w) \/ Quit(w) \/ QuitEarly(w) \/ Opening(w) \/ Closing(w) \/ Working(w)
             /\ UNCHANGED spoilt
          \/ Wrong(w) /\ spoilt' = TRUE /\ UNCHANGED <<objects, pc, tie, pin>>
    /\ overlapped' = (overlapped \/ Overlap')

Spec == Init /\ [][Next]_vars

-----------------------------------------------------------------------------
(* Properties.                                                             *)

\* The type invariant; the counters of init_queue and init_shared_memory_info never
\* exceed the number of workers.
TypeOK ==
    /\ mark \in Marks /\ object \subseteq Ties /\ extra \subseteq Ties
    /\ count \in [Ties -> 0 .. Cardinality(Workers)]
    /\ \A t \in Ties : Len(line[t]) <= Size
    /\ pc \in [Workers -> {"off", "run"} \union Starting \union Leaving]
    /\ tie \in [Workers -> Ties] /\ pin \in [Workers -> Pins \union {NoPin}]
    /\ overlapped \in BOOLEAN /\ spoilt \in BOOLEAN

\* What a worker uses is there, or is being created (init_resources_impl of mark-8, where a
\* second user does not wait for the semaphores).
UsedExists == \A w \in Workers : \A t \in Joined(w) :
    /\ t \in object
    /\ \/ t \in extra
       \/ mark = "8" /\ \E v \in Workers : tie[v] = t /\ pc[v] \in {"set", "create"}

\* Who decides to remove is the last: nobody else is counted then
\* (deinit_shared_memory_info, deinit_queue).
LastRemoves == [][
    \A w \in Workers : At(w, "delete")' /\ ~At(w, "delete") =>
        \A v \in Workers \ {w} : tie[w] \notin Joined(v)
    ]_vars

\* When all workers have left, nothing is left behind, in whatever order they came and
\* went.
NothingLeftBehind == (\A w \in Workers : At(w, "off")) => object = {} /\ extra = {}

\* It goes wrong only after a start has overlapped a creation or a removal, or by a signal
\* inside a start or inside the handler (Caught).
SpoiltByOverlap == [][
    spoilt' => spoilt \/ overlapped \/ \E w \in Workers : Caught(w)
    ]_vars

\* A pin on the way goes to a worker, or is lost when the last user of its tie has left:
\* pins outlive the worker that sent them.
InLine(p, t) == \E i \in 1 .. Len(line[t]) : line[t][i] = p
PinsWaitForUsers == [][
    \A p \in Pins, t \in Ties : InLine(p, t) =>
        InLine(p, t)' \/ (\E w \in Workers : pin'[w] = p) \/ \A w \in Workers : t \notin Joined(w)
    ]_vars
=============================================================================
