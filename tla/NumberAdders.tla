---------------------------- MODULE NumberAdders ----------------------------
(***************************************************************************)
(* hw9: generator threads push numbers into a cyclic queue; main pops two  *)
(* at a time and starts an adder thread that pushes their sum, until one   *)
(* number is left.  Push is under a mutex, PopPair waits for a semaphore   *)
(* and takes no lock.                                                      *)
(***************************************************************************)
EXTENDS Integers, FiniteSets, FiniteSetsExt

CONSTANTS
    N,              \* kNumGenThreadsCount
    MaxSize         \* kMaxSize, no less than N

None == 0           \* no thread: the mutex is free

Generators == 1 .. N
Adders == N + 1 .. 2 * N - 1        \* N + iter + 1 in the order they are started
AllThreads == Generators \union Adders

VARIABLES
    queue_data, read_index, write_index, queue_lock, read_semaphore,
    pc, number,             \* of each thread; number: what it pushes
    mPc, iter, num1, num2,  \* main
    started, result

queue == <<queue_data, read_index, write_index, queue_lock, read_semaphore>>
main == <<mPc, iter, num1, num2, started, result>>
vars == <<queue, pc, number, main>>

Init ==
    /\ queue_data = [i \in 0 .. MaxSize - 1 |-> 0]
    /\ read_index = 0 /\ write_index = 0 /\ queue_lock = None /\ read_semaphore = 0
    /\ pc = [t \in AllThreads |-> "off"]
    /\ number = [t \in AllThreads |-> IF t \in Generators THEN t ELSE 0]
    /\ mPc = "generators" /\ iter = 0 /\ num1 = 0 /\ num2 = 0 /\ started = 0 /\ result = 0

-----------------------------------------------------------------------------
(* Push, called by a generator or an adder.                                *)

\* Mutant: the lock is not taken.
WriteUnlocked(t) ==
    /\ pc[t] = "push"
    /\ queue_data' = [queue_data EXCEPT ![write_index] = number[t]]
    /\ pc' = [pc EXCEPT ![t] = "advance"]
    /\ UNCHANGED <<read_index, write_index, queue_lock, read_semaphore, number, main>>

LockAndWrite(t) ==
    /\ pc[t] = "push" /\ queue_lock = None /\ queue_lock' = t
    /\ queue_data' = [queue_data EXCEPT ![write_index] = number[t]]
    /\ pc' = [pc EXCEPT ![t] = "advance"]
    /\ UNCHANGED <<read_index, write_index, read_semaphore, number, main>>

AdvanceAndUnlock(t) ==
    /\ pc[t] = "advance" /\ queue_lock' = None
    /\ write_index' = (write_index + 1) % MaxSize
    /\ pc' = [pc EXCEPT ![t] = "post"]
    /\ UNCHANGED <<queue_data, read_index, read_semaphore, number, main>>

PostRead(t) ==
    /\ pc[t] = "post" /\ read_semaphore' = read_semaphore + 1
    /\ pc' = [pc EXCEPT ![t] = "done"]
    /\ UNCHANGED <<queue_data, read_index, write_index, queue_lock, number, main>>

Thread(t) == LockAndWrite(t) \/ AdvanceAndUnlock(t) \/ PostRead(t)

-----------------------------------------------------------------------------
(* main.                                                                   *)

StartGenerator ==
    /\ mPc = "generators" /\ started' = started + 1
    /\ pc' = [pc EXCEPT ![started'] = "push"]
    /\ mPc' = IF started' = N THEN "wait" ELSE "generators"
    /\ UNCHANGED <<queue, number, iter, num1, num2, result>>

WaitForOne ==
    /\ mPc \in {"wait", "wait2"} /\ read_semaphore > 0
    /\ read_semaphore' = read_semaphore - 1
    /\ mPc' = IF mPc = "wait" THEN "wait2" ELSE "first"
    /\ UNCHANGED <<queue_data, read_index, write_index, queue_lock, pc, number, iter, num1,
                   num2, started, result>>

ReadOne ==
    /\ mPc \in {"first", "second"} /\ read_index' = (read_index + 1) % MaxSize
    /\ IF mPc = "first" THEN num1' = queue_data[read_index] /\ mPc' = "second" /\ UNCHANGED num2
       ELSE num2' = queue_data[read_index] /\ mPc' = "adder" /\ UNCHANGED num1
    /\ UNCHANGED <<queue_data, write_index, queue_lock, read_semaphore, pc, number, iter,
                   started, result>>

StartAdder ==
    /\ mPc = "adder" /\ iter' = iter + 1
    /\ pc' = [pc EXCEPT ![N + iter'] = "push"]
    /\ number' = [number EXCEPT ![N + iter'] = num1 + num2]
    /\ mPc' = IF iter' = N - 1 THEN "join" ELSE "wait"
    /\ UNCHANGED <<queue, num1, num2, started, result>>

JoinAddersAndPrint ==
    /\ mPc = "join" /\ \A t \in Adders : pc[t] = "done"
    /\ result' = queue_data[read_index] /\ mPc' = "generated"
    /\ UNCHANGED <<queue, pc, number, iter, num1, num2, started>>

JoinGenerators ==
    /\ mPc = "generated" /\ \A t \in Generators : pc[t] = "done" /\ mPc' = "done"
    /\ UNCHANGED <<queue, pc, number, iter, num1, num2, started, result>>

Main ==
    \/ StartGenerator \/ WaitForOne \/ ReadOne \/ StartAdder
    \/ JoinAddersAndPrint \/ JoinGenerators

Next == Main \/ \E t \in AllThreads : Thread(t)

\* The scheduler lets every thread run.
Spec == Init /\ [][Next]_vars /\ WF_vars(Main) /\ \A t \in AllThreads : WF_vars(Thread(t))

-----------------------------------------------------------------------------
(* Properties.                                                             *)

\* The type of the state (CyclicQueue).
TypeOK ==
    /\ read_index \in 0 .. MaxSize - 1 /\ write_index \in 0 .. MaxSize - 1
    /\ queue_lock \in AllThreads \union {None} /\ read_semaphore \in 0 .. 2 * N - 1
    /\ pc \in [AllThreads -> {"off", "push", "advance", "post", "done"}]
    /\ iter \in 0 .. N - 1 /\ started \in 0 .. N

\* What has been written and not read, and by whom.
Written == {t \in AllThreads : pc[t] \in {"advance", "post", "done"}}
Popped ==
    2 * iter + (CASE mPc = "second" -> 1 [] mPc = "adder" -> 2 [] OTHER -> 0)
Unread == Cardinality(Written) - Popped
InQueue == MapThenSumSet(LAMBDA k : queue_data[(read_index + k) % MaxSize],
                                       0 .. Unread - 1)
OfThreads ==
    MapThenSumSet(LAMBDA t : number[t],
                  {t \in AllThreads \ Written : t \in Generators \/ pc[t] # "off"})
OfMain ==
    CASE mPc = "second" -> num1 [] mPc = "adder" -> num1 + num2 [] OTHER -> 0

Total == (N * (N + 1)) \div 2

\* No number is lost, read twice, or read before it is written: what is in the queue, in
\* main's hands and still to be pushed always adds up (Push, PopPair, AccumulateResults).
SumIsKept == InQueue + OfThreads + OfMain = Total

\* The number that is printed is the sum of all (AccumulateResults).
ResultIsSum == mPc \in {"generated", "done"} => result = Total

\* Everything comes to its end: PopPair never waits for a number that will not come.
MainEnded == mPc = "done"
AddersEnd == <>MainEnded
=============================================================================
