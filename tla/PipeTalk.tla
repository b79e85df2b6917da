------------------------------ MODULE PipeTalk ------------------------------
(***************************************************************************)
(* os_hw9: a parent and its child talk over one pipe in both directions.  *)
(* A semaphore of value 1 lets one of them at a time read a message and    *)
(* write the next; an empty message is in the pipe at the beginning.  Each *)
(* may read what it wrote itself.  Ctrl-C reaches both, each in its time.  *)
(***************************************************************************)
EXTENDS Naturals, Sequences, FiniteSets

CONSTANT MaxSignals     \* how often Ctrl-C is pressed

Processes == {"parent", "child"}

VARIABLES
    pc, is_running, pending,    \* of both processes; pending: signals on the way
    result,                     \* EXIT_SUCCESS or EXIT_FAILURE, so far
    sem, exists,                \* the semaphore
    pipe,                       \* who wrote the messages in the pipe
    pressed

vars == <<pc, is_running, pending, result, sem, exists, pipe, pressed>>

\* After main has forked.
Init ==
    /\ pc = [q \in Processes |-> "test"] /\ is_running = [q \in Processes |-> TRUE]
    /\ pending = [q \in Processes |-> 0] /\ result = [q \in Processes |-> "ok"]
    /\ sem = 1 /\ exists = TRUE /\ pipe = <<"main">> /\ pressed = 0

At(q, l) == pc[q] = l
Go(q, l) == pc' = [pc EXCEPT ![q] = l]
After(q) == IF q = "parent" THEN "join" ELSE "ended"

TestRunning(q) ==
    /\ At(q, "test") /\ Go(q, IF is_running[q] THEN "wait" ELSE After(q))
    /\ UNCHANGED <<is_running, pending, result, sem, exists, pipe, pressed>>

\* Mutant: the semaphore is taken when it is not free.
SemWaitNot(q) ==
    /\ At(q, "wait") /\ sem' = (IF sem > 0 THEN sem - 1 ELSE 0) /\ Go(q, "read")
    /\ UNCHANGED <<is_running, pending, result, exists, pipe, pressed>>

SemWait(q) ==
    /\ At(q, "wait") /\ sem > 0 /\ sem' = sem - 1 /\ Go(q, "read")
    /\ UNCHANGED <<is_running, pending, result, exists, pipe, pressed>>

\* Blocks on an empty pipe; a read takes all that is there.
ReadMessage(q) ==
    /\ At(q, "read") /\ pipe # <<>> /\ pipe' = <<>> /\ Go(q, "write")
    /\ UNCHANGED <<is_running, pending, result, sem, exists, pressed>>

\* Mutant: a child that was told to end writes nothing more.
WriteWhileRunning(q) ==
    /\ At(q, "write") /\ pipe' = (IF is_running[q] THEN Append(pipe, q) ELSE pipe)
    /\ Go(q, "post")
    /\ UNCHANGED <<is_running, pending, result, sem, exists, pressed>>

WriteMessage(q) ==
    /\ At(q, "write") /\ pipe' = Append(pipe, q) /\ Go(q, "post")
    /\ UNCHANGED <<is_running, pending, result, sem, exists, pressed>>

SemPost(q) ==
    /\ At(q, "post") /\ sem' = sem + 1 /\ Go(q, "sleep")
    /\ UNCHANGED <<is_running, pending, result, exists, pipe, pressed>>

Awake(q) ==
    /\ At(q, "sleep") /\ Go(q, "test")
    /\ UNCHANGED <<is_running, pending, result, sem, exists, pipe, pressed>>

\* Mutant: the parent does not wait for the child.
WaitNobody ==
    /\ At("parent", "join") /\ Go("parent", "remove")
    /\ UNCHANGED <<is_running, pending, result, sem, exists, pipe, pressed>>

WaitChild ==
    /\ At("parent", "join") /\ At("child", "ended") /\ Go("parent", "remove")
    /\ UNCHANGED <<is_running, pending, result, sem, exists, pipe, pressed>>

RemoveSemaphore ==
    /\ At("parent", "remove") /\ Go("parent", "ended") /\ exists' = FALSE
    /\ UNCHANGED <<is_running, pending, result, sem, pipe, pressed>>

CtrlC ==
    /\ pressed < MaxSignals /\ pressed' = pressed + 1
    /\ pending' = [q \in Processes |-> IF At(q, "ended") THEN 0 ELSE pending[q] + 1]
    /\ UNCHANGED <<pc, is_running, result, sem, exists, pipe>>

\* A process that is blocked in semop leaves it with EINTR, one that is about to call it
\* goes on to wait; sleep ends early, wait starts again.
HandleSignal(q) ==
    /\ pending[q] > 0 /\ pc[q] # "ended" /\ pending' = [pending EXCEPT ![q] = @ - 1]
    /\ is_running' = [is_running EXCEPT ![q] = FALSE]
    /\ \/ UNCHANGED <<pc, result>>
       \/ /\ At(q, "wait") /\ Go(q, After(q))
          /\ result' = [result EXCEPT ![q] = "failed"]
       \/ At(q, "sleep") /\ Go(q, "test") /\ UNCHANGED result
    /\ UNCHANGED <<sem, exists, pipe, pressed>>

Step(q) ==
    \/ TestRunning(q) \/ SemWait(q) \/ ReadMessage(q) \/ WriteMessage(q) \/ SemPost(q)
    \/ Awake(q)

Next ==
    \/ \E q \in Processes : Step(q) \/ HandleSignal(q)
    \/ WaitChild \/ RemoveSemaphore \/ CtrlC

\* Both processes run and signals arrive; semop is first come, first served.
Fairness ==
    /\ \A q \in Processes : WF_vars(Step(q)) /\ SF_vars(SemWait(q)) /\ WF_vars(HandleSignal(q))
    /\ WF_vars(WaitChild) /\ WF_vars(RemoveSemaphore)

Spec == Init /\ [][Next]_vars /\ Fairness

-----------------------------------------------------------------------------
(* Properties.                                                             *)

TypeOK ==
    /\ pc \in [Processes -> {"test", "wait", "read", "write", "post", "sleep", "join",
                             "remove", "ended"}]
    /\ is_running \in [Processes -> BOOLEAN] /\ result \in [Processes -> {"ok", "failed"}]
    /\ pending \in [Processes -> 0 .. MaxSignals] /\ pressed \in 0 .. MaxSignals
    /\ sem \in 0 .. 1 /\ exists \in BOOLEAN /\ Len(pipe) <= 1

\* Whoever has the semaphore finds exactly one message, so that no read blocks with the
\* semaphore taken; nobody uses it after the parent has removed it.
Holders == {q \in Processes : pc[q] \in {"read", "write", "post"}}
OneMessage ==
    /\ sem + Cardinality(Holders) = 1
    /\ Len(pipe) + Cardinality({q \in Processes : At(q, "write")}) = 1
    /\ ~exists => \A q \in Processes : At(q, "ended")

\* Ctrl-C ends both processes, wherever it finds them, and the semaphore goes.
CtrlCEnds == (pressed > 0) ~> (~exists /\ \A q \in Processes : At(q, "ended"))
=============================================================================
