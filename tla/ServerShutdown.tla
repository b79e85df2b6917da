--------------------------- MODULE ServerShutdown ---------------------------
(***************************************************************************)
(* How the server of os_ihw3/mark-10 ends (net/server.c): the main thread  *)
(* with its accept loop, the signal handler that interrupts it, and the    *)
(* three threads it creates, cancels and joins.  stop_all_threads can be   *)
(* run by the handler, by main and by each of the threads.                 *)
(*                                                                         *)
(* A cancelled thread ends at the next cancellation point it is at: recv,  *)
(* send, puts, nanosleep, sem_wait, but not pthread_mutex_lock.  It does   *)
(* not release its mutexes.  The build has the handler of System V: one    *)
(* signal is handled, accept and sleep are interrupted and not restarted.  *)
(* What the threads do otherwise is in PinPipeline, ClientTable, LogsQueue.*)
(***************************************************************************)
EXTENDS Naturals, FiniteSets, Sequences

CONSTANTS
    WorkersConnected,   \* are there workers for the poller to poll?
    SignalAt            \* the steps of main at which the signal can arrive

Created == <<"poller", "logs", "handler">>      \* in the order of creation
Joined == <<"logs", "poller", "handler">>       \* in the order of the joins
Threads == {"poller", "logs", "handler"}
Actors == Threads \union {"main", "signal"}

MainPC == {"create", "record", "check", "toaccept", "accept", "insert", "checkout",
           "join", "tell", "sleep", "deinit", "failed", "ended"}

VARIABLES
    pc,         \* where main and the threads are
    k,          \* the thread main creates or joins next: an index of Created or Joined
    stop,       \* where each actor is in stop_all_threads: "no", "test", "set", "cancel"
    disposed, running,      \* running: the four is_..._running, which change together
    app_threads,            \* the recorded threads
    cancelled,              \* threads with a cancellation request
    mutex,      \* the holder of the mutex of the workers' arrays, or "nobody"
    logged,     \* is there a log in the queue?
    signalled   \* has the signal arrived?

shared == <<disposed, running, app_threads, cancelled>>
vars == <<pc, k, stop, disposed, running, app_threads, cancelled, mutex, logged, signalled>>

Init ==
    /\ pc = [a \in Threads \union {"main"} |-> IF a = "main" THEN "create" ELSE "absent"]
    /\ k = 1
    /\ stop = [a \in Actors |-> "no"]
    /\ disposed = FALSE /\ running = TRUE
    /\ app_threads = {} /\ cancelled = {}
    /\ mutex = "nobody" /\ logged = FALSE /\ signalled = FALSE

Goto(a, l) == pc' = [pc EXCEPT ![a] = l]

\* Main does nothing while the handler runs on its stack.
Free(a) ==
    /\ stop[a] = "no" /\ (a = "main" => stop["signal"] = "no")
    /\ pc["main"] # "ended"

\* The call of stop_all_threads begins; Stopping goes through it.
StopAllThreads(a) == stop' = [stop EXCEPT ![a] = "test"]

\* if (disposed) return;
TestDisposed(a) ==
    /\ stop[a] = "test"
    /\ stop' = [stop EXCEPT ![a] = IF disposed THEN "no" ELSE "set"]
    /\ UNCHANGED <<pc, k, shared, mutex, logged, signalled>>

SetFlags(a) ==
    /\ stop[a] = "set"
    /\ disposed' = TRUE /\ running' = FALSE
    /\ stop' = [stop EXCEPT ![a] = "cancel"]
    /\ UNCHANGED <<pc, k, app_threads, cancelled, mutex, logged, signalled>>

\* Mutant: the loop ends one thread early.
CancelAllButLogs(a) ==
    /\ stop[a] = "cancel"
    /\ cancelled' = cancelled \union (app_threads \ {"logs"})
    /\ stop' = [stop EXCEPT ![a] = "no"]
    /\ UNCHANGED <<pc, k, disposed, running, app_threads, mutex, logged, signalled>>

\* Mutant: the entries that were never filled are not passed over.
CancelEveryEntry(a) ==
    /\ stop[a] = "cancel"
    /\ cancelled' = Threads
    /\ stop' = [stop EXCEPT ![a] = "no"]
    /\ UNCHANGED <<pc, k, disposed, running, app_threads, mutex, logged, signalled>>

CancelAll(a) ==
    /\ stop[a] = "cancel"
    /\ cancelled' = cancelled \union app_threads
    /\ stop' = [stop EXCEPT ![a] = "no"]
    /\ UNCHANGED <<pc, k, disposed, running, app_threads, mutex, logged, signalled>>

Stopping(a) ==
    /\ pc["main"] # "ended" /\ (a = "main" => stop["signal"] = "no")
    /\ TestDisposed(a) \/ SetFlags(a) \/ CancelAll(a)

\* Ctrl-C: the kernel gives the signal to the main thread.  accept returns EINTR.
Signal ==
    /\ ~signalled /\ pc["main"] \in SignalAt \ {"ended"}
    /\ signalled' = TRUE /\ StopAllThreads("signal")
    /\ IF pc["main"] = "accept" THEN Goto("main", "checkout") ELSE UNCHANGED pc
    /\ UNCHANGED <<k, shared, mutex, logged>>

-----------------------------------------------------------------------------
(* main: start_runtime_loop, then deinit_server.                           *)

CreateThread ==
    /\ pc["main"] = "create" /\ Free("main")
    /\ pc' = [pc EXCEPT !["main"] = "record", ![Created[k]] = "check"]
    /\ UNCHANGED <<k, stop, shared, mutex, logged, signalled>>

\* The threads that exist are cancelled, but not joined.
CreateFails ==
    /\ pc["main"] = "create" /\ Free("main")
    /\ StopAllThreads("main") /\ Goto("main", "failed")
    /\ UNCHANGED <<k, shared, mutex, logged, signalled>>

\* app_threads[app_threads_size++] = *pthread_id, after pthread_create
RecordThread ==
    /\ pc["main"] = "record" /\ Free("main")
    /\ app_threads' = app_threads \union {Created[k]}
    /\ IF k < Len(Created) THEN k' = k + 1 /\ Goto("main", "create")
                           ELSE k' = 1 /\ Goto("main", "check")
    /\ UNCHANGED <<stop, disposed, running, cancelled, mutex, logged, signalled>>

AcceptorCheck ==
    /\ pc["main"] = "check" /\ Free("main")
    /\ Goto("main", IF running THEN "toaccept" ELSE "checkout")
    /\ UNCHANGED <<k, stop, shared, mutex, logged, signalled>>

EnterAccept ==
    /\ pc["main"] = "toaccept" /\ Free("main") /\ Goto("main", "accept")
    /\ UNCHANGED <<k, stop, shared, mutex, logged, signalled>>

ClientComes ==
    /\ pc["main"] = "accept" /\ Free("main") /\ Goto("main", "insert")
    /\ UNCHANGED <<k, stop, shared, mutex, logged, signalled>>

\* handle_new_client locks the array of a worker and logs what it does.
InsertClient ==
    /\ pc["main"] = "insert" /\ Free("main")
    /\ WorkersConnected => mutex = "nobody"
    /\ logged' = TRUE /\ Goto("main", "check")
    /\ UNCHANGED <<k, stop, shared, mutex, signalled>>

AcceptFails ==
    /\ pc["main"] = "accept" /\ Free("main") /\ Goto("main", "checkout")
    /\ UNCHANGED <<k, stop, shared, mutex, logged, signalled>>

\* After the loop: if (is_acceptor_running) stop_all_threads();
LeaveLoop ==
    /\ pc["main"] = "checkout" /\ Free("main")
    /\ IF running THEN StopAllThreads("main") ELSE UNCHANGED stop
    /\ Goto("main", "join")
    /\ UNCHANGED <<k, shared, mutex, logged, signalled>>

\* A thread that is done may still be in stop_all_threads.
Ended(t) == pc[t] = "done" /\ stop[t] = "no"

\* Mutant: the last thread is not joined.
LastJoinEarly == Len(Joined) - 1

LastJoin == Len(Joined)

JoinThread ==
    /\ pc["main"] = "join" /\ Free("main") /\ Ended(Joined[k])
    /\ IF k < LastJoin THEN k' = k + 1 /\ UNCHANGED pc
                       ELSE k' = 1 /\ Goto("main", "tell")
    /\ UNCHANGED <<stop, shared, mutex, logged, signalled>>

\* send_shutdown_signal_to_all locks the arrays one after the other.
TellClients ==
    /\ pc["main"] = "tell" /\ Free("main") /\ mutex = "nobody"
    /\ Goto("main", "sleep")
    /\ UNCHANGED <<k, stop, shared, mutex, logged, signalled>>

SleepBeforeClose ==
    /\ pc["main"] = "sleep" /\ Free("main") /\ Goto("main", "deinit")
    /\ UNCHANGED <<k, stop, shared, mutex, logged, signalled>>

\* deinit_server and the end of the process
Deinit ==
    /\ pc["main"] \in {"deinit", "failed"} /\ Free("main") /\ Goto("main", "ended")
    /\ UNCHANGED <<k, stop, shared, mutex, logged, signalled>>

Main ==
    \/ CreateThread \/ CreateFails \/ RecordThread \/ AcceptorCheck \/ EnterAccept
    \/ InsertClient \/ LeaveLoop \/ JoinThread \/ TellClients
    \/ SleepBeforeClose \/ Deinit

Network == ClientComes \/ AcceptFails

-----------------------------------------------------------------------------
(* The threads.                                                            *)

CancellationPoint == [poller |-> {"work", "sleep"}, logs |-> {"wait", "send", "sleep"},
                      handler |-> {"sleep", "work"}]

\* A request is acted upon; what the thread has locked stays locked.
Cancelled(t) ==
    /\ t \in cancelled /\ pc[t] \in CancellationPoint[t] /\ Free(t)
    /\ Goto(t, "done")
    /\ UNCHANGED <<k, stop, shared, mutex, logged, signalled>>

\* The condition of the loops, and the end of the threads: one that has left its
\* loop for an error finds its flag set and stops the others.
LoopCheck(t, first) ==
    /\ pc[t] = "check" /\ Free(t)
    /\ Goto(t, IF running THEN first ELSE "checkout")
    /\ UNCHANGED <<k, stop, shared, mutex, logged, signalled>>

ThreadEnds(t) ==
    /\ pc[t] = "checkout" /\ Free(t)
    /\ IF running THEN StopAllThreads(t) ELSE UNCHANGED stop
    /\ Goto(t, "done")
    /\ UNCHANGED <<k, shared, mutex, logged, signalled>>

\* nanosleep, to its end
Sleep(t, next) ==
    /\ pc[t] = "sleep" /\ t \notin cancelled /\ Free(t) /\ Goto(t, next)
    /\ UNCHANGED <<k, stop, shared, mutex, logged, signalled>>

\* The poller: a stage with workers is polled under its mutex.  One stage stands
\* for the three.
PollerLocks ==
    /\ pc["poller"] = "lock" /\ Free("poller")
    /\ IF WorkersConnected
       THEN mutex = "nobody" /\ mutex' = "poller" /\ Goto("poller", "work")
       ELSE UNCHANGED mutex /\ Goto("poller", "sleep")
    /\ UNCHANGED <<k, stop, shared, logged, signalled>>

\* Mutant: a failure returns without the unlock.
PollerUnlocksUnlessFailed ==
    /\ pc["poller"] = "work" /\ Free("poller")
    /\ logged' \in {logged, TRUE}
    /\ \/ mutex' = "nobody" /\ Goto("poller", "sleep")
       \/ UNCHANGED mutex /\ Goto("poller", "checkout")
    /\ UNCHANGED <<k, stop, shared, signalled>>

\* It has polled the workers, or failed.
PollerUnlocks ==
    /\ pc["poller"] = "work" /\ Free("poller")
    /\ logged' \in {logged, TRUE} /\ mutex' = "nobody"
    /\ \E l \in {"sleep", "checkout"} : Goto("poller", l)
    /\ UNCHANGED <<k, stop, shared, signalled>>

Poller ==
    \/ LoopCheck("poller", "lock") \/ PollerLocks \/ PollerUnlocks
    \/ Sleep("poller", "check") \/ ThreadEnds("poller") \/ Cancelled("poller")

\* The logs sender: sem_wait, then the log is sent to the collectors.
WaitForLog ==
    /\ pc["logs"] = "wait" /\ Free("logs") /\ logged /\ "logs" \notin cancelled
    /\ logged' \in BOOLEAN /\ Goto("logs", "send")
    /\ UNCHANGED <<k, stop, shared, mutex, signalled>>

SendLog ==
    /\ pc["logs"] = "send" /\ Free("logs") /\ Goto("logs", "sleep")
    /\ UNCHANGED <<k, stop, shared, mutex, logged, signalled>>

LogsSender ==
    \/ LoopCheck("logs", "wait") \/ WaitForLog \/ SendLog
    \/ Sleep("logs", "check") \/ ThreadEnds("logs") \/ Cancelled("logs")

\* The managers handler sleeps, polls the managers, executes a command, or fails.
HandleManagers ==
    /\ pc["handler"] = "work" /\ Free("handler")
    /\ logged' \in {logged, TRUE}
    /\ \E l \in {"check", "checkout"} : Goto("handler", l)
    /\ UNCHANGED <<k, stop, shared, mutex, signalled>>

ManagersHandler ==
    \/ LoopCheck("handler", "sleep") \/ HandleManagers
    \/ Sleep("handler", "work") \/ ThreadEnds("handler") \/ Cancelled("handler")

-----------------------------------------------------------------------------
Next ==
    \/ Signal \/ \E a \in Actors : Stopping(a)
    \/ Main \/ Network \/ Poller \/ LogsSender \/ ManagersHandler

Spec == Init /\ [][Next]_vars

\* Threads and the handler keep running; clients and signals need not come.
FairSpec ==
    /\ Spec
    /\ \A a \in Actors : WF_vars(Stopping(a))
    /\ WF_vars(Main) /\ WF_vars(Poller) /\ WF_vars(LogsSender) /\ WF_vars(ManagersHandler)

-----------------------------------------------------------------------------
(* Properties.                                                             *)

\* What the constants have to be.
ConstantsOK == WorkersConnected \in BOOLEAN /\ SignalAt \subseteq MainPC

\* The threads are at one of their steps, and only recorded threads are asked to
\* end: the other entries of app_threads are no threads.
TypeOK ==
    /\ pc \in [Threads \union {"main"} -> MainPC \union
                  {"absent", "lock", "work", "wait", "send", "done"}]
    /\ pc["main"] \in MainPC
    /\ k \in 1 .. Len(Created)
    /\ stop \in [Actors -> {"no", "test", "set", "cancel"}]
    /\ disposed \in BOOLEAN /\ running \in BOOLEAN /\ logged \in BOOLEAN
    /\ signalled \in BOOLEAN
    /\ app_threads \subseteq Threads /\ cancelled \subseteq app_threads
    /\ mutex \in {"nobody", "poller"}

\* The sockets are closed and the mutexes destroyed only when no thread is left
\* to use them.  (After a failed pthread_create the code does not wait.)
ThreadsEndBeforeDeinit ==
    pc["main"] \in {"tell", "sleep", "deinit"} => \A t \in Threads : Ended(t)

\* Only a cancellation leaves the mutex locked by a thread that has ended:
\* every path out of the poller's loop unlocks it.
OnlyCancelOrphansTheMutex ==
    mutex = "poller" /\ pc["poller"] \in {"checkout", "done"} => "poller" \in cancelled

\* What can keep a server that has been told to stop from ending: the poller
\* was cancelled with the mutex locked; main waits in accept, which only the
\* signal or a client ends; the threads were stopped before all of them were
\* recorded, so that one that waits was not cancelled.
Orphaned == mutex = "poller" /\ pc["poller"] = "done"
InAccept == pc["main"] = "accept"
StoppedEarly == ~running /\ pc["main"] \in {"create", "record"}

\* Whoever stops the threads, the server ends, save for these reasons.  (report.md:16 and
\* 599 promise the end at Ctrl-C without any.)
StoppedServerEnds ==
    \/ <>StoppedEarly
    \/ ~running ~> (pc["main"] = "ended" \/ Orphaned \/ InAccept)
=============================================================================
