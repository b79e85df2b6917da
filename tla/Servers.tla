------------------------------- MODULE Servers -------------------------------
(***************************************************************************)
(* The TCP servers of os_ihw3 and how they end: the one of mark-4-5 with   *)
(* its workers (FirstServer, on top of TcpClients), and the threads of the *)
(* one of mark-10 (ServerShutdown).  They are different programs that      *)
(* share no state; this module gives their properties one set of names.    *)
(***************************************************************************)
EXTENDS FirstServer

CONSTANTS
    WorkersConnected, SignalAt      \* of ServerShutdown

VARIABLES                           \* of ServerShutdown
    step,                           \* pc
    turn,                           \* k
    ctrl_c,                         \* signalled
    stop, disposed, running, app_threads, cancelled, mutex, logged

shutdown == <<step, turn, stop, disposed, running, app_threads, cancelled, mutex, logged, ctrl_c>>

Shutdown == INSTANCE ServerShutdown WITH pc <- step, k <- turn, signalled <- ctrl_c

\* The threads of mark-10 are at one of their steps; pthread_cancel reaches no entry of
\* app_threads that was never filled.
ThreadsTypeOK == Shutdown!TypeOK

\* start_runtime_loop: no thread of mark-10 outlives the sockets and the mutexes.
ThreadsEndBeforeDeinit == Shutdown!ThreadsEndBeforeDeinit

\* The mutex of the workers of mark-10 is left locked by a cancellation only.
OnlyCancelOrphansTheMutex == Shutdown!OnlyCancelOrphansTheMutex
=============================================================================
