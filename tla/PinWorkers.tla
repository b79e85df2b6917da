----------------------------- MODULE PinWorkers -----------------------------
(***************************************************************************)
(* The pin factories of os_ihw2: the processes and rings of mark-4-5 and   *)
(* mark-6-7 (PinBuffer), and the programs of mark-8, mark-9 and mark-10    *)
(* with what they create and remove (WorkerResources).  They have the same *)
(* workers and share no state.                                             *)
(***************************************************************************)
EXTENDS PinBuffer

CONSTANTS
    Programs, ResourcePins, ResourceSize    \* Marks, Pins and Size of WorkerResources

VARIABLES
    program, place, hand,                   \* mark, pc and pin of WorkerResources
    object, extra, count, line, tie, overlapped, spoilt

Res == INSTANCE WorkerResources WITH
    Marks <- Programs, Pins <- ResourcePins, Size <- ResourceSize,
    mark <- program, pc <- place, pin <- hand

resources == <<program, object, extra, count, line, place, tie, hand, overlapped, spoilt>>

\* deinit_shared_memory_info, deinit_queue: what a worker uses is not removed under it, and
\* nothing stays behind when all have left.
ResourcesFollowUsers ==
    Res!TypeOK /\ Res!UsedExists /\ Res!NothingLeftBehind
=============================================================================
