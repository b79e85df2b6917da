------------------------------ MODULE LogsFifo ------------------------------
(***************************************************************************)
(* What the logs queue of the server promises, without saying how: a FIFO  *)
(* of at most Capacity logs.  A producer that finds no room gives its log  *)
(* up (a stuttering step here); a log that was accepted stays in its place *)
(* until the logs sender takes it, and it is taken exactly once.           *)
(***************************************************************************)
EXTENDS Naturals, Sequences

CONSTANTS
    Logs,      \* the messages a log can carry
    NoLog,     \* what the sender holds before its first log
    Capacity   \* how many logs the queue holds

VARIABLES
    queue,     \* the accepted logs nobody has taken, oldest first
    taken      \* the log the sender took last

vars == <<queue, taken>>

Init == queue = <<>> /\ taken = NoLog

Accept(l) ==
    /\ Len(queue) < Capacity
    /\ queue' = Append(queue, l)
    /\ UNCHANGED taken

Take ==
    /\ queue # <<>>
    /\ taken' = Head(queue)
    /\ queue' = Tail(queue)

Next == Take \/ \E l \in Logs : Accept(l)

Spec == Init /\ [][Next]_vars
=============================================================================
