--------------------------- MODULE MCClientTable ----------------------------
(***************************************************************************)
(* Values for TLC: which clients there are, and how long the arrays are.   *)
(***************************************************************************)
EXTENDS ClientTable

CONSTANTS w1, w2, l1, m1

\* More workers and managers than slots, one collector.
MCAll == [worker |-> {w1, w2}, logs |-> {l1}, manager |-> {m1}]
MCWorkersOnly == [worker |-> {w1, w2}, logs |-> {}, manager |-> {m1}]
\* One worker that comes back.
MCOneWorker == [worker |-> {w1}, logs |-> {}, manager |-> {m1}]

MCOneSlotEach == [t \in Types |-> 1]

\* Room for a command that leaves the size as it is.
MCTwoWorkerSlots == [worker |-> 2, logs |-> 1, manager |-> 1]
=============================================================================
