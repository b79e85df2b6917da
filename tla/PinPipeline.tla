---------------------------- MODULE PinPipeline -----------------------------
(***************************************************************************)
(* The way of a pin through the server of os_ihw3/mark-10.  Workers of     *)
(* stage 1 send pins, the poller thread (workers_poller in net/server.c,   *)
(* poll_workers and send_pins_to_workers in net/server-tools.c) moves them *)
(* to workers of stage 2 through pins_1_to_2, from there through           *)
(* pins_2_to_3 to workers of stage 3, which check them.                    *)
(*                                                                         *)
(* The poller looks at one slot of one client array per step; workers      *)
(* connect, work, and leave between these steps.  TCP is what the code     *)
(* sees of it: bytes in order, recv that returns 0 after an orderly close  *)
(* and leaves errno as it was, an error pending on the socket after a      *)
(* reset, EAGAIN from a full or an empty buffer.  A pin is four bytes and  *)
(* never arrives in parts.  Managers and shutdown are not in this module.  *)
(***************************************************************************)
EXTENDS Naturals, Sequences, FiniteSets, Functions

CONSTANTS
    Workers,        \* Workers[s]: the worker processes of stage s
    MaxWorkers,     \* MaxWorkers[s]: MAX_NUMBER_OF_..._WORKERS, by stage
    Pins,           \* pin ids; an id is used again once its pin is gone
    QueueSize,      \* PINS_QUEUE_MAX_SIZE
    SocketBuffer,   \* how many pins a socket buffers in each direction
    NoClient,       \* the -1 of a free slot
    NoPin           \* a worker's empty hand

Stages == 1 .. 3
Clients == UNION Range(Workers)

ASSUME PipelineAssumption ==
    /\ MaxWorkers \in [Stages -> Nat \ {0}]
    /\ DOMAIN Workers = Stages
    /\ \A s, t \in Stages : s # t => Workers[s] \intersect Workers[t] = {}
    /\ QueueSize \in Nat \ {0} /\ SocketBuffer \in Nat \ {0}
    /\ NoClient \notin Clients /\ NoPin \notin Pins

VARIABLES
    fds,        \* fds[s]: ..._workers_fds, a client where there is a descriptor
    arr_size,   \* arr_size[s]: ..._workers_arr_size
    queue,      \* queue[1] is pins_1_to_2, queue[2] is pins_2_to_3
    pc, slot,   \* where the poller is, and the i of its loop
    errno,      \* the poller thread's errno: "EAGAIN", "dead" for the codes
                \* that mean a dead client, "other" for the rest and for 0
    peer,       \* each connection, seen from the server
    up, down,   \* pins on their way to and from the server
    hand        \* the pin a worker of stage 2 is sharpening

net == <<peer, up, down, hand>>
tables == <<fds, arr_size>>
vars == <<fds, arr_size, queue, pc, slot, errno, peer, up, down, hand>>

\* Mutant: one pin too many.
FullLate(q) == Len(queue[q]) > QueueSize

Full(q) == Len(queue[q]) = QueueSize
Empty(q) == queue[q] = <<>>

\* pins_queue_try_put
Put(q, p) == queue' = [queue EXCEPT ![q] = IF Full(q) THEN @ ELSE Append(@, p)]

\* Mutant: the read position does not move.
PopKeeps(q) == UNCHANGED queue

\* pins_queue_try_pop of a ring that is not empty
Pop(q) == queue' = [queue EXCEPT ![q] = Tail(@)]

Init ==
    /\ fds = [s \in Stages |-> [i \in 1 .. MaxWorkers[s] |-> NoClient]]
    /\ arr_size = [s \in Stages |-> 0]
    /\ queue = [q \in 1 .. 2 |-> <<>>]
    /\ pc = "sleep" /\ slot = 1
    /\ errno = "other"
    /\ peer = [c \in Clients |-> "away"]
    /\ up = [c \in Clients |-> <<>>]
    /\ down = [c \in Clients |-> <<>>]
    /\ hand = [c \in Workers[2] |-> NoPin]

-----------------------------------------------------------------------------
(* The workers.                                                            *)

\* Where a pin can be between the worker that made it and the one that checks it.
InTransit ==
    (UNION {Range(queue[q]) : q \in 1 .. 2})
    \union (UNION {Range(up[c]) \union Range(down[c]) : c \in Clients})
    \union (Range(hand) \ {NoPin})

\* A worker of stage 1 sends a pin it found not crooked.
MakePin(w) ==
    /\ peer[w] = "open" /\ Len(up[w]) < SocketBuffer
    /\ \E p \in Pins \ InTransit : up' = [up EXCEPT ![w] = Append(@, p)]
    /\ UNCHANGED <<tables, queue, pc, slot, errno, peer, down, hand>>

\* A worker of stage 2 receives a pin and sharpens it, ...
TakePin(w) ==
    /\ peer[w] = "open" /\ hand[w] = NoPin /\ down[w] # <<>>
    /\ hand' = [hand EXCEPT ![w] = Head(down[w])]
    /\ down' = [down EXCEPT ![w] = Tail(@)]
    /\ UNCHANGED <<tables, queue, pc, slot, errno, peer, up>>

\* ... and sends it back.
PassPin(w) ==
    /\ peer[w] = "open" /\ hand[w] # NoPin /\ Len(up[w]) < SocketBuffer
    /\ up' = [up EXCEPT ![w] = Append(@, hand[w])]
    /\ hand' = [hand EXCEPT ![w] = NoPin]
    /\ UNCHANGED <<tables, queue, pc, slot, errno, peer, down>>

\* A worker of stage 3 receives a pin and checks it: the end of its way.
CheckPin(w) ==
    /\ peer[w] = "open" /\ down[w] # <<>>
    /\ down' = [down EXCEPT ![w] = Tail(@)]
    /\ UNCHANGED <<tables, queue, pc, slot, errno, peer, up, hand>>

\* A worker ends, whatever it was doing.  Its kernel sends a FIN, or a reset
\* when data it has not read is thrown away.
Leave(c) ==
    /\ peer[c] = "open"
    /\ peer' = [peer EXCEPT ![c] = IF down[c] = <<>> THEN "fin" ELSE "reset"]
    /\ up' = IF down[c] = <<>> THEN up ELSE [up EXCEPT ![c] = <<>>]
    /\ down' = [down EXCEPT ![c] = <<>>]
    /\ hand' = IF c \in DOMAIN hand THEN [hand EXCEPT ![c] = NoPin] ELSE hand
    /\ UNCHANGED <<tables, queue, pc, slot, errno>>

\* Its end answers a pin, or a keep-alive probe, with a reset.
ResetArrives(c) ==
    /\ peer[c] = "fin"
    /\ peer' = [peer EXCEPT ![c] = "reset"]
    /\ up' = [up EXCEPT ![c] = <<>>]
    /\ UNCHANGED <<tables, queue, pc, slot, errno, down, hand>>

-----------------------------------------------------------------------------
(* The acceptor thread.                                                    *)

\* The poller holds the mutex of the stage whose array it walks.
Locked(s) ==
    \/ s = 1 /\ pc = "poll1"
    \/ s = 2 /\ pc \in {"send2", "poll2"}
    \/ s = 3 /\ pc = "send3"

FreeSlots(s) == {i \in 1 .. MaxWorkers[s] : fds[s][i] = NoClient}

\* handle_new_client puts the client into the first free slot of its array.
\* One that finds the array full, or whose type does not arrive within the 16
\* attempts of receive_client_type, is sent away, which changes nothing here.
Accept(s, c) ==
    /\ peer[c] = "away" /\ ~Locked(s)
    /\ \E i \in FreeSlots(s) :
          /\ \A j \in FreeSlots(s) : i <= j
          /\ fds' = [fds EXCEPT ![s][i] = c]
    /\ arr_size' = [arr_size EXCEPT ![s] = @ + 1]
    /\ peer' = [peer EXCEPT ![c] = "open"]
    /\ UNCHANGED <<queue, pc, slot, errno, up, down, hand>>

-----------------------------------------------------------------------------
(* The poller thread.                                                      *)

\* Mutant: the size is forgotten, as send_server_log forgets it.
RemoveKeepsSize(s, c) ==
    /\ fds' = [fds EXCEPT ![s][slot] = NoClient]
    /\ peer' = [peer EXCEPT ![c] = "away"]
    /\ up' = [up EXCEPT ![c] = <<>>]
    /\ down' = [down EXCEPT ![c] = <<>>]
    /\ UNCHANGED <<arr_size, hand>>

\* The slot is freed and the socket closed.
Remove(s, c) ==
    /\ fds' = [fds EXCEPT ![s][slot] = NoClient]
    /\ arr_size' = [arr_size EXCEPT ![s] = @ - 1]
    /\ peer' = [peer EXCEPT ![c] = "away"]
    /\ up' = [up EXCEPT ![c] = <<>>]
    /\ down' = [down EXCEPT ![c] = <<>>]
    /\ UNCHANGED hand

\* The loop of both functions goes on to the next slot ...
NextSlot == slot' = slot + 1 /\ UNCHANGED pc

\* ... and ends like this, to go on at l.
LeaveLoop(l) == pc' = l /\ slot' = 1

\* is_socket_alive finds the pending error, which becomes the errno: one of the
\* listed codes, or one that is not, like ETIMEDOUT.
RemoveReset(s, c) ==
    /\ peer[c] = "reset"
    /\ errno' \in {"dead", "other"}
    /\ Remove(s, c)

\* The error arrives between is_socket_alive and the call itself, which takes it, and its
\* code is not one of the listed: the loop is left with false.
UnknownError(c, l) ==
    /\ peer[c] = "reset" /\ peer' = [peer EXCEPT ![c] = "fin"]
    /\ errno' = "other" /\ LeaveLoop(l)
    /\ UNCHANGED <<tables, up, down, hand>>

\* Logging a pin leaves errno alone, or EAGAIN when the logs queue is full.
LogPin == errno' \in {errno, "EAGAIN"}

\* Mutant: it reads on when there is no room.
PollMoreFull(s) == slot <= MaxWorkers[s] /\ arr_size[s] > 0

\* poll_workers, the condition of its loop.
PollMore(s) == slot <= MaxWorkers[s] /\ arr_size[s] > 0 /\ ~Full(s)

\* poll_workers, one slot: recv and what handle_socket_op_error makes of it.
PollSlot(s, onError) ==
    LET c == fds[s][slot] IN
    \/ c = NoClient /\ NextSlot /\ UNCHANGED <<tables, queue, errno, net>>
    \/ /\ c # NoClient
       /\ \/ RemoveReset(s, c) /\ NextSlot /\ UNCHANGED queue
          \/ UnknownError(c, onError) /\ UNCHANGED queue
          \/ /\ peer[c] # "reset" /\ up[c] # <<>>
             /\ Put(s, Head(up[c]))
             /\ up' = [up EXCEPT ![c] = Tail(@)]
             /\ LogPin /\ NextSlot
             /\ UNCHANGED <<tables, peer, down, hand>>
          \/ /\ peer[c] = "open" /\ up[c] = <<>>
             /\ errno' = "EAGAIN" /\ NextSlot
             /\ UNCHANGED <<tables, queue, net>>
          \* recv returns 0 and the stale errno decides.
          \/ /\ peer[c] = "fin" /\ up[c] = <<>>
             /\ \/ errno = "EAGAIN" /\ NextSlot /\ UNCHANGED <<tables, net>>
                \/ errno = "dead" /\ NextSlot /\ Remove(s, c)
                \/ errno = "other" /\ LeaveLoop(onError) /\ UNCHANGED <<tables, net>>
             /\ UNCHANGED <<queue, errno>>

\* send_pins_to_workers, the condition of its loop.
SendMore(s) == slot <= MaxWorkers[s] /\ arr_size[s] > 0 /\ ~Empty(s - 1)

\* send_pins_to_workers, one slot: is_socket_alive, then a pin leaves the queue,
\* then send is tried.  A reset can arrive between the first and the last.
SendSlot(s) ==
    LET c == fds[s][slot]
        q == s - 1 IN
    \/ /\ NextSlot
       /\ \/ c = NoClient /\ UNCHANGED <<tables, queue, errno, net>>
          \/ c # NoClient /\ RemoveReset(s, c) /\ UNCHANGED queue
          \/ /\ c # NoClient /\ peer[c] = "reset"
             /\ Pop(q) /\ Remove(s, c) /\ errno' = "dead"
          \/ /\ c # NoClient /\ peer[c] = "open" /\ Len(down[c]) < SocketBuffer
             /\ Pop(q) /\ LogPin
             /\ down' = [down EXCEPT ![c] = Append(@, Head(queue[q]))]
             /\ UNCHANGED <<tables, peer, up, hand>>
          \* The send buffer is full, and the pin is forgotten.
          \/ /\ c # NoClient /\ peer[c] = "open" /\ Len(down[c]) = SocketBuffer
             /\ Pop(q) /\ errno' = "EAGAIN"
             /\ UNCHANGED <<tables, net>>
          \* Sent, but nobody is there to read it.
          \/ /\ c # NoClient /\ peer[c] = "fin"
             /\ Pop(q) /\ LogPin
             /\ UNCHANGED <<tables, net>>
    \/ c # NoClient /\ Pop(q) /\ UnknownError(c, "stopped")

KeepAll == UNCHANGED <<tables, queue, errno, net>>

\* nonblocking_poll_workers_on_the_first_stage
EnterFirst ==
    /\ pc = "sleep"
    /\ LeaveLoop(IF arr_size[1] = 0 \/ Full(1) THEN "enter2" ELSE "poll1")
    /\ KeepAll

PollFirst ==
    /\ pc = "poll1"
    /\ \/ PollMore(1) /\ PollSlot(1, "stopped")
       \/ ~PollMore(1) /\ LeaveLoop("enter2") /\ KeepAll

\* Mutant: a full ring alone is enough.
SkipSecondFull == arr_size[2] = 0 \/ Full(1)

\* nonblocking_poll_workers_on_the_second_stage: when this holds, nothing is done.
SkipSecond == arr_size[2] = 0 \/ (Full(1) /\ Empty(2))

EnterSecond ==
    /\ pc = "enter2"
    /\ LeaveLoop(IF SkipSecond THEN "enter3" ELSE "send2")
    /\ KeepAll

SendSecond ==
    /\ pc = "send2"
    /\ \/ SendMore(2) /\ SendSlot(2)
       \/ ~SendMore(2) /\ LeaveLoop("poll2") /\ KeepAll

\* The result of poll_workers is thrown away here.
PollSecond ==
    /\ pc = "poll2"
    /\ \/ PollMore(2) /\ PollSlot(2, "enter3")
       \/ ~PollMore(2) /\ LeaveLoop("enter3") /\ KeepAll

\* nonblocking_poll_workers_on_the_third_stage
EnterThird ==
    /\ pc = "enter3"
    /\ LeaveLoop(IF arr_size[3] = 0 \/ Empty(2) THEN "sleep" ELSE "send3")
    /\ KeepAll

SendThird ==
    /\ pc = "send3"
    /\ \/ SendMore(3) /\ SendSlot(3)
       \/ ~SendMore(3) /\ LeaveLoop("sleep") /\ KeepAll

Poller ==
    \/ EnterFirst \/ PollFirst
    \/ EnterSecond \/ SendSecond \/ PollSecond
    \/ EnterThird \/ SendThird

-----------------------------------------------------------------------------
Next ==
    \/ Poller
    \/ \E s \in Stages : \E c \in Workers[s] : Accept(s, c)
    \/ \E c \in Clients : Leave(c) \/ ResetArrives(c)
    \/ \E w \in Workers[1] : MakePin(w)
    \/ \E w \in Workers[2] : TakePin(w) \/ PassPin(w)
    \/ \E w \in Workers[3] : CheckPin(w)

Spec == Init /\ [][Next]_vars

\* The poller thread and the connected workers keep running, and keep-alive
\* probes find a dead worker.  Nobody has to connect, to make a pin or to leave.
Fairness ==
    /\ WF_vars(Poller)
    /\ \A c \in Clients : WF_vars(ResetArrives(c))
    /\ \A w \in Workers[2] : WF_vars(TakePin(w)) /\ WF_vars(PassPin(w))
    /\ \A w \in Workers[3] : WF_vars(CheckPin(w))

FairSpec == Spec /\ Fairness

-----------------------------------------------------------------------------
(* Properties.                                                             *)

PollerPC == {"sleep", "poll1", "enter2", "send2", "poll2", "enter3", "send3", "stopped"}

\* The tables hold clients of their own stage, and neither the rings nor the
\* socket buffers ever hold more than they have room for.
TypeOK ==
    /\ fds = [s \in Stages |-> fds[s]]
    /\ \A s \in Stages :
          fds[s] \in [1 .. MaxWorkers[s] -> Workers[s] \union {NoClient}]
    /\ arr_size \in [Stages -> Nat]
    /\ queue \in [1 .. 2 -> Seq(Pins)]
    /\ \A q \in 1 .. 2 : Len(queue[q]) <= QueueSize
    /\ pc \in PollerPC /\ slot \in Nat \ {0}
    /\ errno \in {"EAGAIN", "dead", "other"}
    /\ peer \in [Clients -> {"away", "open", "fin", "reset"}]
    /\ up \in [Clients -> Seq(Pins)] /\ down \in [Clients -> Seq(Pins)]
    /\ \A c \in Clients : Len(up[c]) <= SocketBuffer /\ Len(down[c]) <= SocketBuffer
    /\ hand \in [Workers[2] -> Pins \union {NoPin}]

\* The clients in a table.
Connected(s) == Range(fds[s]) \ {NoClient}

\* arr_size counts the used slots of its array, no client is in two slots, and
\* exactly the connections the server has not closed are in a slot.  The loops
\* of poll_workers and send_pins_to_workers stop at arr_size = 0, and
\* insert_new_client_into_arrays asserts that a free slot means room.
TablesAgree == \A s \in Stages :
    /\ arr_size[s] = Cardinality({i \in 1 .. MaxWorkers[s] : fds[s][i] # NoClient})
    /\ arr_size[s] = Cardinality(Connected(s))
    /\ Connected(s) = {c \in Workers[s] : peer[c] # "away"}

\* Where pin p is: a buffer at an index, or a hand.
PlacesOf(p) ==
    (UNION {{<<"queue", q, i>> : i \in {j \in DOMAIN queue[q] : queue[q][j] = p}} : q \in 1 .. 2})
    \union (UNION {{<<"up", c, i>> : i \in {j \in DOMAIN up[c] : up[c][j] = p}} : c \in Clients})
    \union (UNION {{<<"down", c, i>> : i \in {j \in DOMAIN down[c] : down[c][j] = p}} : c \in Clients})
    \union {<<"hand", w, 1>> : w \in {x \in Workers[2] : hand[x] = p}}

\* A pin is in one place at a time: no buffer hands it out twice and no worker
\* gets a pin that another worker, or a ring, still has.
PinInOnePlace == \A p \in Pins : Cardinality(PlacesOf(p)) <= 1

\* The reasons the code has for a pin to be nowhere any more: a worker of stage
\* 3 has checked it, the connection it was in or was sent to is over, or the
\* send buffer of the worker it was meant for was full.
Lost(p) ==
    \/ \E w \in Workers[3] : down[w] # <<>> /\ Head(down[w]) = p /\ CheckPin(w)
    \/ \E c \in Clients : PlacesOf(p) \subseteq {<<"up", c, i>> : i \in 1 .. SocketBuffer}
                                        \union {<<"down", c, i>> : i \in 1 .. SocketBuffer}
                                        \union {<<"hand", c, 1>>}
                          /\ peer'[c] # peer[c]
    \/ /\ pc \in {"send2", "send3"}
       /\ LET s == IF pc = "send2" THEN 2 ELSE 3
              c == fds[s][slot]
          IN /\ Head(queue[s - 1]) = p
             /\ peer[c] # "open" \/ Len(down[c]) = SocketBuffer

\* No pin vanishes for another reason; in particular none that recv has taken
\* from a socket, and none in a ring that no worker is served from.
PinsVanishForAReason ==
    [][\A p \in Pins : PlacesOf(p) # {} /\ PlacesOf(p)' = {} => Lost(p)]_vars

\* Stage s has a worker the poller can serve.
Staffed(s) == \E c \in Connected(s) : peer[c] = "open"

\* What keeps the server from serving stage 2: nobody is there, the poller has
\* ended, or the test of SkipSecond, which the code states.
Stalled == Full(1) /\ Empty(2)

\* A pin in a ring does not stay there while the poller runs, the next stage
\* has a worker and stage 2 is not skipped for a full ring before an empty one.
PinsMoveOn ==
    /\ \A p \in Pins : []<>(\/ p \notin Range(queue[1])
                            \/ ~Staffed(2) \/ pc = "stopped" \/ Stalled)
    /\ \A p \in Pins : []<>(\/ p \notin Range(queue[2])
                            \/ ~Staffed(3) \/ pc = "stopped")
=============================================================================
