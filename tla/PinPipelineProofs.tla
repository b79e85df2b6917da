------------------------- MODULE PinPipelineProofs --------------------------
(***************************************************************************)
(* Proofs about PinPipeline, for every number of workers and pins and all  *)
(* sizes of the arrays, rings and socket buffers: the variables keep their *)
(* types, which bounds the rings, the buffers and arr_size, the arrays     *)
(* agree with the connections, and every pin is in one place until it      *)
(* vanishes for one of the reasons that Lost names.                        *)
(***************************************************************************)
EXTENDS PinPipeline, FiniteSetTheorems, SequenceTheorems, TLAPS

\* What the assumptions say of stages, workers and free slots.
LEMMA Constants ==
    /\ \A s \in Stages : MaxWorkers[s] \in Nat \ {0} /\ Workers[s] \subseteq Clients
    /\ \A s \in Stages : NoClient \notin Workers[s]
    /\ QueueSize \in Nat \ {0} /\ SocketBuffer \in Nat \ {0}
  BY PipelineAssumption DEF Clients, Range, Stages

-----------------------------------------------------------------------------
(* The buffers.                                                            *)

\* What a bounded buffer of pins may do: forget its first pin, take one when
\* there is room, become empty.
LEMMA Buffers ==
    ASSUME NEW max \in Nat \ {0}, NEW b \in Seq(Pins), Len(b) <= max
    PROVE  /\ b # <<>> => /\ Head(b) \in Pins
                          /\ Tail(b) \in Seq(Pins) /\ Len(Tail(b)) <= max
           /\ \A p \in Pins : Len(b) < max => /\ Append(b, p) \in Seq(Pins)
                                              /\ Len(Append(b, p)) <= max
           /\ <<>> \in Seq(Pins) /\ Len(<<>>) <= max
  OBVIOUS

\* The parts of TypeOK.
TablesOK ==
    /\ fds = [s \in Stages |-> fds[s]]
    /\ \A s \in Stages :
          fds[s] \in [1 .. MaxWorkers[s] -> Workers[s] \union {NoClient}]
    /\ arr_size \in [Stages -> Nat]
    /\ peer \in [Clients -> {"away", "open", "fin", "reset"}]

QueueOK ==
    /\ queue \in [1 .. 2 -> Seq(Pins)]
    /\ \A q \in 1 .. 2 : Len(queue[q]) <= QueueSize

SocketsOK(bs) ==
    /\ bs \in [Clients -> Seq(Pins)]
    /\ \A c \in Clients : Len(bs[c]) <= SocketBuffer

NetOK ==
    /\ SocketsOK(up) /\ SocketsOK(down)
    /\ hand \in [Workers[2] -> Pins \union {NoPin}]

PollerOK ==
    /\ pc \in PollerPC /\ slot \in Nat \ {0}
    /\ errno \in {"EAGAIN", "dead", "other"}

\* TypeOK is the conjunction of its parts, before and after a step.
LEMMA Parts ==
    /\ TypeOK => TablesOK /\ QueueOK /\ NetOK /\ PollerOK
    /\ TablesOK' /\ QueueOK' /\ NetOK' /\ PollerOK' => TypeOK'
  BY DEF TypeOK, TablesOK, QueueOK, NetOK, SocketsOK, PollerOK

\* pins_queue_try_put and pins_queue_try_pop keep a ring within its bound.
LEMMA RingSteps ==
    ASSUME QueueOK, NEW q \in 1 .. 2
    PROVE  /\ \A p \in Pins : Put(q, p) => QueueOK'
           /\ ~Empty(q) => Head(queue[q]) \in Pins
           /\ ~Empty(q) /\ Pop(q) => QueueOK'
<1>1. queue[q] \in Seq(Pins) /\ Len(queue[q]) <= QueueSize /\ QueueSize \in Nat \ {0}
      BY Constants DEF QueueOK
<1>2. ASSUME NEW p \in Pins, Put(q, p) PROVE QueueOK'
  <2>1. CASE Full(q)
        BY <1>2, <2>1 DEF Put, QueueOK
  <2>2. CASE ~Full(q)
    <3>1. Len(queue[q]) < QueueSize
          BY <1>1, <2>2 DEF Full
    <3>2. Append(queue[q], p) \in Seq(Pins) /\ Len(Append(queue[q], p)) <= QueueSize
          BY <1>1, <3>1, Buffers
    <3>3. queue' = [queue EXCEPT ![q] = Append(queue[q], p)]
          BY <1>2, <2>2 DEF Put
    <3> QED BY <3>2, <3>3 DEF QueueOK
  <2> QED BY <2>1, <2>2
<1>3. ~Empty(q) => /\ Head(queue[q]) \in Pins /\ Tail(queue[q]) \in Seq(Pins)
                   /\ Len(Tail(queue[q])) <= QueueSize
      BY <1>1, Buffers DEF Empty
<1>4. ~Empty(q) /\ Pop(q) => QueueOK'
      BY <1>3 DEF Pop, QueueOK
<1> QED BY <1>2, <1>3, <1>4

-----------------------------------------------------------------------------
(* Type correctness, one lemma per group of actions.                       *)

\* One of the buffers changes.
LEMMA BufferUpdate ==
    ASSUME NEW bs, SocketsOK(bs), NEW c \in Clients,
           NEW b \in Seq(Pins), Len(b) <= SocketBuffer
    PROVE  SocketsOK([bs EXCEPT ![c] = b])
  BY DEF SocketsOK

\* The steps of clients keep the types.
LEMMA WorkerTypes ==
    ASSUME TypeOK, NEW c \in Clients,
           \/ Leave(c) \/ ResetArrives(c)
           \/ c \in Workers[1] /\ MakePin(c)
           \/ c \in Workers[2] /\ (TakePin(c) \/ PassPin(c))
           \/ c \in Workers[3] /\ CheckPin(c)
    PROVE  TypeOK'
<1> USE Parts DEF net, tables
<1>1. /\ up[c] \in Seq(Pins) /\ Len(up[c]) <= SocketBuffer
      /\ down[c] \in Seq(Pins) /\ Len(down[c]) <= SocketBuffer
      /\ SocketBuffer \in Nat \ {0}
      BY Constants DEF NetOK, SocketsOK
<1>2. /\ <<>> \in Seq(Pins) /\ Len(<<>>) <= SocketBuffer
      /\ down[c] # <<>> => /\ Head(down[c]) \in Pins /\ Tail(down[c]) \in Seq(Pins)
                           /\ Len(Tail(down[c])) <= SocketBuffer
      /\ \A p \in Pins : Len(up[c]) < SocketBuffer =>
            Append(up[c], p) \in Seq(Pins) /\ Len(Append(up[c], p)) <= SocketBuffer
      BY <1>1, Buffers
<1>3. CASE Leave(c)
  <2>1. TablesOK' /\ QueueOK' /\ PollerOK'
        BY <1>3 DEF Leave, TablesOK, QueueOK, PollerOK
  <2>2. NetOK'
        BY <1>2, <1>3, BufferUpdate DEF Leave, NetOK
  <2> QED BY <2>1, <2>2
<1>4. CASE ResetArrives(c)
  <2>1. TablesOK' /\ QueueOK' /\ PollerOK'
        BY <1>4 DEF ResetArrives, TablesOK, QueueOK, PollerOK
  <2>2. NetOK'
        BY <1>2, <1>4, BufferUpdate DEF ResetArrives, NetOK
  <2> QED BY <2>1, <2>2
<1>5. CASE c \in Workers[1] /\ MakePin(c)
  <2>1. TablesOK' /\ QueueOK' /\ PollerOK'
        BY <1>5 DEF MakePin, TablesOK, QueueOK, PollerOK
  <2>2. NetOK'
    <3>1. PICK p \in Pins : up' = [up EXCEPT ![c] = Append(@, p)]
          BY <1>5 DEF MakePin
    <3> QED BY <1>2, <1>5, <3>1, BufferUpdate DEF MakePin, NetOK
  <2> QED BY <2>1, <2>2
<1>6. CASE c \in Workers[2] /\ TakePin(c)
  <2>1. TablesOK' /\ QueueOK' /\ PollerOK'
        BY <1>6 DEF TakePin, TablesOK, QueueOK, PollerOK
  <2>2. NetOK'
        BY <1>2, <1>6, BufferUpdate DEF TakePin, NetOK
  <2> QED BY <2>1, <2>2
<1>7. CASE c \in Workers[2] /\ PassPin(c)
  <2>1. TablesOK' /\ QueueOK' /\ PollerOK'
        BY <1>7 DEF PassPin, TablesOK, QueueOK, PollerOK
  <2>2. NetOK'
    <3>1. hand[c] \in Pins
          BY <1>7 DEF PassPin, NetOK
    <3> QED BY <1>2, <1>7, <3>1, BufferUpdate DEF PassPin, NetOK
  <2> QED BY <2>1, <2>2
<1>8. CASE c \in Workers[3] /\ CheckPin(c)
  <2>1. TablesOK' /\ QueueOK' /\ PollerOK'
        BY <1>8 DEF CheckPin, TablesOK, QueueOK, PollerOK
  <2>2. NetOK'
        BY <1>2, <1>8, BufferUpdate DEF CheckPin, NetOK
  <2> QED BY <2>1, <2>2
<1> QED BY <1>3, <1>4, <1>5, <1>6, <1>7, <1>8

\* accept of a new connection, or the loss of one, keeps the types.
LEMMA AcceptTypes ==
    ASSUME TypeOK, NEW s \in Stages, NEW c \in Workers[s], Accept(s, c)
    PROVE  TypeOK'
<1> USE Parts
<1>1. QueueOK' /\ PollerOK' /\ NetOK'
      BY DEF Accept, QueueOK, PollerOK, NetOK
<1>2. TablesOK'
  <2>1. PICK i \in FreeSlots(s) : fds' = [fds EXCEPT ![s][i] = c]
        BY DEF Accept
  <2>2. i \in 1 .. MaxWorkers[s] /\ c \in Clients
        BY Constants DEF FreeSlots
  <2>3. fds' = [t \in Stages |-> fds'[t]]
        /\ \A t \in Stages : fds'[t] \in [1 .. MaxWorkers[t] -> Workers[t] \union {NoClient}]
        BY <2>1, <2>2 DEF TablesOK
  <2>4. arr_size' \in [Stages -> Nat]
        BY DEF Accept, TablesOK
  <2>5. peer' \in [Clients -> {"away", "open", "fin", "reset"}]
        BY <2>2 DEF Accept, TablesOK
  <2> QED BY <2>3, <2>4, <2>5 DEF TablesOK
<1> QED BY <1>1, <1>2

\* Freeing a slot and closing its socket.
LEMMA RemoveTypes ==
    ASSUME TablesOK, NetOK, NEW s \in Stages, slot \in 1 .. MaxWorkers[s],
           arr_size[s] > 0, fds[s][slot] # NoClient, Remove(s, fds[s][slot])
    PROVE  TablesOK' /\ NetOK'
<1>1. fds[s][slot] \in Workers[s] /\ fds[s][slot] \in Clients
      BY Constants DEF TablesOK
<1>2. fds' = [t \in Stages |-> fds'[t]]
      /\ \A t \in Stages : fds'[t] \in [1 .. MaxWorkers[t] -> Workers[t] \union {NoClient}]
      BY DEF TablesOK, Remove
<1>3. arr_size' \in [Stages -> Nat]
      BY DEF TablesOK, Remove
<1>4. peer' \in [Clients -> {"away", "open", "fin", "reset"}]
      BY <1>1 DEF TablesOK, Remove
<1>5. NetOK'
  <2>1. <<>> \in Seq(Pins) /\ Len(<<>>) <= SocketBuffer
        BY Constants
  <2> QED BY <1>1, <2>1, BufferUpdate DEF NetOK, Remove
<1> QED BY <1>2, <1>3, <1>4, <1>5 DEF TablesOK

\* poll_slot, for what recv returns, keeps the types.
LEMMA PollSlotTypes ==
    ASSUME TypeOK, NEW s \in {1, 2}, NEW l \in PollerPC, PollMore(s), PollSlot(s, l)
    PROVE  TypeOK'
<1> DEFINE c == fds[s][slot]
<1>1. TablesOK /\ QueueOK /\ NetOK /\ PollerOK
      BY Parts
<1>2. s \in Stages /\ slot \in 1 .. MaxWorkers[s] /\ arr_size[s] > 0
      BY <1>1, Constants DEF PollMore, PollerOK, TablesOK, Stages
<1>3. c # NoClient => c \in Clients
      BY <1>1, <1>2, Constants DEF TablesOK
<1>4. PollerOK'
      BY <1>1 DEF PollSlot, PollerOK, NextSlot, LeaveLoop, RemoveReset, UnknownError,
         LogPin
<1>5. CASE UNCHANGED tables /\ UNCHANGED net /\ UNCHANGED queue
  <2>1. TablesOK' /\ QueueOK' /\ NetOK'
        BY <1>1, <1>5 DEF TablesOK, QueueOK, NetOK, tables, net
  <2> QED BY <1>4, <2>1, Parts
<1>6. CASE c # NoClient /\ Remove(s, c) /\ UNCHANGED queue
  <2>1. TablesOK' /\ NetOK'
        BY <1>1, <1>2, <1>6, RemoveTypes DEF Stages
  <2>2. QueueOK'
        BY <1>1, <1>6 DEF QueueOK
  <2> QED BY <1>4, <2>1, <2>2, Parts
<1>7. CASE /\ c # NoClient /\ up[c] # <<>> /\ Put(s, Head(up[c]))
           /\ up' = [up EXCEPT ![c] = Tail(@)]
           /\ UNCHANGED <<tables, peer, down, hand>>
  <2>1. up[c] \in Seq(Pins) /\ Len(up[c]) <= SocketBuffer /\ SocketBuffer \in Nat \ {0}
        BY <1>1, <1>3, <1>7, Constants DEF NetOK, SocketsOK
  <2>2. /\ Head(up[c]) \in Pins /\ Tail(up[c]) \in Seq(Pins)
        /\ Len(Tail(up[c])) <= SocketBuffer
        BY <1>7, <2>1, Buffers
  <2>3. QueueOK'
        BY <1>1, <1>7, <2>2, RingSteps
  <2>4. NetOK'
        BY <1>1, <1>3, <1>7, <2>2, BufferUpdate DEF NetOK
  <2>5. TablesOK'
        BY <1>1, <1>7 DEF TablesOK, tables
  <2> QED BY <1>4, <2>3, <2>4, <2>5, Parts
<1>8. CASE /\ c # NoClient /\ peer' = [peer EXCEPT ![c] = "fin"]
           /\ UNCHANGED <<tables, up, down, hand>> /\ UNCHANGED queue
  <2>1. TablesOK' /\ QueueOK' /\ NetOK'
        BY <1>1, <1>3, <1>8 DEF TablesOK, QueueOK, NetOK, tables
  <2> QED BY <1>4, <2>1, Parts
<1> QED
    BY <1>5, <1>6, <1>7, <1>8 DEF PollSlot, RemoveReset, UnknownError, net, tables

\* send to one slot keeps the types.
LEMMA SendSlotTypes ==
    ASSUME TypeOK, NEW s \in {2, 3}, SendMore(s), SendSlot(s)
    PROVE  TypeOK'
<1> DEFINE c == fds[s][slot]
<1>1. TablesOK /\ QueueOK /\ NetOK /\ PollerOK
      BY Parts
<1>2. /\ s \in Stages /\ slot \in 1 .. MaxWorkers[s] /\ arr_size[s] > 0
      /\ s - 1 \in 1 .. 2 /\ ~Empty(s - 1)
      BY <1>1, Constants DEF SendMore, PollerOK, TablesOK, Stages
<1>3. c # NoClient => c \in Clients
      BY <1>1, <1>2, Constants DEF TablesOK
<1>4. PollerOK'
      BY <1>1 DEF SendSlot, PollerOK, NextSlot, LeaveLoop, RemoveReset, UnknownError, LogPin,
         PollerPC
<1>5. UNCHANGED queue \/ Pop(s - 1) => QueueOK'
      BY <1>1, <1>2, RingSteps DEF QueueOK
<1>6. CASE UNCHANGED tables /\ UNCHANGED net /\ (UNCHANGED queue \/ Pop(s - 1))
  <2>1. TablesOK' /\ NetOK'
        BY <1>1, <1>6 DEF TablesOK, NetOK, tables, net
  <2> QED BY <1>4, <1>5, <1>6, <2>1, Parts
<1>7. CASE c # NoClient /\ Remove(s, c) /\ (UNCHANGED queue \/ Pop(s - 1))
  <2>1. TablesOK' /\ NetOK'
        BY <1>1, <1>2, <1>7, RemoveTypes
  <2> QED BY <1>4, <1>5, <1>7, <2>1, Parts
<1>8. CASE /\ c # NoClient /\ Len(down[c]) < SocketBuffer /\ Pop(s - 1)
           /\ down' = [down EXCEPT ![c] = Append(@, Head(queue[s - 1]))]
           /\ UNCHANGED <<tables, peer, up, hand>>
  <2>1. down[c] \in Seq(Pins) /\ Len(down[c]) <= SocketBuffer /\ SocketBuffer \in Nat \ {0}
        BY <1>1, <1>3, <1>8, Constants DEF NetOK, SocketsOK
  <2>2. Head(queue[s - 1]) \in Pins
        BY <1>1, <1>2, RingSteps
  <2>3. /\ Append(down[c], Head(queue[s - 1])) \in Seq(Pins)
        /\ Len(Append(down[c], Head(queue[s - 1]))) <= SocketBuffer
        BY <1>8, <2>1, <2>2, Buffers
  <2>4. NetOK'
        BY <1>1, <1>3, <1>8, <2>3, BufferUpdate DEF NetOK
  <2>5. TablesOK'
        BY <1>1, <1>8 DEF TablesOK, tables
  <2> QED BY <1>4, <1>5, <1>8, <2>4, <2>5, Parts
<1>9. CASE /\ c # NoClient /\ peer' = [peer EXCEPT ![c] = "fin"]
           /\ UNCHANGED <<tables, up, down, hand>> /\ Pop(s - 1)
  <2>1. TablesOK' /\ NetOK'
        BY <1>1, <1>3, <1>9 DEF TablesOK, NetOK, tables
  <2> QED BY <1>4, <1>5, <1>9, <2>1, Parts
<1> QED
    BY <1>6, <1>7, <1>8, <1>9 DEF SendSlot, RemoveReset, UnknownError, net, tables

\* Entering a stage, or ending its loop.
LEMMA ControlTypes ==
    ASSUME TypeOK, KeepAll, NEW l \in PollerPC, LeaveLoop(l)
    PROVE  TypeOK'
<1>1. TablesOK /\ QueueOK /\ NetOK /\ PollerOK
      BY Parts
<1>2. TablesOK' /\ QueueOK' /\ NetOK'
      BY <1>1 DEF KeepAll, TablesOK, QueueOK, NetOK, tables, net
<1>3. PollerOK'
      BY <1>1 DEF KeepAll, LeaveLoop, PollerOK
<1> QED BY <1>2, <1>3, Parts

\* A step of the poller is one of these.
LEMMA PollerSteps ==
    ASSUME Poller
    PROVE  \/ \E l \in PollerPC : LeaveLoop(l) /\ KeepAll
           \/ \E s \in {1, 2} : \E l \in PollerPC : PollMore(s) /\ PollSlot(s, l)
           \/ \E s \in {2, 3} : SendMore(s) /\ SendSlot(s)
<1> USE DEF PollerPC
<1>1. CASE EnterFirst \/ EnterSecond \/ EnterThird
      BY <1>1 DEF EnterFirst, EnterSecond, EnterThird
<1>2. CASE PollFirst \/ PollSecond
      BY <1>2 DEF PollFirst, PollSecond
<1>3. CASE SendSecond \/ SendThird
      BY <1>3 DEF SendSecond, SendThird
<1> QED BY <1>1, <1>2, <1>3 DEF Poller

\* Every step keeps the types.
LEMMA TypeStep == TypeOK /\ [Next]_vars => TypeOK'
<1> SUFFICES ASSUME TypeOK, [Next]_vars PROVE TypeOK'
    OBVIOUS
<1>1. CASE Poller
      BY <1>1, PollerSteps, ControlTypes, PollSlotTypes, SendSlotTypes
<1>2. ASSUME NEW s \in Stages, NEW c \in Workers[s], Accept(s, c)
      PROVE  TypeOK'
      BY <1>2, AcceptTypes
<1>3. ASSUME NEW c \in Clients, Leave(c) \/ ResetArrives(c)
      PROVE  TypeOK'
      BY <1>3, WorkerTypes
<1>4. \A s \in Stages : Workers[s] \subseteq Clients
      BY Constants
<1>5. ASSUME NEW w \in Workers[1], MakePin(w)
      PROVE  TypeOK'
      BY <1>4, <1>5, WorkerTypes DEF Stages
<1>6. ASSUME NEW w \in Workers[2], TakePin(w) \/ PassPin(w)
      PROVE  TypeOK'
      BY <1>4, <1>6, WorkerTypes DEF Stages
<1>7. ASSUME NEW w \in Workers[3], CheckPin(w)
      PROVE  TypeOK'
      BY <1>4, <1>7, WorkerTypes DEF Stages
<1>8. CASE UNCHANGED vars
      BY <1>8 DEF vars, TypeOK
<1> QED BY <1>1, <1>2, <1>3, <1>5, <1>6, <1>7, <1>8 DEF Next

\* The types hold at the start.
LEMMA TypeInit == Init => TypeOK
<1> SUFFICES ASSUME Init PROVE TypeOK
    OBVIOUS
<1>1. /\ \A s \in Stages : fds[s] \in [1 .. MaxWorkers[s] -> Workers[s] \union {NoClient}]
      /\ fds = [s \in Stages |-> fds[s]] /\ arr_size \in [Stages -> Nat]
      BY DEF Init
<1>2. queue \in [1 .. 2 -> Seq(Pins)] /\ \A q \in 1 .. 2 : Len(queue[q]) <= QueueSize
      BY Constants DEF Init
<1>3. SocketsOK(up) /\ SocketsOK(down)
      BY Constants DEF Init, SocketsOK
<1> QED BY <1>1, <1>2, <1>3 DEF Init, TypeOK, SocketsOK, PollerPC

\* The variables keep their types; neither the rings nor the buffers ever hold
\* more than they have room for, and arr_size never becomes negative.
THEOREM TypeCorrect == Spec => []TypeOK
  BY TypeInit, TypeStep, PTL DEF Spec

-----------------------------------------------------------------------------
(* The arrays and the connections.  TablesAgree is not inductive: that     *)
(* removing a client takes one connection out needs that no client is in   *)
(* two slots, which TableInv states slot by slot.                          *)

UsedSlots(s) == {i \in 1 .. MaxWorkers[s] : fds[s][i] # NoClient}

SizeCounts == \A s \in Stages : arr_size[s] = Cardinality(UsedSlots(s))

OneSlotEach ==
    \A s \in Stages : \A i, j \in UsedSlots(s) : fds[s][i] = fds[s][j] => i = j

SlotIffConnected ==
    \A s \in Stages : \A c \in Workers[s] :
        peer[c] # "away" <=> \E i \in 1 .. MaxWorkers[s] : fds[s][i] = c

TableInv == TypeOK /\ SizeCounts /\ OneSlotEach /\ SlotIffConnected

\* What a step does to the arrays: nothing, ...
TablesSame ==
    /\ UNCHANGED <<fds, arr_size>>
    /\ \A c \in Clients : peer'[c] = "away" <=> peer[c] = "away"

\* ... a client that was away gets a free slot, ...
ClientIn(s, c, i) ==
    /\ fds[s][i] = NoClient /\ peer[c] = "away"
    /\ fds' = [fds EXCEPT ![s][i] = c]
    /\ arr_size' = [arr_size EXCEPT ![s] = @ + 1]
    /\ peer' = [peer EXCEPT ![c] = "open"]

\* ... or a client loses its slot and its connection.
ClientOut(s, i) ==
    /\ fds[s][i] # NoClient
    /\ fds' = [fds EXCEPT ![s][i] = NoClient]
    /\ arr_size' = [arr_size EXCEPT ![s] = @ - 1]
    /\ peer' = [peer EXCEPT ![fds[s][i]] = "away"]

\* What a step does to the arrays: nothing, one client comes or one goes.
LEMMA TableSteps ==
    ASSUME TypeOK, [Next]_vars
    PROVE  \/ TablesSame
           \/ \E s \in Stages : \E c \in Workers[s] : \E i \in 1 .. MaxWorkers[s] : ClientIn(s, c, i)
           \/ \E s \in Stages : \E i \in 1 .. MaxWorkers[s] : ClientOut(s, i)
<1> DEFINE Goal ==
           \/ TablesSame
           \/ \E s \in Stages : \E c \in Workers[s] : \E i \in 1 .. MaxWorkers[s] : ClientIn(s, c, i)
           \/ \E s \in Stages : \E i \in 1 .. MaxWorkers[s] : ClientOut(s, i)
<1> SUFFICES Goal
    OBVIOUS
<1>a. TablesOK /\ PollerOK
      BY Parts
<1>1. CASE UNCHANGED <<fds, arr_size, peer>>
      BY <1>1 DEF TablesSame
<1>2. ASSUME NEW s \in Stages, slot <= MaxWorkers[s],
             fds[s][slot] # NoClient, Remove(s, fds[s][slot])
      PROVE  Goal
  <2>1. slot \in 1 .. MaxWorkers[s]
        BY <1>a, <1>2, Constants DEF PollerOK
  <2> QED BY <1>2, <2>1 DEF Remove, ClientOut
<1>b. ASSUME NEW s \in Stages, slot <= MaxWorkers[s], NEW l, UnknownError(fds[s][slot], l)
      PROVE  Goal
      BY <1>a, <1>b DEF UnknownError, TablesSame, TablesOK, tables
<1>3. CASE Poller
  <2>1. ASSUME NEW s \in {1, 2}, NEW l \in PollerPC, PollMore(s), PollSlot(s, l)
        PROVE  Goal
        BY <1>1, <1>2, <1>b, <2>1 DEF PollMore, PollSlot, RemoveReset, Stages, tables, net
  <2>2. ASSUME NEW s \in {2, 3}, SendMore(s), SendSlot(s)
        PROVE  Goal
        BY <1>1, <1>2, <1>b, <2>2 DEF SendMore, SendSlot, RemoveReset, Stages, tables, net
  <2>3. ASSUME KeepAll PROVE Goal
        BY <1>1, <2>3 DEF KeepAll, tables, net
  <2> QED BY <1>3, <2>1, <2>2, <2>3, PollerSteps
<1>4. ASSUME NEW s \in Stages, NEW c \in Workers[s], Accept(s, c)
      PROVE  Goal
  <2>1. PICK i \in FreeSlots(s) : fds' = [fds EXCEPT ![s][i] = c]
        BY <1>4 DEF Accept
  <2>2. ClientIn(s, c, i)
        BY <1>4, <2>1 DEF Accept, ClientIn, FreeSlots
  <2> QED BY <2>1, <2>2 DEF FreeSlots
<1>5. ASSUME NEW c \in Clients, Leave(c) \/ ResetArrives(c)
      PROVE  Goal
      BY <1>5, <1>a DEF Leave, ResetArrives, tables, TablesSame, TablesOK
<1>6. ASSUME NEW w, MakePin(w) \/ TakePin(w) \/ PassPin(w) \/ CheckPin(w)
      PROVE  Goal
      BY <1>1, <1>6 DEF MakePin, TakePin, PassPin, CheckPin, tables
<1>7. CASE UNCHANGED vars
      BY <1>1, <1>7 DEF vars
<1> QED BY <1>3, <1>4, <1>5, <1>6, <1>7 DEF Next

\* The used slots of an array can be counted.
LEMMA UsedFinite == \A s \in Stages : IsFiniteSet(UsedSlots(s))
<1>1. ASSUME NEW s \in Stages PROVE IsFiniteSet(UsedSlots(s))
  <2>1. IsFiniteSet(1 .. MaxWorkers[s])
        BY Constants, FS_Interval
  <2> QED BY <2>1, FS_Subset DEF UsedSlots
<1> QED BY <1>1

\* A client belongs to one stage.
LEMMA StagesApart ==
    ASSUME NEW s \in Stages, NEW t \in Stages, s # t, NEW c \in Workers[s]
    PROVE  c \notin Workers[t]
  BY PipelineAssumption

\* A step that leaves arrays and connections alone keeps their agreement ...
LEMMA SameKeepsTables ==
    ASSUME TableInv, TablesSame
    PROVE  SizeCounts' /\ OneSlotEach' /\ SlotIffConnected'
<1>1. \A s \in Stages : UsedSlots(s)' = UsedSlots(s)
      BY DEF TablesSame, UsedSlots
<1> QED
    BY <1>1, Constants DEF TableInv, TablesSame, SizeCounts, OneSlotEach, SlotIffConnected

\* ... and so does a client that is put into a free slot ...
LEMMA InKeepsTables ==
    ASSUME TableInv, NEW s \in Stages, NEW c \in Workers[s], NEW i \in 1 .. MaxWorkers[s],
           ClientIn(s, c, i)
    PROVE  SizeCounts' /\ OneSlotEach' /\ SlotIffConnected'
<1>1. TablesOK /\ c # NoClient /\ c \in Clients
      BY Parts, Constants DEF TableInv
<1>2. /\ \A t \in Stages \ {s} : fds'[t] = fds[t] /\ arr_size'[t] = arr_size[t]
      /\ \A j \in 1 .. MaxWorkers[s] : fds'[s][j] = IF j = i THEN c ELSE fds[s][j]
      /\ arr_size'[s] = arr_size[s] + 1
      /\ \A d \in Clients : peer'[d] = IF d = c THEN "open" ELSE peer[d]
      BY <1>1 DEF ClientIn, TablesOK
<1>3. /\ \A t \in Stages \ {s} : UsedSlots(t)' = UsedSlots(t)
      /\ UsedSlots(s)' = UsedSlots(s) \union {i} /\ i \notin UsedSlots(s)
      BY <1>1, <1>2 DEF UsedSlots, ClientIn
<1>4. SizeCounts'
  <2>1. Cardinality(UsedSlots(s) \union {i}) = Cardinality(UsedSlots(s)) + 1
        BY <1>3, UsedFinite, FS_AddElement
  <2> QED BY ZenonT(60), <1>2, <1>3, <2>1 DEF TableInv, SizeCounts
<1>5. \A j \in 1 .. MaxWorkers[s] : fds[s][j] # c
      BY DEF TableInv, SlotIffConnected, ClientIn
<1>6. OneSlotEach'
  <2>1. SUFFICES ASSUME NEW t \in Stages, NEW j \in UsedSlots(t)', NEW k \in UsedSlots(t)',
                        fds'[t][j] = fds'[t][k]
                 PROVE  j = k
        BY DEF OneSlotEach
  <2>2. CASE t = s
        BY <1>2, <1>3, <1>5, <2>1, <2>2 DEF TableInv, OneSlotEach, UsedSlots
  <2>3. CASE t # s
        BY <1>2, <1>3, <2>1, <2>3 DEF TableInv, OneSlotEach
  <2> QED BY <2>2, <2>3
<1>7. SlotIffConnected'
  <2>1. SUFFICES ASSUME NEW t \in Stages, NEW d \in Workers[t]
                 PROVE  peer'[d] # "away" <=> \E j \in 1 .. MaxWorkers[t] : fds'[t][j] = d
        BY DEF SlotIffConnected
  <2>2. CASE t = s
        BY <1>2, <1>5, <2>2, Constants DEF TableInv, SlotIffConnected, ClientIn
  <2>3. CASE t # s
        BY <1>2, <2>3, StagesApart, Constants DEF TableInv, SlotIffConnected
  <2> QED BY <2>2, <2>3
<1> QED BY <1>4, <1>6, <1>7

\* ... and one that is taken out of its slot.
LEMMA OutKeepsTables ==
    ASSUME TableInv, NEW s \in Stages, NEW i \in 1 .. MaxWorkers[s], ClientOut(s, i)
    PROVE  SizeCounts' /\ OneSlotEach' /\ SlotIffConnected'
<1> DEFINE c == fds[s][i]
<1>1. TablesOK /\ c # NoClient /\ c \in Workers[s] /\ c \in Clients
      BY Parts, Constants DEF TableInv, TablesOK, ClientOut
<1>2. /\ \A t \in Stages \ {s} : fds'[t] = fds[t] /\ arr_size'[t] = arr_size[t]
      /\ \A j \in 1 .. MaxWorkers[s] : fds'[s][j] = IF j = i THEN NoClient ELSE fds[s][j]
      /\ arr_size'[s] = arr_size[s] - 1
      /\ \A d \in Clients : peer'[d] = IF d = c THEN "away" ELSE peer[d]
      BY <1>1 DEF ClientOut, TablesOK
<1>3. /\ \A t \in Stages \ {s} : UsedSlots(t)' = UsedSlots(t)
      /\ UsedSlots(s)' = UsedSlots(s) \ {i} /\ i \in UsedSlots(s)
      BY <1>1, <1>2 DEF UsedSlots
<1>4. SizeCounts'
  <2>1. Cardinality(UsedSlots(s) \ {i}) = Cardinality(UsedSlots(s)) - 1
        BY <1>3, UsedFinite, FS_RemoveElement
  <2>2. ASSUME NEW t \in Stages PROVE arr_size'[t] = Cardinality(UsedSlots(t)')
    <3>1. arr_size[t] = Cardinality(UsedSlots(t))
          BY DEF TableInv, SizeCounts
    <3>2. CASE t = s
          BY <1>2, <1>3, <2>1, <3>1, <3>2
    <3>3. CASE t # s
          BY <1>2, <1>3, <3>1, <3>3
    <3> QED BY <3>2, <3>3
  <2> QED BY <2>2 DEF SizeCounts
<1>5. OneSlotEach'
  <2>1. SUFFICES ASSUME NEW t \in Stages, NEW j \in UsedSlots(t)', NEW k \in UsedSlots(t)',
                        fds'[t][j] = fds'[t][k]
                 PROVE  j = k
        BY DEF OneSlotEach
  <2>2. CASE t = s
        BY <1>2, <1>3, <2>1, <2>2 DEF TableInv, OneSlotEach, UsedSlots
  <2>3. CASE t # s
    <3>1. fds'[t] = fds[t] /\ UsedSlots(t)' = UsedSlots(t)
          BY <1>2, <1>3, <2>3
    <3> QED BY <2>1, <3>1 DEF TableInv, OneSlotEach
  <2> QED BY <2>2, <2>3
\* The client that goes was in slot i only.
<1>6. \A j \in 1 .. MaxWorkers[s] : fds[s][j] = c => j = i
      BY <1>1 DEF TableInv, OneSlotEach, UsedSlots
<1>7. SlotIffConnected'
  <2>1. SUFFICES ASSUME NEW t \in Stages, NEW d \in Workers[t]
                 PROVE  peer'[d] # "away" <=> \E j \in 1 .. MaxWorkers[t] : fds'[t][j] = d
        BY DEF SlotIffConnected
  <2>2. CASE t = s
        BY <1>1, <1>2, <1>6, <2>2, Constants DEF TableInv, SlotIffConnected
  <2>3. CASE t # s
        BY <1>1, <1>2, <2>3, StagesApart, Constants DEF TableInv, SlotIffConnected
  <2> QED BY <2>2, <2>3
<1> QED BY <1>4, <1>5, <1>7

\* At the start the arrays are empty.
LEMMA TableInit == Init => TableInv
<1> SUFFICES ASSUME Init PROVE TableInv
    OBVIOUS
<1>1. \A s \in Stages : UsedSlots(s) = {} /\ arr_size[s] = 0
      BY DEF Init, UsedSlots
<1>2. SizeCounts /\ OneSlotEach
      BY <1>1, FS_EmptySet DEF SizeCounts, OneSlotEach
<1>3. SlotIffConnected
  <2>1. SUFFICES ASSUME NEW s \in Stages, NEW c \in Workers[s]
                 PROVE  peer[c] = "away" /\ \A i \in 1 .. MaxWorkers[s] : fds[s][i] # c
        BY DEF SlotIffConnected
  <2>2. c \in Clients /\ c # NoClient
        BY Constants
  <2> QED BY <2>2 DEF Init
<1> QED BY <1>2, <1>3, TypeInit DEF TableInv

\* Every step keeps the arrays in agreement with the connections.
LEMMA TableStep == TableInv /\ [Next]_vars => TableInv'
<1> SUFFICES ASSUME TableInv, [Next]_vars PROVE TableInv'
    OBVIOUS
<1>1. TypeOK'
      BY TypeStep DEF TableInv
<1>2. SizeCounts' /\ OneSlotEach' /\ SlotIffConnected'
      BY TableSteps, SameKeepsTables, InKeepsTables, OutKeepsTables DEF TableInv
<1> QED BY <1>1, <1>2 DEF TableInv

\* When no client is in two slots, there are as many clients as used slots.
LEMMA TablesFromInv == TableInv => TablesAgree
<1> SUFFICES ASSUME TableInv, NEW s \in Stages
             PROVE  /\ arr_size[s] = Cardinality(UsedSlots(s))
                    /\ arr_size[s] = Cardinality(Connected(s))
                    /\ Connected(s) = {c \in Workers[s] : peer[c] # "away"}
    BY DEF TablesAgree, UsedSlots
<1>1. arr_size[s] = Cardinality(UsedSlots(s))
      BY DEF TableInv, SizeCounts
<1>2. fds[s] \in [1 .. MaxWorkers[s] -> Workers[s] \union {NoClient}]
      BY DEF TableInv, TypeOK
<1>3. Connected(s) = {c \in Workers[s] : peer[c] # "away"}
      BY <1>2, Constants DEF Connected, Range, TableInv, SlotIffConnected
<1>4. Cardinality(Connected(s)) = Cardinality(UsedSlots(s))
  <2> DEFINE f == [i \in UsedSlots(s) |-> fds[s][i]]
  <2>1. f \in Surjection(UsedSlots(s), Connected(s))
        BY <1>2 DEF UsedSlots, Connected, Range, Surjection
  <2>2. f \in Injection(UsedSlots(s), Connected(s))
    <3>1. IsInjective(f)
          BY DEF IsInjective, TableInv, OneSlotEach
    <3> QED BY <2>1, <3>1 DEF Surjection, Injection
  <2> QED BY <2>1, <2>2, UsedFinite, FS_Surjection
<1> QED BY <1>1, <1>3, <1>4

\* handle_new_client, poll_workers and send_pins_to_workers together keep
\* arr_size, the slots and the connections the server has not closed in agreement,
\* however often workers leave, are found to be gone, and come back.
THEOREM TablesAlwaysAgree == Spec => []TablesAgree
  BY TableInit, TableStep, TablesFromInv, PTL DEF Spec

-----------------------------------------------------------------------------
(* The pins.  All buffers and hands are one function here, from keys to    *)
(* sequences of pins: a step takes pins off, then adds one at most.        *)

Keys ==
    ({"queue"} \X (1 .. 2)) \union ({"up", "down"} \X Clients) \union ({"hand"} \X Workers[2])

\* What the buffers hold; a hand is a buffer of one pin.
Holding ==
    [k \in Keys |->
        CASE k[1] = "queue" -> queue[k[2]]
          [] k[1] = "up" -> up[k[2]]
          [] k[1] = "down" -> down[k[2]]
          [] OTHER -> IF hand[k[2]] = NoPin THEN <<>> ELSE <<hand[k[2]]>>]

\* Pin p is in no buffer.
InNone(B, p) == \A k \in Keys : \A i \in 1 .. Len(B[k]) : B[k][i] # p

\* No pin is at two places.
Apart(B) ==
    \A k, l \in Keys : \A i \in 1 .. Len(B[k]) : \A j \in 1 .. Len(B[l]) :
        B[k][i] = B[l][j] => k = l /\ i = j

\* Buffers lose their first pin, or all pins, or nothing.
Shrinks(B, C) ==
    \A k \in Keys : C[k] = B[k] \/ C[k] = <<>> \/ (B[k] # <<>> /\ C[k] = Tail(B[k]))

\* A pin comes to the end of buffer k.
Adds(B, C, k, p) ==
    /\ C[k] = Append(B[k], p)
    /\ \A l \in Keys \ {k} : C[l] = B[l]

\* The pins of a buffer that has shrunk were there before, in the same order.
LEMMA ShrunkBuffer ==
    ASSUME NEW b \in Seq(Pins), NEW c,
           c = b \/ c = <<>> \/ (b # <<>> /\ c = Tail(b))
    PROVE  /\ c \in Seq(Pins)
           /\ \E n \in {0, 1, Len(b)} :
                 /\ Len(c) = Len(b) - n
                 /\ \A i \in 1 .. Len(c) : i + n \in 1 .. Len(b) /\ c[i] = b[i + n]
  <1>1. CASE c = b
    BY <1>1
  <1>2. CASE c = <<>>
    BY <1>2
  <1>3. CASE b # <<>> /\ c = Tail(b)
    BY <1>3
  <1>4. QED
    BY <1>1, <1>2, <1>3

\* Taking pins off brings none together, and adds none.
LEMMA ShrinkingKeepsApart ==
    ASSUME NEW B \in [Keys -> Seq(Pins)], NEW C \in [Keys -> Seq(Pins)], Shrinks(B, C)
    PROVE  /\ Apart(B) => Apart(C)
           /\ \A p : InNone(B, p) => InNone(C, p)
  <1>1. ASSUME NEW k \in Keys
        PROVE  \E n \in {0, 1, Len(B[k])} :
                  /\ Len(C[k]) = Len(B[k]) - n
                  /\ \A i \in 1 .. Len(C[k]) : i + n \in 1 .. Len(B[k]) /\ C[k][i] = B[k][i + n]
    BY <1>1, ShrunkBuffer DEF Shrinks
  <1>2. ASSUME NEW p, InNone(B, p)
        PROVE  InNone(C, p)
    BY <1>1, <1>2 DEF InNone
  <1>3. ASSUME Apart(B)
        PROVE  Apart(C)
    <2> SUFFICES ASSUME NEW k \in Keys, NEW l \in Keys,
                        NEW i \in 1 .. Len(C[k]), NEW j \in 1 .. Len(C[l]), C[k][i] = C[l][j]
                 PROVE  k = l /\ i = j
      BY DEF Apart
    <2>1. PICK n \in {0, 1, Len(B[k])} :
              /\ Len(C[k]) = Len(B[k]) - n
              /\ \A h \in 1 .. Len(C[k]) : h + n \in 1 .. Len(B[k]) /\ C[k][h] = B[k][h + n]
      BY <1>1
    <2>2. PICK m \in {0, 1, Len(B[l])} :
              /\ Len(C[l]) = Len(B[l]) - m
              /\ \A h \in 1 .. Len(C[l]) : h + m \in 1 .. Len(B[l]) /\ C[l][h] = B[l][h + m]
      BY <1>1
    <2>3. i + n \in 1 .. Len(B[k]) /\ j + m \in 1 .. Len(B[l]) /\ B[k][i + n] = B[l][j + m]
      BY <2>1, <2>2
    <2>4. k = l /\ i + n = j + m
      BY <1>3, <2>3 DEF Apart
    <2>5. n = m
      BY <2>1, <2>2, <2>4
    <2>6. QED
      BY <2>1, <2>4, <2>5
  <1>4. QED
    BY <1>2, <1>3

\* A pin that is nowhere is in one place when it comes.
LEMMA AddingKeepsApart ==
    ASSUME NEW B \in [Keys -> Seq(Pins)], NEW C \in [Keys -> Seq(Pins)],
           NEW k \in Keys, NEW p \in Pins, Adds(B, C, k, p), Apart(B), InNone(B, p)
    PROVE  Apart(C)
  <1>1. /\ Len(C[k]) = Len(B[k]) + 1 /\ C[k][Len(B[k]) + 1] = p
        /\ \A i \in 1 .. Len(B[k]) : C[k][i] = B[k][i]
    BY DEF Adds
  <1>2. ASSUME NEW l \in Keys, NEW i \in 1 .. Len(C[l]), i \notin 1 .. Len(B[l])
        PROVE  l = k /\ i = Len(B[k]) + 1
    BY <1>1, <1>2 DEF Adds
  <1>3. ASSUME NEW l \in Keys, NEW i \in 1 .. Len(C[l]), i \in 1 .. Len(B[l])
        PROVE  C[l][i] = B[l][i] /\ C[l][i] # p
    BY <1>1, <1>3 DEF Adds, InNone
  <1> SUFFICES ASSUME NEW l \in Keys, NEW m \in Keys,
                      NEW i \in 1 .. Len(C[l]), NEW j \in 1 .. Len(C[m]), C[l][i] = C[m][j]
               PROVE  l = m /\ i = j
    BY DEF Apart
  <1>4. CASE i \in 1 .. Len(B[l]) /\ j \in 1 .. Len(B[m])
    BY <1>3, <1>4 DEF Apart
  <1>5. CASE i \notin 1 .. Len(B[l]) /\ j \notin 1 .. Len(B[m])
    BY <1>2, <1>5
  <1>6. CASE i \in 1 .. Len(B[l]) /\ j \notin 1 .. Len(B[m])
    BY <1>1, <1>2, <1>3, <1>6
  <1>7. CASE i \notin 1 .. Len(B[l]) /\ j \in 1 .. Len(B[m])
    BY <1>1, <1>2, <1>3, <1>7
  <1>8. QED
    BY <1>4, <1>5, <1>6, <1>7

\* The first pin of a buffer is nowhere once it has been taken off.
LEMMA TakenOffIsNowhere ==
    ASSUME NEW B \in [Keys -> Seq(Pins)], NEW C \in [Keys -> Seq(Pins)], Shrinks(B, C),
           Apart(B), NEW k \in Keys, B[k] # <<>>, C[k] = Tail(B[k])
    PROVE  InNone(C, Head(B[k]))
  <1> SUFFICES ASSUME NEW l \in Keys, NEW j \in 1 .. Len(C[l]), C[l][j] = Head(B[k])
               PROVE  FALSE
    BY DEF InNone
  <1>1. PICK m \in {0, 1, Len(B[l])} :
            /\ Len(C[l]) = Len(B[l]) - m
            /\ \A h \in 1 .. Len(C[l]) : h + m \in 1 .. Len(B[l]) /\ C[l][h] = B[l][h + m]
    BY ShrunkBuffer DEF Shrinks
  <1>2. 1 \in 1 .. Len(B[k]) /\ B[k][1] = Head(B[k])
    BY EmptySeq
  <1>3. k = l /\ 1 = j + m
    BY <1>1, <1>2 DEF Apart
  <1>4. Len(C[k]) = Len(B[k]) - 1
    OBVIOUS
  <1>5. QED
    BY <1>1, <1>3, <1>4

\* The first pin of buffer k moves to the end of buffer l.
MovesPin(B, C, k, l) ==
    /\ k \in Keys /\ l \in Keys /\ k # l /\ B[k] # <<>>
    /\ C[k] = Tail(B[k]) /\ C[l] = Append(B[l], Head(B[k]))
    /\ \A m \in Keys \ {k, l} : C[m] = B[m]

\* A pin that moves is in one place before and after, and stays among the pins.
LEMMA MovingKeepsApart ==
    ASSUME NEW B \in [Keys -> Seq(Pins)], NEW C \in [Keys -> Seq(Pins)],
           NEW k, NEW l, MovesPin(B, C, k, l)
    PROVE  /\ Apart(B) => Apart(C)
           /\ \A p : InNone(C, p) => InNone(B, p)
  <1> DEFINE D == [B EXCEPT ![k] = Tail(@)]
  <1>1. /\ k \in Keys /\ l \in Keys /\ k # l /\ B[k] # <<>> /\ B[k] \in Seq(Pins)
        /\ Tail(B[k]) \in Seq(Pins) /\ Head(B[k]) \in Pins
    BY DEF MovesPin
  <1>2. D \in [Keys -> Seq(Pins)] /\ Shrinks(B, D) /\ D[k] = Tail(B[k])
    BY <1>1 DEF Shrinks
  <1>3. Adds(D, C, l, Head(B[k]))
    BY <1>1 DEF MovesPin, Adds
  <1> HIDE DEF D
  <1>4. ASSUME Apart(B) PROVE Apart(C)
    <2>1. Apart(D) /\ InNone(D, Head(B[k]))
      BY <1>1, <1>2, <1>4, ShrinkingKeepsApart, TakenOffIsNowhere
    <2>2. QED
      BY <1>1, <1>2, <1>3, <2>1, AddingKeepsApart
  <1>5. ASSUME NEW p, InNone(C, p), NEW m \in Keys, NEW i \in 1 .. Len(B[m])
        PROVE  B[m][i] # p
    <2>1. CASE m \notin {k, l}
      BY <1>5, <2>1 DEF MovesPin, InNone
    <2>2. CASE m = l
      <3>1. i \in 1 .. Len(C[l]) /\ C[l][i] = B[l][i]
        BY <1>1, <1>5, <2>2 DEF MovesPin
      <3>2. QED
        BY <1>1, <1>5, <2>2, <3>1 DEF InNone
    <2>3. CASE m = k /\ i = 1
      <3>1. Len(B[l]) + 1 \in 1 .. Len(C[l]) /\ C[l][Len(B[l]) + 1] = Head(B[k])
        BY <1>1 DEF MovesPin
      <3>2. B[k][1] = Head(B[k])
        BY <1>1
      <3>3. QED
        BY <1>1, <1>5, <2>3, <3>1, <3>2 DEF InNone
    <2>4. CASE m = k /\ i # 1
      <3>1. i - 1 \in 1 .. Len(C[k]) /\ C[k][i - 1] = B[k][i]
        BY <1>1, <1>5, <2>4 DEF MovesPin
      <3>2. QED
        BY <1>1, <1>5, <2>4, <3>1 DEF InNone
    <2>5. QED
      BY <2>1, <2>2, <2>3, <2>4
  <1>6. QED
    BY <1>4, <1>5 DEF InNone

\* A pin that comes hides none of those that were there.
LEMMA AddingKeepsPins ==
    ASSUME NEW B \in [Keys -> Seq(Pins)], NEW C \in [Keys -> Seq(Pins)],
           NEW k \in Keys, NEW p \in Pins, Adds(B, C, k, p), NEW r, InNone(C, r)
    PROVE  InNone(B, r)
  <1>1. \A l \in Keys : \A i \in 1 .. Len(B[l]) : i \in 1 .. Len(C[l]) /\ C[l][i] = B[l][i]
    <2>1. ASSUME NEW l \in Keys, NEW i \in 1 .. Len(B[l])
          PROVE  i \in 1 .. Len(C[l]) /\ C[l][i] = B[l][i]
      <3>1. CASE l = k
        BY <3>1 DEF Adds
      <3>2. CASE l # k
        BY <3>2 DEF Adds
      <3>3. QED
        BY <3>1, <3>2
    <2>2. QED
      BY <2>1
  <1>2. QED
    BY <1>1 DEF InNone

\* Buffer k had pin p at index i and has changed; if it lost its first pin, that is p.
LostFrom(B, C, p, k, i) ==
    /\ k \in Keys /\ i \in 1 .. Len(B[k]) /\ B[k][i] = p
    /\ C[k] # B[k]
    /\ C[k] = Tail(B[k]) => p = Head(B[k])

\* A pin that is nowhere after buffers have shrunk was in one of those that did.
LEMMA WhatShrinkingLoses ==
    ASSUME NEW B \in [Keys -> Seq(Pins)], NEW C \in [Keys -> Seq(Pins)], Shrinks(B, C),
           NEW p, ~InNone(B, p), InNone(C, p)
    PROVE  \E k, i : LostFrom(B, C, p, k, i)
  <1>0. PICK k \in Keys : \E i \in 1 .. Len(B[k]) : B[k][i] = p
    BY DEF InNone
  <1>1. PICK i \in 1 .. Len(B[k]) : B[k][i] = p
    BY <1>0
  <1>2. C[k] # B[k]
    BY <1>1 DEF InNone
  <1>3. ASSUME C[k] = Tail(B[k])
        PROVE  p = Head(B[k])
    <2>1. B[k] # <<>>
      BY <1>1
    <2>2. CASE i = 1
      BY <1>1, <2>1, <2>2
    <2>3. CASE i # 1
      <3>1. i - 1 \in 1 .. Len(C[k]) /\ C[k][i - 1] = B[k][i]
        BY <1>1, <1>3, <2>1, <2>3
      <3>2. QED
        BY <1>1, <3>1 DEF InNone
    <2>4. QED
      BY <2>2, <2>3
  <1>4. QED
    BY <1>1, <1>2, <1>3 DEF LostFrom

-----------------------------------------------------------------------------
(* What each step does to the pins.                                        *)

\* The places where a pin may be, by kind.
LEMMA KeyKinds ==
    /\ \A q \in 1 .. 2 : <<"queue", q>> \in Keys
    /\ \A c \in Clients : <<"up", c>> \in Keys /\ <<"down", c>> \in Keys
    /\ \A w \in Workers[2] : <<"hand", w>> \in Keys
    /\ \A k \in Keys : \/ \E q \in 1 .. 2 : k = <<"queue", q>>
                       \/ \E c \in Clients : k = <<"up", c>> \/ k = <<"down", c>>
                       \/ \E w \in Workers[2] : k = <<"hand", w>>
  BY DEF Keys

InHand(h) == IF h = NoPin THEN <<>> ELSE <<h>>

\* Holding at each kind of key, before and after a step.
LEMMA HoldingAt ==
    /\ \A q \in 1 .. 2 : /\ Holding[<<"queue", q>>] = queue[q]
                         /\ Holding'[<<"queue", q>>] = queue'[q]
    /\ \A c \in Clients : /\ Holding[<<"up", c>>] = up[c] /\ Holding'[<<"up", c>>] = up'[c]
                          /\ Holding[<<"down", c>>] = down[c]
                          /\ Holding'[<<"down", c>>] = down'[c]
    /\ \A w \in Workers[2] : /\ Holding[<<"hand", w>>] = InHand(hand[w])
                             /\ Holding'[<<"hand", w>>] = InHand(hand'[w])
  BY KeyKinds DEF Holding, InHand

\* Every place holds a sequence of pins.
LEMMA HoldingType == TypeOK => Holding \in [Keys -> Seq(Pins)]
  <1> SUFFICES ASSUME TypeOK PROVE Holding \in [Keys -> Seq(Pins)]
    OBVIOUS
  <1>1. \A h \in Pins \union {NoPin} : InHand(h) \in Seq(Pins)
    BY DEF InHand
  <1>0. /\ \A q \in 1 .. 2 : queue[q] \in Seq(Pins)
        /\ \A c \in Clients : up[c] \in Seq(Pins) /\ down[c] \in Seq(Pins)
        /\ \A w \in Workers[2] : hand[w] \in Pins \union {NoPin}
    BY DEF TypeOK
  <1>2. ASSUME NEW k \in Keys
        PROVE  Holding[k] \in Seq(Pins)
    <2>1. ASSUME NEW q \in 1 .. 2, k = <<"queue", q>>
          PROVE  Holding[k] \in Seq(Pins)
      BY <1>0, <2>1, HoldingAt
    <2>2. ASSUME NEW c \in Clients, k = <<"up", c>> \/ k = <<"down", c>>
          PROVE  Holding[k] \in Seq(Pins)
      BY <1>0, <2>2, HoldingAt
    <2>3. ASSUME NEW w \in Workers[2], k = <<"hand", w>>
          PROVE  Holding[k] \in Seq(Pins)
      BY <1>0, <1>1, <2>3, HoldingAt
    <2>4. QED
      BY <2>1, <2>2, <2>3, KeyKinds
  <1>3. QED
    BY <1>2 DEF Holding

-----------------------------------------------------------------------------
(* A step takes pins off, moves one, or brings a new one.                  *)

\* A buffer keeps what it has, or loses its first pin, or all of them.
Shrunk(b, c) == c = b \/ c = <<>> \/ (b # <<>> /\ c = Tail(b))

ByKinds ==
    /\ \A q \in 1 .. 2 : Shrunk(queue[q], queue'[q])
    /\ \A c \in Clients : Shrunk(up[c], up'[c]) /\ Shrunk(down[c], down'[c])
    /\ \A w \in Workers[2] : hand'[w] = hand[w] \/ hand'[w] = NoPin

\* Buffer by buffer.
LEMMA ShrinksByKinds == ByKinds => Shrinks(Holding, Holding')
  <1> SUFFICES ASSUME ByKinds, NEW k \in Keys
               PROVE  Shrunk(Holding[k], Holding'[k])
    BY DEF Shrinks, Shrunk
  <1>1. ASSUME NEW q \in 1 .. 2, k = <<"queue", q>>
        PROVE  Shrunk(Holding[k], Holding'[k])
    BY <1>1, HoldingAt DEF ByKinds
  <1>2. ASSUME NEW c \in Clients, k = <<"up", c>> \/ k = <<"down", c>>
        PROVE  Shrunk(Holding[k], Holding'[k])
    BY ZenonT(60), <1>2, HoldingAt DEF ByKinds
  <1>3. ASSUME NEW w \in Workers[2], k = <<"hand", w>>
        PROVE  Shrunk(Holding[k], Holding'[k])
    <2>1. InHand(hand'[w]) = InHand(hand[w]) \/ InHand(hand'[w]) = <<>>
      BY DEF ByKinds, InHand
    <2>2. QED
      BY <1>3, <2>1, HoldingAt DEF Shrunk
  <1>4. QED
    BY <1>1, <1>2, <1>3, KeyKinds

\* Steps of the workers.
LEMMA WorkerEffect ==
    ASSUME TypeOK, NEW c \in Clients, Leave(c) \/ ResetArrives(c)
    PROVE  ByKinds
  <1>1. /\ up \in [Clients -> Seq(Pins)] /\ down \in [Clients -> Seq(Pins)]
        /\ hand \in [Workers[2] -> Pins \union {NoPin}]
    BY DEF TypeOK
  <1>2. QED
    BY <1>1 DEF Leave, ResetArrives, ByKinds, Shrunk

\* A check takes the first pin out of a worker's socket.
LEMMA CheckEffect ==
    ASSUME TypeOK, NEW c \in Clients, CheckPin(c)
    PROVE  ByKinds
  <1>1. down \in [Clients -> Seq(Pins)]
    BY DEF TypeOK
  <1>2. QED
    BY <1>1 DEF CheckPin, ByKinds, Shrunk

\* A pin that is made was nowhere before.
LEMMA MakeEffect ==
    ASSUME TypeOK, NEW w \in Workers[1], MakePin(w)
    PROVE  \E p \in Pins : Adds(Holding, Holding', <<"up", w>>, p) /\ InNone(Holding, p)
  <1>0. w \in Clients
    BY Constants DEF Stages
  <1>1. PICK p \in Pins \ InTransit : up' = [up EXCEPT ![w] = Append(@, p)]
    BY DEF MakePin
  <1>2. /\ up \in [Clients -> Seq(Pins)] /\ down \in [Clients -> Seq(Pins)]
        /\ queue \in [1 .. 2 -> Seq(Pins)] /\ hand \in [Workers[2] -> Pins \union {NoPin}]
    BY DEF TypeOK
  <1>3. Adds(Holding, Holding', <<"up", w>>, p)
    <2>1. Holding'[<<"up", w>>] = Append(Holding[<<"up", w>>], p)
      BY ZenonT(60), <1>0, <1>1, <1>2, HoldingAt
    <2>2. ASSUME NEW q \in 1 .. 2
          PROVE  Holding'[<<"queue", q>>] = Holding[<<"queue", q>>]
      BY HoldingAt DEF MakePin
    <2>3. ASSUME NEW c \in Clients
          PROVE  /\ c # w => Holding'[<<"up", c>>] = Holding[<<"up", c>>]
                 /\ Holding'[<<"down", c>>] = Holding[<<"down", c>>]
      BY <1>1, <1>2, HoldingAt DEF MakePin
    <2>4. ASSUME NEW v \in Workers[2]
          PROVE  Holding'[<<"hand", v>>] = Holding[<<"hand", v>>]
      BY HoldingAt DEF MakePin
    <2>5. QED
      BY ZenonT(60), <2>1, <2>2, <2>3, <2>4, KeyKinds DEF Adds
  <1>4. InNone(Holding, p)
    <2>1. ASSUME NEW q \in 1 .. 2, NEW i \in 1 .. Len(queue[q]) PROVE queue[q][i] # p
      BY <1>1, <1>2 DEF InTransit, Range
    <2>2. ASSUME NEW c \in Clients, NEW i \in 1 .. Len(up[c]) PROVE up[c][i] # p
      BY <1>1, <1>2 DEF InTransit, Range
    <2>3. ASSUME NEW c \in Clients, NEW i \in 1 .. Len(down[c]) PROVE down[c][i] # p
      BY <1>1, <1>2 DEF InTransit, Range
    <2>4. ASSUME NEW v \in Workers[2], NEW i \in 1 .. Len(InHand(hand[v]))
          PROVE  InHand(hand[v])[i] # p
      <3>1. hand[v] # NoPin => hand[v] \in Range(hand) \ {NoPin}
        BY <1>2 DEF Range
      <3>2. hand[v] # NoPin => hand[v] # p
        BY <1>1, <3>1 DEF InTransit
      <3>3. QED
        BY <2>4, <3>2 DEF InHand
    <2>5. ASSUME NEW k \in Keys, NEW i \in 1 .. Len(Holding[k])
          PROVE  Holding[k][i] # p
      <3>1. ASSUME NEW q \in 1 .. 2, k = <<"queue", q>> PROVE Holding[k][i] # p
        BY <2>1, <2>5, <3>1, HoldingAt
      <3>2. ASSUME NEW c \in Clients, k = <<"up", c>> \/ k = <<"down", c>> PROVE Holding[k][i] # p
        <4>1. CASE k = <<"up", c>>
          BY ZenonT(60), <2>2, <2>5, <4>1, HoldingAt
        <4>2. CASE k = <<"down", c>>
          BY ZenonT(60), <2>3, <2>5, <4>2, HoldingAt
        <4>3. QED
          BY <3>2, <4>1, <4>2
      <3>3. ASSUME NEW v \in Workers[2], k = <<"hand", v>> PROVE Holding[k][i] # p
        BY <2>4, <2>5, <3>3, HoldingAt
      <3>4. QED
        BY <3>1, <3>2, <3>3, KeyKinds
    <2>6. QED
      BY <2>5 DEF InNone
  <1>5. QED
    BY <1>3, <1>4

\* A buffer of one pin.
LEMMA Single ==
    \A x : /\ Append(<<>>, x) = <<x>> /\ <<x>> # <<>>
           /\ Head(<<x>>) = x /\ Tail(<<x>>) = <<>>
  OBVIOUS

\* A worker of stage 2 takes a pin into its hand, and sends it back.
LEMMA HandEffect ==
    ASSUME TypeOK, NEW w \in Workers[2]
    PROVE  /\ TakePin(w) => MovesPin(Holding, Holding', <<"down", w>>, <<"hand", w>>)
           /\ PassPin(w) => MovesPin(Holding, Holding', <<"hand", w>>, <<"up", w>>)
  <1>0. w \in Clients
    BY Constants DEF Stages
  <1>1. /\ up \in [Clients -> Seq(Pins)] /\ down \in [Clients -> Seq(Pins)]
        /\ hand \in [Workers[2] -> Pins \union {NoPin}] /\ NoPin \notin Pins
    BY PipelineAssumption DEF TypeOK
  <1>2. /\ <<"down", w>> \in Keys /\ <<"up", w>> \in Keys /\ <<"hand", w>> \in Keys
        /\ <<"down", w>> # <<"hand", w>> /\ <<"hand", w>> # <<"up", w>>
    BY <1>0, KeyKinds
  <1>3. ASSUME TakePin(w)
        PROVE  MovesPin(Holding, Holding', <<"down", w>>, <<"hand", w>>)
    <2>1. /\ Holding[<<"down", w>>] # <<>>
          /\ Holding'[<<"down", w>>] = Tail(Holding[<<"down", w>>])
      BY <1>0, <1>1, <1>3, HoldingAt DEF TakePin
    <2>2. Holding'[<<"hand", w>>] = Append(Holding[<<"hand", w>>], Head(Holding[<<"down", w>>]))
      <3>1. hand[w] = NoPin /\ hand'[w] = Head(down[w]) /\ Head(down[w]) \in Pins
        BY <1>0, <1>1, <1>3 DEF TakePin
      <3>2. InHand(hand[w]) = <<>> /\ InHand(hand'[w]) = <<Head(down[w])>>
        BY <1>1, <3>1 DEF InHand
      <3>3. /\ Holding[<<"hand", w>>] = <<>> /\ Holding'[<<"hand", w>>] = <<Head(down[w])>>
            /\ Holding[<<"down", w>>] = down[w]
        BY <1>0, <3>2, HoldingAt
      <3>4. QED
        BY <3>3, Single
    <2>3. ASSUME NEW q \in 1 .. 2
          PROVE  Holding'[<<"queue", q>>] = Holding[<<"queue", q>>]
      BY <1>3, HoldingAt DEF TakePin
    <2>4. ASSUME NEW c \in Clients
          PROVE  /\ c # w => Holding'[<<"down", c>>] = Holding[<<"down", c>>]
                 /\ Holding'[<<"up", c>>] = Holding[<<"up", c>>]
      BY <1>1, <1>3, HoldingAt DEF TakePin
    <2>5. ASSUME NEW v \in Workers[2], v # w
          PROVE  Holding'[<<"hand", v>>] = Holding[<<"hand", v>>]
      BY <1>1, <1>3, <2>5, HoldingAt DEF TakePin
    <2>6. QED
      BY ZenonT(60), <1>2, <2>1, <2>2, <2>3, <2>4, <2>5, KeyKinds DEF MovesPin
  <1>4. ASSUME PassPin(w)
        PROVE  MovesPin(Holding, Holding', <<"hand", w>>, <<"up", w>>)
    <2>1. hand[w] \in Pins /\ InHand(hand[w]) = <<hand[w]>> /\ InHand(hand'[w]) = <<>>
      BY <1>1, <1>4 DEF PassPin, InHand
    <2>2. /\ Holding[<<"hand", w>>] # <<>> /\ Head(Holding[<<"hand", w>>]) = hand[w]
          /\ Holding'[<<"hand", w>>] = Tail(Holding[<<"hand", w>>])
      <3>1. Holding[<<"hand", w>>] = <<hand[w]>> /\ Holding'[<<"hand", w>>] = <<>>
        BY <2>1, HoldingAt
      <3>2. QED
        BY <3>1, Single
    <2>3. Holding'[<<"up", w>>] = Append(Holding[<<"up", w>>], hand[w])
      BY <1>0, <1>1, <1>4, HoldingAt DEF PassPin
    <2>4. ASSUME NEW q \in 1 .. 2
          PROVE  Holding'[<<"queue", q>>] = Holding[<<"queue", q>>]
      BY <1>4, HoldingAt DEF PassPin
    <2>5. ASSUME NEW c \in Clients
          PROVE  /\ c # w => Holding'[<<"up", c>>] = Holding[<<"up", c>>]
                 /\ Holding'[<<"down", c>>] = Holding[<<"down", c>>]
      BY <1>1, <1>4, HoldingAt DEF PassPin
    <2>6. ASSUME NEW v \in Workers[2], v # w
          PROVE  Holding'[<<"hand", v>>] = Holding[<<"hand", v>>]
      BY <1>1, <1>4, <2>6, HoldingAt DEF PassPin
    <2>7. QED
      BY ZenonT(60), <1>2, <2>2, <2>3, <2>4, <2>5, <2>6, KeyKinds DEF MovesPin
  <1>5. QED
    BY <1>3, <1>4

\* poll_workers moves a pin from a socket to a ring: it reads only when there is room.
LEMMA PollEffect ==
    ASSUME TypeOK, NEW s \in {1, 2}, NEW l, PollMore(s), PollSlot(s, l)
    PROVE  ByKinds \/ \E k, m \in Keys : MovesPin(Holding, Holding', k, m)
  <1> DEFINE c == fds[s][slot]
  <1>1. /\ up \in [Clients -> Seq(Pins)] /\ down \in [Clients -> Seq(Pins)]
        /\ queue \in [1 .. 2 -> Seq(Pins)]
    BY DEF TypeOK
  <1>2. s \in Stages /\ slot \in 1 .. MaxWorkers[s] /\ s \in 1 .. 2
    BY Constants, Parts DEF PollMore, PollerOK, Stages
  <1>3. c # NoClient => c \in Clients
    BY <1>2, Constants, Parts DEF TablesOK
  <1>4. CASE UNCHANGED <<queue, up, down, hand>>
    BY <1>4 DEF ByKinds, Shrunk
  <1>5. CASE c # NoClient /\ Remove(s, c) /\ UNCHANGED queue
    BY <1>1, <1>3, <1>5 DEF Remove, ByKinds, Shrunk
  <1>6. CASE /\ c # NoClient /\ up[c] # <<>> /\ Put(s, Head(up[c]))
             /\ up' = [up EXCEPT ![c] = Tail(@)]
             /\ UNCHANGED <<down, hand>>
    <2> HIDE DEF c
    <2>1. /\ <<"up", c>> \in Keys /\ <<"queue", s>> \in Keys
          /\ <<"up", c>> # <<"queue", s>>
      BY <1>2, <1>3, <1>6, KeyKinds
    <2>2. queue' = [queue EXCEPT ![s] = Append(queue[s], Head(up[c]))]
      BY <1>6 DEF Put, PollMore
    <2>3. /\ Holding[<<"up", c>>] # <<>>
          /\ Holding'[<<"up", c>>] = Tail(Holding[<<"up", c>>])
      BY <1>1, <1>3, <1>6, HoldingAt
    <2>4. Holding'[<<"queue", s>>] = Append(Holding[<<"queue", s>>], Head(Holding[<<"up", c>>]))
      BY ZenonT(60), <1>1, <1>2, <1>3, <1>6, <2>2, HoldingAt
    <2>5. ASSUME NEW q \in 1 .. 2, q # s
          PROVE  Holding'[<<"queue", q>>] = Holding[<<"queue", q>>]
      BY ZenonT(60), <1>1, <1>2, <2>2, <2>5, HoldingAt
    <2>6. ASSUME NEW d \in Clients
          PROVE  /\ d # c => Holding'[<<"up", d>>] = Holding[<<"up", d>>]
                 /\ Holding'[<<"down", d>>] = Holding[<<"down", d>>]
      BY <1>1, <1>6, HoldingAt
    <2>7. ASSUME NEW v \in Workers[2]
          PROVE  Holding'[<<"hand", v>>] = Holding[<<"hand", v>>]
      BY <1>6, HoldingAt
    <2>8. MovesPin(Holding, Holding', <<"up", c>>, <<"queue", s>>)
      BY ZenonT(60), <2>1, <2>3, <2>4, <2>5, <2>6, <2>7, KeyKinds DEF MovesPin
    <2>9. QED
      BY <2>1, <2>8
  <1>7. QED
    BY <1>4, <1>5, <1>6 DEF PollSlot, RemoveReset, UnknownError, net, tables

\* send_pins_to_workers moves a pin from a ring to a socket, or loses it.
LEMMA SendEffect ==
    ASSUME TypeOK, NEW s \in {2, 3}, SendMore(s), SendSlot(s)
    PROVE  ByKinds \/ \E k, m \in Keys : MovesPin(Holding, Holding', k, m)
  <1> DEFINE c == fds[s][slot]
  <1>1. /\ up \in [Clients -> Seq(Pins)] /\ down \in [Clients -> Seq(Pins)]
        /\ queue \in [1 .. 2 -> Seq(Pins)]
    BY DEF TypeOK
  <1>2. /\ s \in Stages /\ slot \in 1 .. MaxWorkers[s] /\ s - 1 \in 1 .. 2
        /\ queue[s - 1] # <<>>
    BY Constants, Parts DEF SendMore, PollerOK, Stages, Empty
  <1>3. c # NoClient => c \in Clients
    BY <1>2, Constants, Parts DEF TablesOK
  <1>4. CASE UNCHANGED <<up, down, hand>> /\ (UNCHANGED queue \/ Pop(s - 1))
    BY <1>1, <1>2, <1>4 DEF ByKinds, Shrunk, Pop
  <1>5. CASE c # NoClient /\ Remove(s, c) /\ (UNCHANGED queue \/ Pop(s - 1))
    BY <1>1, <1>2, <1>3, <1>5 DEF Remove, ByKinds, Shrunk, Pop
  <1>6. CASE /\ c # NoClient /\ Pop(s - 1)
             /\ down' = [down EXCEPT ![c] = Append(@, Head(queue[s - 1]))]
             /\ UNCHANGED <<up, hand>>
    <2> HIDE DEF c
    <2>0. PICK q \in 1 .. 2 : q = s - 1
      BY <1>2
    <2>1. /\ <<"down", c>> \in Keys /\ <<"queue", q>> \in Keys
          /\ <<"down", c>> # <<"queue", q>>
      BY <1>3, <1>6, KeyKinds
    <2>2. queue' = [queue EXCEPT ![q] = Tail(queue[q])] /\ queue[q] # <<>>
      BY <1>2, <1>6, <2>0 DEF Pop
    <2>3. /\ Holding[<<"queue", q>>] # <<>>
          /\ Holding'[<<"queue", q>>] = Tail(Holding[<<"queue", q>>])
      BY <1>1, <2>2, HoldingAt
    <2>4. Holding'[<<"down", c>>] = Append(Holding[<<"down", c>>], Head(Holding[<<"queue", q>>]))
      BY ZenonT(60), <1>1, <1>3, <1>6, <2>0, HoldingAt
    <2>5. ASSUME NEW r \in 1 .. 2, r # q
          PROVE  Holding'[<<"queue", r>>] = Holding[<<"queue", r>>]
      BY ZenonT(60), <1>1, <2>2, <2>5, HoldingAt
    <2>6. ASSUME NEW d \in Clients
          PROVE  /\ d # c => Holding'[<<"down", d>>] = Holding[<<"down", d>>]
                 /\ Holding'[<<"up", d>>] = Holding[<<"up", d>>]
      BY <1>1, <1>6, HoldingAt
    <2>7. ASSUME NEW v \in Workers[2]
          PROVE  Holding'[<<"hand", v>>] = Holding[<<"hand", v>>]
      BY <1>6, HoldingAt
    <2>8. MovesPin(Holding, Holding', <<"queue", q>>, <<"down", c>>)
      BY ZenonT(60), <2>1, <2>3, <2>4, <2>5, <2>6, <2>7, KeyKinds DEF MovesPin
    <2>9. QED
      BY <2>1, <2>8
  <1>7. QED
    BY <1>4, <1>5, <1>6 DEF SendSlot, RemoveReset, UnknownError, net, tables

\* Every step does one of these to the pins.
LEMMA StepEffect ==
    ASSUME TypeOK, [Next]_vars
    PROVE  ByKinds \/ (\E k, m \in Keys : MovesPin(Holding, Holding', k, m))
           \/ (\E k \in Keys : \E p \in Pins :
                  Adds(Holding, Holding', k, p) /\ InNone(Holding, p))
  <1>0. \A s \in Stages : Workers[s] \subseteq Clients
    BY Constants
  <1>1. CASE UNCHANGED <<queue, up, down, hand>>
    BY <1>1 DEF ByKinds, Shrunk
  <1>2. CASE Poller
    <2>1. ASSUME NEW l \in PollerPC, LeaveLoop(l), KeepAll
          PROVE  UNCHANGED <<queue, up, down, hand>>
      BY <2>1 DEF KeepAll, net
    <2>2. QED
      BY <1>1, <1>2, <2>1, PollerSteps, PollEffect, SendEffect
  <1>3. ASSUME NEW s \in Stages, NEW c \in Workers[s], Accept(s, c)
        PROVE  UNCHANGED <<queue, up, down, hand>>
    BY <1>3 DEF Accept
  <1>4. ASSUME NEW c \in Clients, Leave(c) \/ ResetArrives(c)
        PROVE  ByKinds
    BY <1>4, WorkerEffect
  <1>5. ASSUME NEW w \in Workers[1], MakePin(w)
        PROVE  \E k \in Keys : \E p \in Pins :
                  Adds(Holding, Holding', k, p) /\ InNone(Holding, p)
    <2>1. w \in Clients
      BY <1>0 DEF Stages
    <2>2. <<"up", w>> \in Keys
      BY <2>1, KeyKinds
    <2>3. QED
      BY <1>5, <2>2, MakeEffect
  <1>6. ASSUME NEW w \in Workers[2], TakePin(w) \/ PassPin(w)
        PROVE  \E k, m \in Keys : MovesPin(Holding, Holding', k, m)
    <2>1. w \in Clients
      BY <1>0 DEF Stages
    <2>2. <<"up", w>> \in Keys /\ <<"down", w>> \in Keys /\ <<"hand", w>> \in Keys
      BY <2>1, KeyKinds
    <2>3. QED
      BY <1>6, <2>2, HandEffect
  <1>7. ASSUME NEW w \in Workers[3], CheckPin(w)
        PROVE  ByKinds
    BY <1>0, <1>7, CheckEffect DEF Stages
  <1>8. CASE UNCHANGED vars
    BY <1>1, <1>8 DEF vars
  <1>9. QED
    BY <1>1, <1>2, <1>3, <1>4, <1>5, <1>6, <1>7, <1>8 DEF Next

\* The inductive invariant: no pin is at two places.
PinInv == TypeOK /\ Apart(Holding)

\* HoldingType, after a step.
LEMMA HoldingTypeStep == TypeOK' => Holding' \in [Keys -> Seq(Pins)]
  <1>1. (TypeOK => Holding \in [Keys -> Seq(Pins)])'
    BY HoldingType, PTL
  <1>2. QED
    BY <1>1

\* Every step keeps every pin in one place.
LEMMA PinStep == PinInv /\ [Next]_vars => PinInv'
  <1> SUFFICES ASSUME PinInv, [Next]_vars PROVE PinInv'
    OBVIOUS
  <1>1. TypeOK'
    BY TypeStep DEF PinInv
  <1>2. Holding \in [Keys -> Seq(Pins)] /\ Holding' \in [Keys -> Seq(Pins)]
    BY <1>1, HoldingType, HoldingTypeStep DEF PinInv
  <1>3. Apart(Holding)
    BY DEF PinInv
  <1>4. ASSUME ByKinds
        PROVE  Apart(Holding')
    BY <1>2, <1>3, <1>4, ShrinksByKinds, ShrinkingKeepsApart
  <1>5. ASSUME NEW k \in Keys, NEW m \in Keys, MovesPin(Holding, Holding', k, m)
        PROVE  Apart(Holding')
    BY <1>2, <1>3, <1>5, MovingKeepsApart
  <1>6. ASSUME NEW k \in Keys, NEW p \in Pins,
               Adds(Holding, Holding', k, p), InNone(Holding, p)
        PROVE  Apart(Holding')
    BY <1>2, <1>3, <1>6, AddingKeepsApart
  <1>7. Apart(Holding')
    BY <1>4, <1>5, <1>6, StepEffect DEF PinInv
  <1>8. QED
    BY <1>1, <1>7 DEF PinInv

\* At the start there are no pins.
LEMMA PinInit == Init => PinInv
  <1> SUFFICES ASSUME Init PROVE PinInv
    OBVIOUS
  <1>1. ASSUME NEW k \in Keys
        PROVE  Holding[k] = <<>>
    <2>1. ASSUME NEW q \in 1 .. 2, k = <<"queue", q>> PROVE Holding[k] = <<>>
      BY <2>1, HoldingAt DEF Init
    <2>2. ASSUME NEW c \in Clients, k = <<"up", c>> \/ k = <<"down", c>>
          PROVE  Holding[k] = <<>>
      BY ZenonT(60), <2>2, HoldingAt DEF Init
    <2>3. ASSUME NEW w \in Workers[2], k = <<"hand", w>> PROVE Holding[k] = <<>>
      <3>1. InHand(hand[w]) = <<>>
        BY DEF Init, InHand
      <3>2. QED
        BY <2>3, <3>1, HoldingAt
    <2>4. QED
      BY <2>1, <2>2, <2>3, KeyKinds
  <1>2. \A k \in Keys : Len(Holding[k]) = 0
    BY <1>1
  <1>3. Apart(Holding)
    BY <1>2 DEF Apart
  <1>4. QED
    BY <1>3, TypeInit DEF PinInv

\* PlacesOf, in terms of Holding.
LEMMA Places ==
    ASSUME TypeOK, NEW p \in Pins
    PROVE  /\ \A k \in Keys : \A i \in 1 .. Len(Holding[k]) :
                 Holding[k][i] = p => <<k[1], k[2], i>> \in PlacesOf(p)
           /\ \A x \in PlacesOf(p) : \E k \in Keys : \E i \in 1 .. Len(Holding[k]) :
                 Holding[k][i] = p /\ x = <<k[1], k[2], i>>
  <1>1. /\ up \in [Clients -> Seq(Pins)] /\ down \in [Clients -> Seq(Pins)]
        /\ queue \in [1 .. 2 -> Seq(Pins)] /\ p # NoPin
    BY PipelineAssumption DEF TypeOK
  <1>2. /\ \A q \in 1 .. 2 : DOMAIN queue[q] = 1 .. Len(queue[q])
        /\ \A c \in Clients : DOMAIN up[c] = 1 .. Len(up[c]) /\ DOMAIN down[c] = 1 .. Len(down[c])
    BY <1>1
  <1>3. \A w \in Workers[2] : \A i \in 1 .. Len(InHand(hand[w])) :
            InHand(hand[w])[i] = p => hand[w] = p /\ i = 1
    BY DEF InHand
  <1>4. \A w \in Workers[2] : hand[w] = p => 1 \in 1 .. Len(InHand(hand[w])) /\ InHand(hand[w])[1] = p
    BY <1>1 DEF InHand
  <1>5. ASSUME NEW k \in Keys, NEW i \in 1 .. Len(Holding[k]), Holding[k][i] = p
        PROVE  <<k[1], k[2], i>> \in PlacesOf(p)
    <2>1. ASSUME NEW q \in 1 .. 2, k = <<"queue", q>> PROVE <<k[1], k[2], i>> \in PlacesOf(p)
      <3>1. i \in DOMAIN queue[q] /\ queue[q][i] = p
        BY <1>2, <1>5, <2>1, HoldingAt
      <3>2. QED
        BY <2>1, <3>1 DEF PlacesOf
    <2>2. ASSUME NEW c \in Clients, k = <<"up", c>> PROVE <<k[1], k[2], i>> \in PlacesOf(p)
      <3>1. i \in DOMAIN up[c] /\ up[c][i] = p
        BY <1>2, <1>5, <2>2, HoldingAt
      <3>2. QED
        BY <2>2, <3>1 DEF PlacesOf
    <2>3. ASSUME NEW c \in Clients, k = <<"down", c>> PROVE <<k[1], k[2], i>> \in PlacesOf(p)
      <3>1. i \in DOMAIN down[c] /\ down[c][i] = p
        BY <1>2, <1>5, <2>3, HoldingAt
      <3>2. QED
        BY <2>3, <3>1 DEF PlacesOf
    <2>4. ASSUME NEW w \in Workers[2], k = <<"hand", w>> PROVE <<k[1], k[2], i>> \in PlacesOf(p)
      <3>1. hand[w] = p /\ i = 1
        BY <1>3, <1>5, <2>4, HoldingAt
      <3>2. QED
        BY <2>4, <3>1 DEF PlacesOf
    <2>5. QED
      BY <2>1, <2>2, <2>3, <2>4, KeyKinds
  <1>6. ASSUME NEW x \in PlacesOf(p)
        PROVE  \E k \in Keys : \E i \in 1 .. Len(Holding[k]) :
                  Holding[k][i] = p /\ x = <<k[1], k[2], i>>
    <2>1. ASSUME NEW q \in 1 .. 2, NEW i \in DOMAIN queue[q], queue[q][i] = p, x = <<"queue", q, i>>
          PROVE  \E k \in Keys : \E j \in 1 .. Len(Holding[k]) :
                    Holding[k][j] = p /\ x = <<k[1], k[2], j>>
      <3> <<"queue", q>> \in Keys BY KeyKinds
      <3> WITNESS <<"queue", q>> \in Keys
      <3> QED BY <1>2, <2>1, HoldingAt
    <2>2. ASSUME NEW c \in Clients, NEW i \in DOMAIN up[c], up[c][i] = p, x = <<"up", c, i>>
          PROVE  \E k \in Keys : \E j \in 1 .. Len(Holding[k]) :
                    Holding[k][j] = p /\ x = <<k[1], k[2], j>>
      <3> <<"up", c>> \in Keys BY KeyKinds
      <3> WITNESS <<"up", c>> \in Keys
      <3> QED BY <1>2, <2>2, HoldingAt
    <2>3. ASSUME NEW c \in Clients, NEW i \in DOMAIN down[c], down[c][i] = p, x = <<"down", c, i>>
          PROVE  \E k \in Keys : \E j \in 1 .. Len(Holding[k]) :
                    Holding[k][j] = p /\ x = <<k[1], k[2], j>>
      <3> <<"down", c>> \in Keys BY KeyKinds
      <3> WITNESS <<"down", c>> \in Keys
      <3> QED BY <1>2, <2>3, HoldingAt
    <2>4. ASSUME NEW w \in Workers[2], hand[w] = p, x = <<"hand", w, 1>>
          PROVE  \E k \in Keys : \E j \in 1 .. Len(Holding[k]) :
                    Holding[k][j] = p /\ x = <<k[1], k[2], j>>
      <3> <<"hand", w>> \in Keys BY KeyKinds
      <3> WITNESS <<"hand", w>> \in Keys
      <3> QED BY <1>4, <2>4, HoldingAt
    <2>5. QED
      BY <1>6, <2>1, <2>2, <2>3, <2>4 DEF PlacesOf
  <1>7. QED
    BY <1>5, <1>6

\* What is in one buffer only is in one place only.
LEMMA OnePlace == PinInv => PinInOnePlace
  <1> SUFFICES ASSUME PinInv, NEW p \in Pins
               PROVE  Cardinality(PlacesOf(p)) <= 1
    BY DEF PinInOnePlace
  <1>1. ASSUME NEW x \in PlacesOf(p), NEW y \in PlacesOf(p)
        PROVE  x = y
    <2>1. PICK k \in Keys : \E i \in 1 .. Len(Holding[k]) : Holding[k][i] = p /\ x = <<k[1], k[2], i>>
      BY Places DEF PinInv
    <2>2. PICK i \in 1 .. Len(Holding[k]) : Holding[k][i] = p /\ x = <<k[1], k[2], i>>
      BY <2>1
    <2>3. PICK l \in Keys : \E j \in 1 .. Len(Holding[l]) : Holding[l][j] = p /\ y = <<l[1], l[2], j>>
      BY Places DEF PinInv
    <2>4. PICK j \in 1 .. Len(Holding[l]) : Holding[l][j] = p /\ y = <<l[1], l[2], j>>
      BY <2>3
    <2>5. QED
      BY <2>2, <2>4 DEF PinInv, Apart
  <1>2. CASE PlacesOf(p) = {}
    BY <1>2, FS_EmptySet
  <1>3. CASE PlacesOf(p) # {}
    <2>1. PICK x : x \in PlacesOf(p)
      BY <1>3
    <2>2. PlacesOf(p) = {x}
      BY <1>1, <2>1
    <2>3. Cardinality({x}) = 1
      BY FS_Singleton
    <2>4. QED
      BY <2>2, <2>3
  <1>4. QED
    BY <1>2, <1>3

\* A pin is never at two places: no ring or socket buffer hands one out twice, and no
\* worker gets one that another worker or a ring still has.
THEOREM PinsInOnePlace == Spec => []PinInOnePlace
  BY PinInit, PinStep, OnePlace, PTL DEF Spec

-----------------------------------------------------------------------------
(* Where pins go.                                                          *)

Nowhere == \A p \in Pins : PlacesOf(p) = {} <=> InNone(Holding, p)

\* PlacesOf and Holding agree on which pins are nowhere.
LEMMA NowhereInHolding == TypeOK => Nowhere
  <1> SUFFICES ASSUME TypeOK, NEW p \in Pins
               PROVE  PlacesOf(p) = {} <=> InNone(Holding, p)
    BY DEF Nowhere
  <1>1. QED
    BY Places DEF InNone

\* NowhereInHolding, after a step.
LEMMA NowhereAfter == TypeOK' => Nowhere'
  <1>1. (TypeOK => Nowhere)'
    BY NowhereInHolding, PTL
  <1>2. QED
    BY <1>1

\* A step that leaves the buffers alone loses nothing.
LEMMA SameHolding == UNCHANGED <<queue, up, down, hand>> => Holding' = Holding
  BY DEF Holding

\* A pin that was in a connection whose state changes is lost for that reason.
LEMMA LostWithConnection ==
    ASSUME PinInv, NEW p \in Pins, NEW c \in Clients, peer'[c] # peer[c],
           NEW k \in Keys, k[2] = c, k[1] # "queue",
           NEW i \in 1 .. Len(Holding[k]), Holding[k][i] = p
    PROVE  Lost(p)
  <1>1. \A x \in PlacesOf(p) : x = <<k[1], c, i>>
    <2> SUFFICES ASSUME NEW x \in PlacesOf(p) PROVE x = <<k[1], c, i>>
      OBVIOUS
    <2>1. PICK l \in Keys : \E j \in 1 .. Len(Holding[l]) : Holding[l][j] = p /\ x = <<l[1], l[2], j>>
      BY Places DEF PinInv
    <2>2. PICK j \in 1 .. Len(Holding[l]) : Holding[l][j] = p /\ x = <<l[1], l[2], j>>
      BY <2>1
    <2>3. QED
      BY <2>2 DEF PinInv, Apart
  <1>2. /\ \A d \in Clients : Len(up[d]) <= SocketBuffer /\ Len(down[d]) <= SocketBuffer
        /\ SocketBuffer \in Nat
        /\ up \in [Clients -> Seq(Pins)] /\ down \in [Clients -> Seq(Pins)]
    BY Constants DEF PinInv, TypeOK
  <1>3. /\ k[1] \in {"up", "down"} => i \in 1 .. SocketBuffer
        /\ k[1] \notin {"up", "down"} => k[1] = "hand" /\ i = 1
    <2>1. ASSUME NEW d \in Clients, k = <<"up", d>>
          PROVE  i \in 1 .. SocketBuffer
      <3>1. Holding[k] = up[d]
        BY <2>1, HoldingAt
      <3>2. Len(up[d]) <= SocketBuffer /\ Len(up[d]) \in Nat
        BY <1>2
      <3>3. QED
        BY <1>2, <3>1, <3>2
    <2>2. ASSUME NEW d \in Clients, k = <<"down", d>>
          PROVE  i \in 1 .. SocketBuffer
      <3>1. Holding[k] = down[d]
        BY <2>2, HoldingAt
      <3>2. Len(down[d]) <= SocketBuffer /\ Len(down[d]) \in Nat
        BY <1>2
      <3>3. QED
        BY <1>2, <3>1, <3>2
    <2>3. ASSUME NEW w \in Workers[2], k = <<"hand", w>>
          PROVE  i = 1
      <3>1. Holding[k] = InHand(hand[w])
        BY <2>3, HoldingAt
      <3>2. \A j \in 1 .. Len(InHand(hand[w])) : j = 1
        BY DEF InHand
      <3>3. QED
        BY <3>1, <3>2
    <2>4. QED
      BY <2>1, <2>2, <2>3, KeyKinds
  <1>4. PlacesOf(p) \subseteq {<<"up", c, j>> : j \in 1 .. SocketBuffer}
                              \union {<<"down", c, j>> : j \in 1 .. SocketBuffer}
                              \union {<<"hand", c, 1>>}
    BY <1>1, <1>3
  <1>5. QED
    BY <1>4 DEF Lost

\* What is known of a pin that a step has lost.
Gone(p, k, i) == p \in Pins /\ LostFrom(Holding, Holding', p, k, i)

\* Only a step that takes pins off can have lost one.
LEMMA GoneByShrinking ==
    ASSUME PinInv, PinInv', [Next]_vars, NEW p \in Pins,
           PlacesOf(p) # {}, (PlacesOf(p) = {})'
    PROVE  /\ ByKinds
           /\ ~\E k, m \in Keys : MovesPin(Holding, Holding', k, m)
           /\ ~\E k \in Keys : \E r \in Pins : Adds(Holding, Holding', k, r)
           /\ \E k, i : Gone(p, k, i)
  <1>1. TypeOK /\ TypeOK'
    BY DEF PinInv
  <1>2. Holding \in [Keys -> Seq(Pins)] /\ Holding' \in [Keys -> Seq(Pins)]
    BY <1>1, HoldingType, HoldingTypeStep
  <1>3. ~InNone(Holding, p) /\ InNone(Holding', p)
    BY <1>1, NowhereInHolding, NowhereAfter DEF Nowhere
  <1>4. ~\E k, m \in Keys : MovesPin(Holding, Holding', k, m)
    BY <1>2, <1>3, MovingKeepsApart
  <1>5. ~\E k \in Keys : \E r \in Pins : Adds(Holding, Holding', k, r)
    BY <1>2, <1>3, AddingKeepsPins
  <1>6. ByKinds
    BY <1>1, <1>4, <1>5, StepEffect
  <1>7. PICK k, i : LostFrom(Holding, Holding', p, k, i)
    <2>1. Shrinks(Holding, Holding')
      BY <1>6, ShrinksByKinds
    <2>2. QED
      BY <1>2, <1>3, <2>1, WhatShrinkingLoses
  <1>8. QED
    BY <1>4, <1>5, <1>6, <1>7 DEF Gone, LostFrom

\* A removed client's pins, and what became of the pin taken from a ring.
LEMMA RemoveLoses ==
    ASSUME PinInv, NEW c \in Clients, NEW p, NEW k, NEW i, Gone(p, k, i), k[1] # "queue",
           up' = [up EXCEPT ![c] = <<>>], down' = [down EXCEPT ![c] = <<>>],
           hand' = hand, peer'[c] # peer[c]
    PROVE  Lost(p)
  <1>1. k[2] = c
    <2>1. /\ up \in [Clients -> Seq(Pins)] /\ down \in [Clients -> Seq(Pins)]
      BY DEF PinInv, TypeOK
    <2>2. ASSUME NEW d \in Clients, k = <<"up", d>> PROVE d = c
      BY <2>1, <2>2, HoldingAt DEF Gone, LostFrom
    <2>3. ASSUME NEW d \in Clients, k = <<"down", d>> PROVE d = c
      BY <2>1, <2>3, HoldingAt DEF Gone, LostFrom
    <2>4. ASSUME NEW w \in Workers[2], k = <<"hand", w>> PROVE FALSE
      BY <2>4, HoldingAt DEF Gone, LostFrom
    <2>5. QED
      BY <2>2, <2>3, <2>4, KeyKinds DEF Gone, LostFrom
  <1>2. QED
    BY <1>1, LostWithConnection DEF Gone, LostFrom

\* recv takes no pin away without putting it into the ring.
LEMMA PollLoses ==
    ASSUME PinInv, ByKinds, NEW s \in {1, 2}, NEW l, PollMore(s), PollSlot(s, l),
           NEW p, NEW k, NEW i, Gone(p, k, i)
    PROVE  Lost(p)
  <1> DEFINE c == fds[s][slot]
  <1>0. TypeOK
    BY DEF PinInv
  <1>1. /\ up \in [Clients -> Seq(Pins)] /\ down \in [Clients -> Seq(Pins)]
        /\ queue \in [1 .. 2 -> Seq(Pins)]
        /\ peer \in [Clients -> {"away", "open", "fin", "reset"}]
    BY <1>0 DEF TypeOK
  <1>2. s \in Stages /\ slot \in 1 .. MaxWorkers[s] /\ s \in 1 .. 2
    BY <1>0, Constants, Parts DEF PollMore, PollerOK, Stages
  <1>3. c # NoClient => c \in Clients
    BY <1>0, <1>2, Constants, Parts DEF TablesOK
  <1>4. CASE UNCHANGED <<queue, up, down, hand>>
    BY <1>4, SameHolding DEF Gone, LostFrom
  <1>5. CASE c # NoClient /\ peer[c] \in {"fin", "reset"} /\ Remove(s, c) /\ UNCHANGED queue
    <2> HIDE DEF c
    <2>1. peer'[c] # peer[c]
      BY <1>1, <1>3, <1>5 DEF Remove
    <2>2. k[1] # "queue"
      <3>1. \A q \in 1 .. 2 : k # <<"queue", q>>
        BY <1>5, HoldingAt DEF Gone, LostFrom
      <3>2. QED
        BY <3>1, KeyKinds DEF Gone, LostFrom
    <2>3. QED
      BY <1>3, <1>5, <2>1, <2>2, RemoveLoses DEF Remove
  <1>6. CASE c # NoClient /\ up[c] # <<>> /\ Put(s, Head(up[c]))
    <2> HIDE DEF c
    <2>1. queue' = [queue EXCEPT ![s] = Append(queue[s], Head(up[c]))]
      BY <1>6 DEF Put, PollMore
    <2>2. /\ queue'[s] = Append(queue[s], Head(up[c])) /\ queue[s] \in Seq(Pins)
          /\ Head(up[c]) \in Pins
      BY <1>1, <1>2, <1>3, <1>6, <2>1
    <2>3. Shrunk(queue[s], Append(queue[s], Head(up[c])))
      BY <1>2, <2>2 DEF ByKinds
    <2>4. QED
      BY <2>2, <2>3 DEF Shrunk
  <1>7. QED
    BY <1>4, <1>5, <1>6 DEF PollSlot, RemoveReset, UnknownError, net, tables

\* send takes a pin out of a ring for good only when its receiver does not get it.
LEMMA SendLoses ==
    ASSUME PinInv, ByKinds, NEW s \in {2, 3}, SendMore(s), SendSlot(s),
           pc = IF s = 2 THEN "send2" ELSE "send3",
           NEW p, NEW k, NEW i, Gone(p, k, i)
    PROVE  Lost(p)
  <1> DEFINE c == fds[s][slot]
  <1>0. TypeOK
    BY DEF PinInv
  <1>1. /\ up \in [Clients -> Seq(Pins)] /\ down \in [Clients -> Seq(Pins)]
        /\ queue \in [1 .. 2 -> Seq(Pins)]
        /\ peer \in [Clients -> {"away", "open", "fin", "reset"}]
    BY <1>0 DEF TypeOK
  <1>2. /\ s \in Stages /\ slot \in 1 .. MaxWorkers[s] /\ s - 1 \in 1 .. 2
        /\ queue[s - 1] # <<>>
    BY <1>0, Constants, Parts DEF SendMore, PollerOK, Stages, Empty
  <1>3. c # NoClient => c \in Clients
    BY <1>0, <1>2, Constants, Parts DEF TablesOK
  \* A ring that changed lost the pin at its head.
  <1>4. ASSUME NEW q \in 1 .. 2, k = <<"queue", q>>, UNCHANGED queue \/ Pop(s - 1),
               peer[c] # "open" \/ Len(down[c]) = SocketBuffer
        PROVE  Lost(p)
    <2>1. queue'[q] # queue[q] /\ (queue'[q] = Tail(queue[q]) => p = Head(queue[q]))
      BY <1>4, HoldingAt DEF Gone, LostFrom
    <2>2. q = s - 1 /\ queue'[q] = Tail(queue[q])
      BY <1>1, <1>2, <1>4, <2>1 DEF Pop
    <2>3. Head(queue[s - 1]) = p
      BY <2>1, <2>2
    <2>4. /\ pc \in {"send2", "send3"} /\ s = IF pc = "send2" THEN 2 ELSE 3
      OBVIOUS
    <2>5. QED
      BY <1>4, <2>3, <2>4 DEF Lost
  <1>5. CASE UNCHANGED <<queue, up, down, hand>>
    BY <1>5, SameHolding DEF Gone, LostFrom
  <1>6. CASE /\ UNCHANGED <<up, down, hand>> /\ Pop(s - 1)
             /\ peer[c] # "open" \/ Len(down[c]) = SocketBuffer
    <2>1. PICK q \in 1 .. 2 : k = <<"queue", q>>
      <3>1. up' = up /\ down' = down /\ hand' = hand
        BY <1>6
      <3>2. \A d \in Clients : k # <<"up", d>> /\ k # <<"down", d>>
        BY ZenonT(60), <3>1, HoldingAt DEF Gone, LostFrom
      <3>3. \A w \in Workers[2] : k # <<"hand", w>>
        BY <3>1, HoldingAt DEF Gone, LostFrom
      <3>4. QED
        BY <3>2, <3>3, KeyKinds DEF Gone, LostFrom
    <2>2. QED
      BY <1>4, <1>6, <2>1
  <1>7. CASE c # NoClient /\ peer[c] = "reset" /\ Remove(s, c) /\ (UNCHANGED queue \/ Pop(s - 1))
    <2>1. CASE \E q \in 1 .. 2 : k = <<"queue", q>>
      BY <1>4, <1>7, <2>1
    <2>2. CASE ~\E q \in 1 .. 2 : k = <<"queue", q>>
      <3> HIDE DEF c
      <3>1. peer'[c] # peer[c]
        BY <1>1, <1>3, <1>7 DEF Remove
      <3>2. k[1] # "queue"
        BY <2>2, KeyKinds DEF Gone, LostFrom
      <3>3. QED
        BY <1>3, <1>7, <3>1, <3>2, RemoveLoses DEF Remove
    <2>3. QED
      BY <2>1, <2>2
  <1>8. CASE /\ c # NoClient
             /\ down' = [down EXCEPT ![c] = Append(@, Head(queue[s - 1]))]
    <2> HIDE DEF c
    <2>1. /\ down'[c] = Append(down[c], Head(queue[s - 1])) /\ down[c] \in Seq(Pins)
          /\ Head(queue[s - 1]) \in Pins
      BY <1>1, <1>2, <1>3, <1>8
    <2>2. Shrunk(down[c], Append(down[c], Head(queue[s - 1])))
      BY <1>3, <1>8, <2>1 DEF ByKinds
    <2>3. QED
      BY <2>1, <2>2 DEF Shrunk
  <1>9. QED
    BY <1>5, <1>6, <1>7, <1>8 DEF SendSlot, RemoveReset, UnknownError, net, tables

\* A connection that ends loses what is in its sockets.
LEMMA LeaveLoses ==
    ASSUME PinInv, NEW c \in Clients, Leave(c) \/ ResetArrives(c),
           NEW p, NEW k, NEW i, Gone(p, k, i)
    PROVE  Lost(p)
  <1>1. /\ up \in [Clients -> Seq(Pins)] /\ down \in [Clients -> Seq(Pins)]
        /\ hand \in [Workers[2] -> Pins \union {NoPin}]
        /\ peer \in [Clients -> {"away", "open", "fin", "reset"}]
    BY DEF PinInv, TypeOK
  <1>2. peer'[c] # peer[c]
    BY <1>1 DEF Leave, ResetArrives
  <1>3. /\ queue' = queue
        /\ \A d \in Clients \ {c} : up'[d] = up[d] /\ down'[d] = down[d]
        /\ \A w \in Workers[2] \ {c} : hand'[w] = hand[w]
    BY <1>1 DEF Leave, ResetArrives
  <1>4. k[2] = c /\ k[1] # "queue"
    <2>1. \A q \in 1 .. 2 : k # <<"queue", q>>
      BY <1>3, HoldingAt DEF Gone, LostFrom
    <2>2. ASSUME NEW d \in Clients, k = <<"up", d>> PROVE d = c
      BY ZenonT(60), <1>3, <2>2, HoldingAt DEF Gone, LostFrom
    <2>3. ASSUME NEW d \in Clients, k = <<"down", d>> PROVE d = c
      BY ZenonT(60), <1>3, <2>3, HoldingAt DEF Gone, LostFrom
    <2>4. \A w \in Workers[2] : k = <<"hand", w>> => w = c
      BY <1>3, HoldingAt DEF Gone, LostFrom
    <2>5. QED
      BY <2>1, <2>2, <2>3, <2>4, KeyKinds DEF Gone, LostFrom
  <1>5. QED
    BY <1>2, <1>4, LostWithConnection DEF Gone, LostFrom

\* The last stage has checked the pin it takes.
LEMMA CheckLoses ==
    ASSUME PinInv, NEW w \in Workers[3], CheckPin(w),
           NEW p, NEW k, NEW i, Gone(p, k, i)
    PROVE  Lost(p)
  <1>0. w \in Clients
    BY Constants DEF Stages
  <1>1. down \in [Clients -> Seq(Pins)]
    BY DEF PinInv, TypeOK
  <1>2. /\ \A d \in Clients \ {w} : down'[d] = down[d]
        /\ down'[w] = Tail(down[w]) /\ down[w] # <<>>
        /\ queue' = queue /\ up' = up /\ hand' = hand
    BY <1>0, <1>1 DEF CheckPin
  <1>3. k = <<"down", w>>
    <2>1. \A q \in 1 .. 2 : k # <<"queue", q>>
      BY <1>2, HoldingAt DEF Gone, LostFrom
    <2>2. \A d \in Clients : k # <<"up", d>> /\ (k = <<"down", d>> => d = w)
      BY <1>2, HoldingAt DEF Gone, LostFrom
    <2>3. \A v \in Workers[2] : k # <<"hand", v>>
      BY <1>2, HoldingAt DEF Gone, LostFrom
    <2>4. QED
      BY <2>1, <2>2, <2>3, KeyKinds DEF Gone, LostFrom
  <1>4. Head(down[w]) = p
    BY <1>0, <1>2, <1>3, HoldingAt DEF Gone, LostFrom
  <1>5. QED
    BY <1>2, <1>4 DEF Lost

\* A step of the poller that sends is at its pc.
LEMMA PollerAt ==
    ASSUME Poller
    PROVE  \/ \E l \in PollerPC : LeaveLoop(l) /\ KeepAll
           \/ \E s \in {1, 2} : \E l \in PollerPC : PollMore(s) /\ PollSlot(s, l)
           \/ \E s \in {2, 3} : /\ SendMore(s) /\ SendSlot(s)
                                /\ pc = IF s = 2 THEN "send2" ELSE "send3"
  <1>1. CASE SendSecond \/ SendThird
    BY <1>1 DEF SendSecond, SendThird, PollerPC
  <1>2. CASE ~(SendSecond \/ SendThird)
    <2>1. EnterFirst \/ EnterSecond \/ EnterThird \/ PollFirst \/ PollSecond
      BY <1>2 DEF Poller
    <2>2. QED
      BY <2>1 DEF EnterFirst, EnterSecond, EnterThird, PollFirst, PollSecond, PollerPC
  <1>3. QED
    BY <1>1, <1>2

\* A pin that is nowhere after a step was lost by one of the steps above.
LEMMA VanishStep ==
    ASSUME PinInv, PinInv', [Next]_vars, NEW p \in Pins,
           PlacesOf(p) # {}, (PlacesOf(p) = {})'
    PROVE  Lost(p)
  <1>1. PICK k, i : Gone(p, k, i)
    BY GoneByShrinking
  <1>2. /\ ByKinds
        /\ ~\E l, m \in Keys : MovesPin(Holding, Holding', l, m)
        /\ ~\E l \in Keys : \E r \in Pins : Adds(Holding, Holding', l, r)
    BY GoneByShrinking
  <1>3. ~UNCHANGED <<queue, up, down, hand>>
    BY <1>1, SameHolding DEF Gone, LostFrom
  <1>4. ASSUME Poller PROVE Lost(p)
    <2>1. ASSUME NEW l \in PollerPC, LeaveLoop(l), KeepAll PROVE FALSE
      BY <1>3, <2>1 DEF KeepAll, net
    <2>2. QED
      BY <1>1, <1>2, <1>4, <2>1, PollerAt, PollLoses, SendLoses
  <1>5. ASSUME NEW s \in Stages, NEW c \in Workers[s], Accept(s, c) PROVE FALSE
    BY <1>3, <1>5 DEF Accept
  <1>6. ASSUME NEW c \in Clients, Leave(c) \/ ResetArrives(c) PROVE Lost(p)
    BY <1>1, <1>6, LeaveLoses
  <1>7. ASSUME NEW w \in Workers[1], MakePin(w) PROVE FALSE
    <2>1. TypeOK /\ w \in Clients
      BY Constants DEF Stages, PinInv
    <2>2. <<"up", w>> \in Keys
      BY <2>1, KeyKinds
    <2>3. QED
      BY <1>2, <1>7, <2>1, <2>2, MakeEffect
  <1>8. ASSUME NEW w \in Workers[2], TakePin(w) \/ PassPin(w) PROVE FALSE
    <2>1. TypeOK /\ w \in Clients
      BY Constants DEF Stages, PinInv
    <2>2. <<"up", w>> \in Keys /\ <<"down", w>> \in Keys /\ <<"hand", w>> \in Keys
      BY <2>1, KeyKinds
    <2>3. QED
      BY <1>2, <1>8, <2>1, <2>2, HandEffect
  <1>9. ASSUME NEW w \in Workers[3], CheckPin(w) PROVE Lost(p)
    BY <1>1, <1>9, CheckLoses
  <1>10. CASE UNCHANGED vars
    BY <1>3, <1>10 DEF vars
  <1>11. QED
    BY <1>4, <1>5, <1>6, <1>7, <1>8, <1>9, <1>10 DEF Next

\* A pin leaves the server's buffers only for a reason the code has: it has been checked,
\* its connection is over, or the worker it was meant for cannot take it.
THEOREM PinsVanishOnlyForAReason == Spec => PinsVanishForAReason
  <1>1. PinInv /\ PinInv' /\ [Next]_vars =>
            [\A p \in Pins : PlacesOf(p) # {} /\ PlacesOf(p)' = {} => Lost(p)]_vars
    BY VanishStep
  <1>2. QED
    BY <1>1, PinInit, PinStep, PTL DEF Spec, PinsVanishForAReason
=============================================================================
