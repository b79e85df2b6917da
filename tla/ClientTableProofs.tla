------------------------- MODULE ClientTableProofs --------------------------
(***************************************************************************)
(* Proofs about ClientTable, for every number of clients and descriptors   *)
(* and all lengths of the arrays: the variables keep their types, and the  *)
(* workers that are in their array are counted, although shutdown commands *)
(* free slots without the mutex and without decrementing the size.         *)
(* Without shutdown commands (Targets = {}) every open descriptor has one  *)
(* owner and nobody else is disconnected; with them neither is true.       *)
(***************************************************************************)
EXTENDS ClientTable, FiniteSetTheorems, TLAPS

\* The threads look at slots of their arrays, and what main has accepted is the
\* client it takes it for, or nobody any more.
MainPlace ==
    /\ main.pc # "accept" =>
          main.fd \in Fds /\ sock[main.fd] \in ClientsOf[main.t] \union {NoClient}
    /\ main.pc \in {"store", "put"} => main.i \in Slots(main.t)
PollPlace == poll.pc \in {"alive", "use", "drop", "close"} => poll.i \in Slots("worker")
LogsPlace == logs.pc \in {"send", "drop"} => logs.i \in Slots("logs")
MgrPlace ==
    /\ mgr.pc \notin {"idle", "look", "stopped"} => mgr.i \in Slots("manager")
    /\ mgr.pc \in {"shut", "clear"} => mgr.k \in Slots(mgr.t)

Positions == MainPlace /\ PollPlace /\ LogsPlace /\ MgrPlace

\* Main and the poller have the workers' mutex while they work on the array.
Mutexes ==
    /\ main.pc \in {"scan", "store", "put"} /\ main.t = "worker" => lock["worker"] = "main"
    /\ poll.pc \notin {"idle", "stopped"} => lock["worker"] = "poll"

\* The size counts the used slots, the one main is about to fill, and the one
\* the poller has freed; a slot the poller looks at is counted even if a command
\* has freed it meanwhile.
WorkerSize ==
    LET used == Used("worker")
        size == arr_size["worker"] IN
    /\ size >= Cardinality(used)
    /\ main.pc = "store" /\ main.t = "worker" => main.n = size
    /\ main.pc = "put" /\ main.t = "worker" => size >= Cardinality(used) + 1
    /\ poll.pc \in {"alive", "use", "drop"} => size >= Cardinality(used \ {poll.i}) + 1
    /\ poll.pc = "close" => size >= Cardinality(used) + 1

\* Only the managers handler takes managers off the size, and only after it has
\* seen that there is one.
ManagerSize ==
    /\ mgr.pc \in {"recv", "drop", "find", "shut", "clear", "reply"} => arr_size["manager"] > 0
    /\ mgr.pc = "close" => mgr.n > 0

TableInv == TypeOK /\ Positions /\ Mutexes /\ WorkerSize /\ ManagerSize

-----------------------------------------------------------------------------
(* The parts of TypeOK, and what the assumptions say.                      *)

\* What the assumptions say of clients, arrays and descriptors.
LEMMA Constants ==
    /\ \A t \in Types : MaxClients[t] \in Nat \ {0} /\ ClientsOf[t] \subseteq Clients
    /\ NoClient \notin Clients /\ Targets \subseteq Clients
    /\ \A c \in Clients : TypeOf(c) \in Types /\ c \in ClientsOf[TypeOf(c)]
    /\ MaxFd \in Nat /\ NoFd \notin Fds
<1>1. \A c \in Clients : \E t \in Types : c \in ClientsOf[t]
      BY DEF Clients
<1>2. ASSUME NEW c \in Clients
      PROVE  TypeOf(c) \in Types /\ c \in ClientsOf[TypeOf(c)]
      BY <1>1 DEF TypeOf
<1>3. \A t \in Types : MaxClients[t] \in Nat \ {0} /\ ClientsOf[t] \subseteq Clients
      BY TableAssumption DEF Clients
<1>4. MaxFd \in Nat /\ NoFd \notin Fds
      BY TableAssumption DEF Fds, NoFd
<1> QED BY <1>2, <1>3, <1>4, TableAssumption

FdsOK(F) ==
    /\ F = [t \in Types |-> F[t]]
    /\ \A t \in Types : F[t] \in [Slots(t) -> Fds \union {NoFd}]

TablesOK ==
    /\ FdsOK(fds) /\ info = [t \in Types |-> info[t]]
    /\ \A t \in Types : info[t] \in [Slots(t) -> ClientsOf[t] \union {NoClient}]
    /\ arr_size \in [Types -> Nat]

KernelOK ==
    /\ sock \in [Fds -> Clients \union {NoClient}]
    /\ conn \in [Clients -> {"away", "open", "left"}]

LockOK == lock \in [Types -> {"nobody", "main", "poll"}]
MainOK == main \in [pc : MainPC, t : Types, i : Nat, fd : Fds \union {NoFd}, n : Nat]
PollOK == poll \in [pc : PollPC, i : Nat, fd : Fds \union {NoFd}]
LogsOK == logs \in [pc : LogsPC, i : Nat, fd : Fds \union {NoFd}]
MgrOK == mgr \in [pc : MgrPC, i : Nat, fd : Fds \union {NoFd}, n : Nat, t : Types,
                  k : Nat, target : Clients \union {NoClient}]

\* TypeOK is the conjunction of its parts, before and after a step.
LEMMA Parts ==
    /\ TypeOK => /\ TablesOK /\ KernelOK /\ LockOK /\ MainOK /\ PollOK /\ LogsOK /\ MgrOK
                 /\ aborted \in BOOLEAN
    /\ TablesOK' /\ KernelOK' /\ LockOK' /\ MainOK' /\ PollOK' /\ LogsOK' /\ MgrOK'
          /\ aborted' \in BOOLEAN => TypeOK'
  BY DEF TypeOK, TablesOK, FdsOK, KernelOK, LockOK, MainOK, PollOK, LogsOK, MgrOK

\* Storing a descriptor, or none, in a slot.
LEMMA SlotUpdate ==
    ASSUME NEW F, FdsOK(F), NEW t \in Types, NEW i, NEW v \in Fds \union {NoFd}
    PROVE  FdsOK([F EXCEPT ![t][i] = v])
  BY DEF FdsOK

\* close can only disconnect.
LEMMA CloseKeeps ==
    ASSUME KernelOK, NEW f, Close(f)
    PROVE  KernelOK' /\ \A g \in Fds : sock'[g] \in {sock[g], NoClient}
<1>1. CASE f \in Fds /\ sock[f] # NoClient
  <2>1. sock[f] \in Clients
        BY <1>1 DEF KernelOK
  <2> QED BY <1>1, <2>1 DEF Close, KernelOK
<1>2. CASE ~(f \in Fds /\ sock[f] # NoClient)
      BY <1>2 DEF Close, KernelOK, kernel
<1> QED BY <1>1, <1>2

\* The used slots of an array are finitely many.
LEMMA UsedFinite == \A t \in Types : IsFiniteSet(Used(t)) /\ Cardinality(Used(t)) \in Nat
<1>1. ASSUME NEW t \in Types PROVE IsFiniteSet(Used(t))
  <2>1. IsFiniteSet(Slots(t))
        BY Constants, FS_Interval DEF Slots
  <2> QED BY <2>1, FS_Subset DEF Used
<1> QED BY <1>1, FS_CardinalityType

\* Locking and unlocking keep the types.
LEMMA LockTypes ==
    ASSUME LockOK, NEW t \in Types, NEW me \in {"main", "poll"}
    PROVE  /\ Lock(t, me) => LockOK'
           /\ Unlock(t) => LockOK'
  BY DEF LockOK, Lock, Unlock

-----------------------------------------------------------------------------
(* Types and positions, one lemma per thread.                              *)

\* The steps of main keep the types ...
LEMMA MainTypes ==
    ASSUME TypeOK, Positions, Main
    PROVE  TypeOK' /\ Positions'
<1>1. /\ TablesOK /\ KernelOK /\ LockOK /\ MainOK /\ PollOK /\ LogsOK /\ MgrOK
      /\ aborted \in BOOLEAN
      BY Parts
<1>2. UNCHANGED <<poll, logs, mgr>> /\ aborted' \in BOOLEAN
      BY <1>1 DEF Main, Accept, TurnAway, LockTable, SlotUsed, NoSlot, SlotFree, StoreSize,
         PutFd
<1>3. PollOK' /\ LogsOK' /\ MgrOK' /\ PollPlace' /\ LogsPlace' /\ MgrPlace'
      BY <1>1, <1>2 DEF PollOK, LogsOK, MgrOK, Positions, PollPlace, LogsPlace, MgrPlace
<1>4. SUFFICES TablesOK' /\ KernelOK' /\ LockOK' /\ MainOK' /\ MainPlace'
      BY <1>2, <1>3, Parts DEF Positions
<1>5. MainIdle \in [pc : MainPC, t : Types, i : Nat, fd : Fds \union {NoFd}, n : Nat]
      /\ MainIdle.pc = "accept"
      BY DEF MainIdle, MainPC, Types
<1>6. CASE \E c \in Clients : Accept(c)
  <2>1. PICK c \in Clients : Accept(c)
        BY <1>6
  <2>2. PICK f \in Fds : /\ sock' = [sock EXCEPT ![f] = c]
                         /\ main' = [pc |-> "lock", t |-> TypeOf(c), i |-> 1, fd |-> f, n |-> 0]
        BY <2>1 DEF Accept
  <2>3. TablesOK' /\ LockOK'
        BY <1>1, <2>1 DEF Accept, TablesOK, FdsOK, LockOK, table
  <2>4. KernelOK'
        BY <1>1, <2>1, <2>2 DEF Accept, KernelOK
  <2>5. MainOK' /\ MainPlace'
        BY <1>1, <2>2, Constants DEF MainOK, MainPC, MainPlace, KernelOK
  <2> QED BY <2>3, <2>4, <2>5
<1>7. CASE TurnAway \/ NoSlot
  <2>1. TablesOK' /\ LockOK'
        BY <1>1, <1>7, LockTypes DEF TurnAway, NoSlot, TablesOK, FdsOK, LockOK, MainOK, table
  <2>2. KernelOK'
        BY <1>1, <1>7, CloseKeeps DEF TurnAway, NoSlot
  <2>3. MainOK' /\ MainPlace'
        BY <1>5, <1>7 DEF TurnAway, NoSlot, MainOK, MainPlace
  <2> QED BY <2>1, <2>2, <2>3
<1>8. CASE LockTable \/ SlotUsed \/ SlotFree
  <2>1. TablesOK' /\ KernelOK' /\ UNCHANGED <<sock, arr_size>>
        BY <1>1, <1>8 DEF LockTable, SlotUsed, SlotFree, TablesOK, FdsOK, KernelOK, table, kernel
  <2>2. LockOK'
        BY <1>1, <1>8, LockTypes DEF LockTable, SlotUsed, SlotFree, LockOK, MainOK
  <2>3. CASE LockTable
        BY <1>1, <2>1, <2>2, <2>3 DEF LockTable, MainOK, MainPC, MainPlace, Positions
  <2>4. CASE SlotUsed
        BY <1>1, <2>1, <2>2, <2>4 DEF SlotUsed, MainOK, MainPC, MainPlace, Positions
  <2>5. CASE SlotFree
    <3>1. main.pc = "scan" /\ main.i \in Slots(main.t) /\ arr_size[main.t] \in Nat
          BY <1>1, <2>5 DEF SlotFree, MainOK, TablesOK
    <3>2. CASE main' = [main EXCEPT !.pc = "store", !.n = arr_size[main.t]]
          BY <1>1, <2>1, <2>2, <3>1, <3>2 DEF MainOK, MainPC, MainPlace, Positions
    <3>3. CASE UNCHANGED main
          BY <1>1, <2>1, <2>2, <3>3 DEF MainOK, MainPlace, Positions
    <3> QED BY <2>5, <3>2, <3>3 DEF SlotFree
  <2> QED BY <1>8, <2>3, <2>4, <2>5
<1>9. CASE StoreSize
  <2>1. KernelOK' /\ LockOK' /\ FdsOK(fds)' /\ UNCHANGED sock
        BY <1>1, <1>9 DEF StoreSize, KernelOK, LockOK, FdsOK, TablesOK, kernel
  <2>2. sock[main.fd] \in ClientsOf[main.t] \union {NoClient} /\ main.t \in Types /\ main.n \in Nat
        BY <1>1, <1>9 DEF StoreSize, Positions, MainPlace, MainOK
  <2>3. TablesOK'
    <3>1. arr_size' \in [Types -> Nat]
          BY <1>1, <1>9, <2>2 DEF StoreSize, TablesOK
    <3>2. info' = [t \in Types |-> info'[t]]
          /\ \A t \in Types : info'[t] \in [Slots(t) -> ClientsOf[t] \union {NoClient}]
          BY <1>1, <1>9, <2>2 DEF StoreSize, TablesOK
    <3> QED BY <2>1, <3>1, <3>2 DEF TablesOK
  <2>4. MainOK' /\ MainPlace'
        BY <1>1, <1>9, <2>1 DEF StoreSize, MainOK, MainPC, MainPlace, Positions
  <2> QED BY <2>1, <2>3, <2>4
<1>10. CASE PutFd
  <2>1. main.fd \in Fds /\ main.t \in Types
        BY <1>1, <1>10 DEF PutFd, Positions, MainPlace, MainOK
  <2>2. TablesOK'
        BY <1>1, <1>10, <2>1, SlotUpdate DEF PutFd, TablesOK
  <2>3. KernelOK' /\ LockOK'
        BY <1>1, <1>10, <2>1, LockTypes DEF PutFd, KernelOK, kernel
  <2>4. MainOK' /\ MainPlace'
        BY <1>5, <1>10 DEF PutFd, MainOK, MainPlace
  <2> QED BY <2>2, <2>3, <2>4
<1> QED BY <1>6, <1>7, <1>8, <1>9, <1>10 DEF Main

\* ... the poller's ...
LEMMA PollTypes ==
    ASSUME TypeOK, WorkerSize, Positions, Poller
    PROVE  TypeOK' /\ Positions'
<1>1. /\ TablesOK /\ KernelOK /\ LockOK /\ MainOK /\ PollOK /\ LogsOK /\ MgrOK
      /\ aborted \in BOOLEAN
      BY Parts
<1>2. UNCHANGED <<main, logs, mgr, aborted>>
      BY DEF Poller, PollStart, PollEnd, PollLook, PollAlive, PollUse, PollDrop, PollClose,
         PollStop
<1>3. MainOK' /\ LogsOK' /\ MgrOK' /\ LogsPlace' /\ MgrPlace' /\ aborted' \in BOOLEAN
      BY <1>1, <1>2 DEF MainOK, LogsOK, MgrOK, Positions, LogsPlace, MgrPlace
<1>4. SUFFICES TablesOK' /\ KernelOK' /\ LockOK' /\ PollOK' /\ PollPlace'
               /\ \A g \in Fds : sock'[g] \in {sock[g], NoClient}
  <2>1. MainPlace'
        BY <1>2, <1>4 DEF MainPlace, Positions
  <2> QED BY <1>3, <1>4, <2>1, Parts DEF Positions
<1>5. Idle \in [pc : PollPC, i : Nat, fd : Fds \union {NoFd}] /\ Idle.pc = "idle"
      BY DEF Idle, PollPC
<1>6. NextWorker => PollOK' /\ PollPlace'
      BY <1>1 DEF NextWorker, PollOK, PollPC, PollPlace
<1>7. CASE PollStart \/ PollEnd \/ PollLook \/ PollAlive \/ PollUse \/ PollStop
  <2>1. TablesOK' /\ KernelOK' /\ \A g \in Fds : sock'[g] \in {sock[g], NoClient}
        BY <1>1, <1>7 DEF PollStart, PollEnd, PollLook, PollAlive, PollUse, PollStop,
           TablesOK, FdsOK, KernelOK, table, kernel
  <2>2. CASE PollStart
        BY <1>1, <2>1, <2>2, LockTypes DEF PollStart, PollOK, PollPC, PollPlace, Types
  <2>3. CASE PollEnd
        BY <1>1, <1>5, <2>1, <2>3, LockTypes DEF PollEnd, PollOK, PollPlace, Types
  <2>4. CASE PollLook
    <3>1. LockOK'
          BY <1>1, <2>4 DEF PollLook, LockOK
    <3>2. fds["worker"][poll.i] \in Fds \union {NoFd} /\ poll.i \in Slots("worker")
          BY <1>1, <2>4 DEF PollLook, TablesOK, FdsOK, Types
    <3>3. CASE NextWorker
          BY <1>6, <2>1, <3>1, <3>3
    <3>4. CASE poll' = [poll EXCEPT !.pc = "alive", !.fd = fds["worker"][poll.i]]
          BY <1>1, <2>1, <3>1, <3>2, <3>4 DEF PollOK, PollPC, PollPlace
    <3> QED BY <2>4, <3>3, <3>4 DEF PollLook
  <2>5. CASE PollAlive \/ PollUse
    <3>1. LockOK' /\ PollPlace /\ poll.pc \in {"alive", "use"}
          BY <1>1, <2>5 DEF PollAlive, PollUse, LockOK, Positions
    <3>2. CASE NextWorker
          BY <1>6, <2>1, <3>1, <3>2
    <3>3. CASE \E l \in {"use", "drop", "stop"} : poll' = [poll EXCEPT !.pc = l]
          BY <1>1, <2>1, <3>1, <3>3 DEF PollOK, PollPC, PollPlace
    <3> QED BY <2>5, <3>2, <3>3 DEF PollAlive, PollUse
  <2>6. CASE PollStop
        BY <1>1, <2>1, <2>6, LockTypes DEF PollStop, PollOK, PollPC, PollPlace, Types
  <2> QED BY <1>7, <2>2, <2>3, <2>4, <2>5, <2>6
<1>8. CASE PollDrop
  <2>1. TablesOK'
        BY <1>1, <1>8, SlotUpdate DEF PollDrop, TablesOK, Types
  <2>2. KernelOK' /\ LockOK' /\ \A g \in Fds : sock'[g] \in {sock[g], NoClient}
        BY <1>1, <1>8 DEF PollDrop, KernelOK, LockOK, kernel
  <2>3. PollOK' /\ PollPlace'
        BY <1>1, <1>8 DEF PollDrop, PollOK, PollPC, PollPlace, Positions
  <2> QED BY <2>1, <2>2, <2>3
<1>9. CASE PollClose
  <2>1. KernelOK' /\ \A g \in Fds : sock'[g] \in {sock[g], NoClient}
        BY <1>1, <1>9, CloseKeeps DEF PollClose
  <2>2. PollOK' /\ PollPlace' /\ LockOK'
        BY <1>1, <1>6, <1>9 DEF PollClose, LockOK
  <2>3. TablesOK'
    <3>1. arr_size["worker"] \in Nat /\ Cardinality(Used("worker")) \in Nat
          BY <1>1, UsedFinite DEF TablesOK, Types
    <3>2. arr_size["worker"] >= Cardinality(Used("worker")) + 1
          BY <1>9 DEF PollClose, WorkerSize
    <3>3. arr_size["worker"] - 1 \in Nat
          BY <3>1, <3>2
    <3> QED BY <1>1, <1>9, <3>3 DEF PollClose, TablesOK, FdsOK
  <2> QED BY <2>1, <2>2, <2>3
<1> QED BY <1>7, <1>8, <1>9 DEF Poller

\* ... the logs sender's ...
LEMMA LogsTypes ==
    ASSUME TypeOK, Positions, LogsSender
    PROVE  TypeOK' /\ Positions'
<1>1. /\ TablesOK /\ KernelOK /\ LockOK /\ MainOK /\ PollOK /\ LogsOK /\ MgrOK
      /\ aborted \in BOOLEAN
      BY Parts
<1>2. UNCHANGED <<lock, main, poll, mgr, aborted>>
      BY DEF LogsSender, SendStart, SendLook, SendLog, SendDrop, SendClose
<1>3. /\ LockOK' /\ MainOK' /\ PollOK' /\ MgrOK' /\ PollPlace' /\ MgrPlace'
      /\ aborted' \in BOOLEAN
      BY <1>1, <1>2 DEF LockOK, MainOK, PollOK, MgrOK, Positions, PollPlace, MgrPlace
<1>4. SUFFICES TablesOK' /\ KernelOK' /\ LogsOK' /\ LogsPlace'
               /\ \A g \in Fds : sock'[g] \in {sock[g], NoClient}
  <2>1. MainPlace'
        BY <1>2, <1>4 DEF MainPlace, Positions
  <2> QED BY <1>3, <1>4, <2>1, Parts DEF Positions
<1>5. NextCollector => LogsOK' /\ LogsPlace'
      BY <1>1 DEF NextCollector, LogsOK, LogsPC, LogsPlace
<1>6. CASE SendStart \/ SendLook \/ SendLog
  <2>1. TablesOK' /\ KernelOK' /\ \A g \in Fds : sock'[g] \in {sock[g], NoClient}
        BY <1>1, <1>6 DEF SendStart, SendLook, SendLog, TablesOK, FdsOK, KernelOK, table, kernel
  <2>2. CASE SendStart
        BY <1>1, <2>1, <2>2 DEF SendStart, LogsOK, LogsPC, LogsPlace
  <2>3. CASE SendLook
    <3>1. CASE logs' = Idle
          BY <1>1, <2>1, <3>1 DEF Idle, LogsOK, LogsPC, LogsPlace
    <3>2. CASE logs.i \in Slots("logs") /\ logs' = [logs EXCEPT !.pc = "send", !.fd = fds["logs"][logs.i]]
      <4>1. fds["logs"][logs.i] \in Fds \union {NoFd}
            BY <1>1, <3>2 DEF TablesOK, FdsOK, Types
      <4> QED BY <1>1, <2>1, <3>2, <4>1 DEF LogsOK, LogsPC, LogsPlace
    <3> QED BY <1>5, <2>1, <2>3, <3>1, <3>2 DEF SendLook
  <2>4. CASE SendLog
        BY <1>1, <1>5, <2>1, <2>4 DEF SendLog, LogsOK, LogsPC, LogsPlace, Positions
  <2> QED BY <1>6, <2>2, <2>3, <2>4
<1>7. CASE SendDrop
  <2>1. TablesOK'
        BY <1>1, <1>7, SlotUpdate DEF SendDrop, TablesOK, Types
  <2>2. KernelOK' /\ \A g \in Fds : sock'[g] \in {sock[g], NoClient}
        BY <1>1, <1>7 DEF SendDrop, KernelOK, kernel
  <2>3. fds["logs"][logs.i] \in Fds \union {NoFd}
        BY <1>1, <1>7 DEF SendDrop, Positions, LogsPlace, TablesOK, FdsOK, Types
  <2>4. LogsOK' /\ LogsPlace'
        BY <1>1, <1>7, <2>3 DEF SendDrop, LogsOK, LogsPC, LogsPlace
  <2> QED BY <2>1, <2>2, <2>4
<1>8. CASE SendClose
  <2>1. KernelOK' /\ \A g \in Fds : sock'[g] \in {sock[g], NoClient}
        BY <1>1, <1>8, CloseKeeps DEF SendClose
  <2>2. TablesOK' /\ LogsOK' /\ LogsPlace'
        BY <1>1, <1>5, <1>8 DEF SendClose, TablesOK, FdsOK, table
  <2> QED BY <2>1, <2>2
<1> QED BY <1>6, <1>7, <1>8 DEF LogsSender

\* ... a client that leaves ...
LEMMA LeaveTypes ==
    ASSUME TypeOK, Positions, NEW c \in Clients, Leave(c)
    PROVE  TypeOK' /\ Positions'
<1>1. KernelOK'
      BY Parts DEF Leave, KernelOK
<1> QED
    BY <1>1, Parts DEF Leave, table, TablesOK, FdsOK, LockOK, MainOK, PollOK, LogsOK, MgrOK,
       Positions, MainPlace, PollPlace, LogsPlace, MgrPlace

\* The manager thread begins each of its rounds in a state of its type.
LEMMA MgrRounds ==
    /\ MgrIdle \in [pc : MgrPC, i : Nat, fd : Fds \union {NoFd}, n : Nat, t : Types,
                    k : Nat, target : Clients \union {NoClient}]
    /\ MgrIdle.pc = "idle"
    /\ NextManager => mgr'.pc = "look"
<1>1. /\ MgrIdle \in [pc : MgrPC, i : Nat, fd : Fds \union {NoFd}, n : Nat, t : Types,
                      k : Nat, target : Clients \union {NoClient}]
      /\ MgrIdle.pc = "idle"
      BY DEF MgrIdle, MgrPC, Types
<1> QED BY <1>1 DEF NextManager

\* ... and the managers' poller's.
LEMMA MgrTypes ==
    ASSUME TypeOK, ManagerSize, Positions, Manager
    PROVE  TypeOK' /\ Positions'
<1>1. /\ TablesOK /\ KernelOK /\ LockOK /\ MainOK /\ PollOK /\ LogsOK /\ MgrOK
      /\ aborted \in BOOLEAN
      BY Parts
<1>2. UNCHANGED <<lock, main, poll, logs, aborted>>
      BY DEF Manager, MgrStart, MgrLook, MgrRecv, MgrDrop, MgrClose, MgrNotHere, MgrOther,
         MgrFound, MgrShut, MgrClear, MgrReply
<1>3. /\ LockOK' /\ MainOK' /\ PollOK' /\ LogsOK' /\ PollPlace' /\ LogsPlace'
      /\ aborted' \in BOOLEAN
      BY <1>1, <1>2 DEF LockOK, MainOK, PollOK, LogsOK, Positions, PollPlace, LogsPlace
<1>4. SUFFICES TablesOK' /\ KernelOK' /\ MgrOK' /\ MgrPlace'
               /\ \A g \in Fds : sock'[g] \in {sock[g], NoClient}
  <2>1. MainPlace'
        BY <1>2, <1>4 DEF MainPlace, Positions
  <2> QED BY <1>3, <1>4, <2>1, Parts DEF Positions
<1>5. /\ mgr' = MgrIdle => MgrOK' /\ MgrPlace'
      /\ NextManager => MgrOK' /\ MgrPlace'
  <2>1. mgr.i + 1 \in Nat /\ "look" \in MgrPC
        BY <1>1 DEF MgrOK, MgrPC
  <2>2. ASSUME NextManager PROVE MgrOK' /\ MgrPlace'
    <3>1. MgrOK'
          BY <2>1, <2>2, MgrRounds DEF NextManager, MgrOK
    <3> QED BY <2>2, <3>1, MgrRounds DEF MgrPlace
  <2>3. ASSUME mgr' = MgrIdle PROVE MgrOK' /\ MgrPlace'
        BY <2>3, MgrRounds DEF MgrOK, MgrPlace
  <2> QED BY <2>2, <2>3
<1>6. CASE MgrStart \/ MgrLook \/ MgrRecv \/ MgrNotHere \/ MgrOther \/ MgrReply
  <2>1. TablesOK' /\ KernelOK' /\ \A g \in Fds : sock'[g] \in {sock[g], NoClient}
        BY <1>1, <1>6 DEF MgrStart, MgrLook, MgrRecv, MgrNotHere, MgrOther, MgrReply,
           TablesOK, FdsOK, KernelOK, table, kernel
  <2>2. CASE MgrStart
        BY <1>1, <2>1, <2>2 DEF MgrStart, MgrOK, MgrPC, MgrPlace
  <2>3. CASE MgrLook
    <3>1. CASE /\ mgr.i \in Slots("manager")
               /\ mgr' = [mgr EXCEPT !.pc = "recv", !.fd = fds["manager"][mgr.i]]
      <4>1. fds["manager"][mgr.i] \in Fds \union {NoFd}
            BY <1>1, <3>1 DEF TablesOK, FdsOK, Types
      <4> QED BY <1>1, <2>1, <3>1, <4>1 DEF MgrOK, MgrPC, MgrPlace
    <3> QED BY <1>5, <2>1, <2>3, <3>1 DEF MgrLook
  <2>4. CASE MgrRecv
    <3>1. mgr.i \in Slots("manager") /\ mgr.pc = "recv"
          BY <2>4 DEF MgrRecv, Positions, MgrPlace
    <3>2. ASSUME NEW c \in Targets,
                 mgr' = [MgrIdle EXCEPT !.pc = "find", !.target = c, !.i = mgr.i]
          PROVE  MgrOK' /\ MgrPlace'
          BY <1>1, <3>1, <3>2, Constants DEF MgrIdle, MgrOK, MgrPC, MgrPlace, Types
    <3>3. ASSUME NEW l \in {"drop", "stopped"}, mgr' = [mgr EXCEPT !.pc = l]
          PROVE  MgrOK' /\ MgrPlace'
          BY <1>1, <3>1, <3>3 DEF MgrOK, MgrPC, MgrPlace
    <3> QED BY <1>5, <2>1, <2>4, <3>2, <3>3 DEF MgrRecv
  <2>5. CASE MgrNotHere \/ MgrOther
    <3>1. mgr.pc = "find" /\ mgr.i \in Slots("manager") /\ mgr.k \in Nat
          BY <1>1, <2>5 DEF MgrNotHere, MgrOther, Positions, MgrPlace, MgrOK
    <3>2. CASE mgr' = [mgr EXCEPT !.pc = "reply", !.t = "worker", !.k = 1]
      <4>1. MgrOK'
            BY <1>1, <3>2 DEF MgrOK, MgrPC, Types
      <4>2. mgr'.pc = "reply" /\ mgr'.i = mgr.i
            BY <1>1, <3>2 DEF MgrOK
      <4> QED BY <2>1, <3>1, <4>1, <4>2 DEF MgrPlace
    <3>3. CASE mgr' = [mgr EXCEPT !.t = After(mgr.t), !.k = 1]
      <4>1. After(mgr.t) \in Types
            BY DEF After, Types
      <4>2. MgrOK'
            BY <1>1, <3>3, <4>1 DEF MgrOK
      <4>3. mgr'.pc = "find" /\ mgr'.i = mgr.i
            BY <1>1, <3>1, <3>3 DEF MgrOK
      <4> QED BY <2>1, <3>1, <4>2, <4>3 DEF MgrPlace
    <3>4. CASE mgr' = [mgr EXCEPT !.k = mgr.k + 1]
      <4>1. mgr.k + 1 \in Nat
            BY <3>1
      <4>2. MgrOK'
            BY <1>1, <3>4, <4>1 DEF MgrOK
      <4>3. mgr'.pc = "find" /\ mgr'.i = mgr.i
            BY <1>1, <3>1, <3>4 DEF MgrOK
      <4> QED BY <2>1, <3>1, <4>2, <4>3 DEF MgrPlace
    <3> QED BY <2>1, <2>5, <3>2, <3>3, <3>4 DEF MgrNotHere, MgrOther
  <2>6. CASE MgrReply
    <3>1. mgr.i \in Slots("manager") /\ mgr.pc = "reply"
          BY <2>6 DEF MgrReply, Positions, MgrPlace
    <3>2. fds["manager"][mgr.i] \in Fds \union {NoFd}
          BY <1>1, <3>1 DEF TablesOK, FdsOK, Types
    <3>3. ASSUME NEW l \in {"drop", "stopped"},
                 mgr' = [mgr EXCEPT !.pc = l, !.fd = fds["manager"][mgr.i]]
          PROVE  MgrOK' /\ MgrPlace'
          BY <1>1, <3>1, <3>2, <3>3 DEF MgrOK, MgrPC, MgrPlace
    <3> QED BY <1>5, <2>1, <2>6, <3>3 DEF MgrReply
  <2> QED BY <1>6, <2>2, <2>3, <2>4, <2>5, <2>6
<1>7. CASE MgrDrop \/ MgrClear
  <2>1. KernelOK' /\ \A g \in Fds : sock'[g] \in {sock[g], NoClient}
        BY <1>1, <1>7 DEF MgrDrop, MgrClear, KernelOK, kernel
  <2>2. mgr.t \in Types /\ arr_size["manager"] \in Nat
        BY <1>1 DEF MgrOK, TablesOK, Types
  <2>3. "manager" \in Types /\ NoFd \in Fds \union {NoFd}
        BY DEF Types
  <2>4. CASE MgrDrop
    <3>1. TablesOK'
          BY <1>1, <2>3, <2>4, SlotUpdate DEF MgrDrop, TablesOK
    <3>2. mgr.i \in Slots("manager")
          BY <2>4 DEF MgrDrop, Positions, MgrPlace
    <3>3. MgrOK' /\ MgrPlace'
          BY <1>1, <2>2, <2>4, <3>2 DEF MgrDrop, MgrOK, MgrPC, MgrPlace
    <3> QED BY <2>1, <3>1, <3>3
  <2>5. CASE MgrClear
    <3>1. TablesOK'
          BY <1>1, <2>2, <2>3, <2>5, SlotUpdate DEF MgrClear, TablesOK
    <3>2. mgr.i \in Slots("manager")
          BY <2>5 DEF MgrClear, Positions, MgrPlace
    <3>3. MgrOK' /\ MgrPlace'
          BY <1>1, <2>5, <3>2 DEF MgrClear, MgrOK, MgrPC, MgrPlace, Types
    <3> QED BY <2>1, <3>1, <3>3
  <2> QED BY <1>7, <2>4, <2>5
<1>8. CASE MgrClose
  <2>1. KernelOK' /\ \A g \in Fds : sock'[g] \in {sock[g], NoClient}
        BY <1>1, <1>8, CloseKeeps DEF MgrClose
  <2>2. mgr.n - 1 \in Nat
        BY <1>1, <1>8 DEF MgrClose, MgrOK, ManagerSize
  <2>3. TablesOK'
        BY <1>1, <1>8, <2>2 DEF MgrClose, TablesOK, FdsOK
  <2>4. MgrOK' /\ MgrPlace'
        BY <1>5, <1>8 DEF MgrClose
  <2> QED BY <2>1, <2>3, <2>4
<1>9. CASE MgrFound
  <2>1. KernelOK'
        BY <1>1, <1>9 DEF MgrFound, KernelOK, Closed
  <2>2. TablesOK' /\ \A g \in Fds : sock'[g] \in {sock[g], NoClient}
        BY <1>1, <1>9 DEF MgrFound, TablesOK, FdsOK, table
  <2>3. MgrOK' /\ MgrPlace'
        BY <1>1, <1>9 DEF MgrFound, MgrOK, MgrPC, MgrPlace, Positions
  <2> QED BY <2>1, <2>2, <2>3
<1>10. CASE MgrShut
  <2>1. KernelOK' /\ \A g \in Fds : sock'[g] \in {sock[g], NoClient}
        BY <1>1, <1>10, CloseKeeps DEF MgrShut
  <2>2. TablesOK' /\ MgrOK' /\ MgrPlace'
        BY <1>1, <1>10 DEF MgrShut, TablesOK, FdsOK, table, MgrOK, MgrPC, MgrPlace, Positions
  <2> QED BY <2>1, <2>2
<1> QED BY <1>6, <1>7, <1>8, <1>9, <1>10 DEF Manager

-----------------------------------------------------------------------------
(* The mutex of the workers.                                               *)

\* Who is inside a critical section has its mutex.
LEMMA MutexesStep ==
    ASSUME TypeOK, Mutexes, Next
    PROVE  Mutexes'
<1>1. LockOK /\ MainOK /\ PollOK
      BY Parts
<1>2. CASE Main
  <2>1. UNCHANGED poll
        BY <1>2 DEF Main, Accept, TurnAway, LockTable, SlotUsed, NoSlot, SlotFree, StoreSize,
           PutFd
  <2>2. CASE (\E c \in Clients : Accept(c)) \/ TurnAway
    <3>1. main'.pc \in {"accept", "lock"} /\ UNCHANGED lock
          BY <2>2 DEF Accept, TurnAway, MainIdle
    <3> QED BY <2>1, <3>1 DEF Mutexes
  <2>3. CASE LockTable
    <3>1. main' = [main EXCEPT !.pc = "scan"] /\ Lock(main.t, "main")
          BY <2>3 DEF LockTable
    <3>2. main'.t = main.t
          BY <1>1, <3>1 DEF MainOK
    <3>3. CASE main.t = "worker"
          BY <1>1, <2>1, <3>1, <3>2, <3>3 DEF Lock, LockOK, Mutexes, Types
    <3>4. CASE main.t # "worker"
      <4>1. lock'["worker"] = lock["worker"]
            BY <1>1, <3>1, <3>4 DEF Lock, LockOK, Types
      <4> QED BY <2>1, <3>2, <3>4, <4>1 DEF Mutexes
    <3> QED BY <3>3, <3>4
  <2>4. CASE SlotUsed \/ SlotFree \/ StoreSize
    <3>1. main'.t = main.t /\ main.pc \in {"scan", "store"} /\ UNCHANGED lock
          BY <1>1, <2>4 DEF SlotUsed, SlotFree, StoreSize, MainOK
    <3> QED BY <2>1, <3>1 DEF Mutexes
  <2>5. CASE NoSlot \/ PutFd
    <3>1. main'.pc = "accept" /\ Unlock(main.t) /\ main.pc \in {"scan", "put"}
          BY <2>5 DEF NoSlot, PutFd, MainIdle
    <3>2. CASE main.t = "worker"
          BY <2>1, <3>1, <3>2 DEF Mutexes
    <3>3. CASE main.t # "worker"
      <4>1. lock'["worker"] = lock["worker"]
            BY <1>1, <3>1, <3>3 DEF Unlock, LockOK
      <4> QED BY <2>1, <3>1, <4>1 DEF Mutexes
    <3> QED BY <3>2, <3>3
  <2> QED BY <1>2, <2>2, <2>3, <2>4, <2>5 DEF Main
<1>3. CASE Poller
  <2>1. UNCHANGED main
        BY <1>3 DEF Poller, PollStart, PollEnd, PollLook, PollAlive, PollUse, PollDrop,
           PollClose, PollStop
  <2>2. CASE PollStart
        BY <1>1, <2>1, <2>2 DEF PollStart, Lock, LockOK, Mutexes, Types
  <2>3. CASE PollEnd \/ PollStop
    <3>1. poll'.pc \in {"idle", "stopped"} /\ Unlock("worker") /\ lock["worker"] = "poll"
          BY <1>1, <2>3 DEF PollEnd, PollStop, Idle, PollOK, Mutexes
    <3> QED BY <2>1, <3>1 DEF Mutexes
  <2>4. CASE PollLook \/ PollAlive \/ PollUse \/ PollDrop \/ PollClose
    <3>1. UNCHANGED lock /\ poll.pc \notin {"idle", "stopped"}
          BY <2>4 DEF PollLook, PollAlive, PollUse, PollDrop, PollClose
    <3> QED BY <2>1, <3>1 DEF Mutexes
  <2> QED BY <1>3, <2>2, <2>3, <2>4 DEF Poller
<1>4. CASE LogsSender \/ Manager \/ \E c \in Clients : Leave(c)
  <2>1. UNCHANGED <<lock, main, poll>>
        BY <1>4 DEF LogsSender, SendStart, SendLook, SendLog, SendDrop, SendClose, Leave,
           Manager, MgrStart, MgrLook, MgrRecv, MgrDrop, MgrClose, MgrNotHere, MgrOther,
           MgrFound, MgrShut, MgrClear, MgrReply
  <2> QED BY <2>1 DEF Mutexes
<1> QED BY <1>2, <1>3, <1>4 DEF Next

-----------------------------------------------------------------------------
(* The size of the managers' array.                                        *)

\* The size of the managers' array counts what its only readers see.
LEMMA ManagerSizeStep ==
    ASSUME TypeOK, ManagerSize, Next
    PROVE  ManagerSize'
<1>1. TablesOK /\ MainOK /\ MgrOK
      BY Parts
<1>2. CASE Main
  <2>1. UNCHANGED mgr
        BY <1>2 DEF Main, Accept, TurnAway, LockTable, SlotUsed, NoSlot, SlotFree, StoreSize,
           PutFd
  <2>2. arr_size'["manager"] > 0 \/ arr_size'["manager"] = arr_size["manager"]
    <3>1. CASE StoreSize
          BY <1>1, <3>1 DEF StoreSize, TablesOK, MainOK
    <3>2. CASE ~StoreSize
          BY <1>2, <3>2 DEF Main, Accept, TurnAway, LockTable, SlotUsed, NoSlot, SlotFree,
             PutFd, table
    <3> QED BY <3>1, <3>2
  <2> QED BY <2>1, <2>2 DEF ManagerSize
<1>3. CASE Poller
  <2>1. UNCHANGED mgr
        BY <1>3 DEF Poller, PollStart, PollEnd, PollLook, PollAlive, PollUse, PollDrop,
           PollClose, PollStop
  <2>2. arr_size'["manager"] = arr_size["manager"]
    <3>1. CASE PollClose
          BY <1>1, <3>1 DEF PollClose, TablesOK, Types
    <3>2. CASE ~PollClose
          BY <1>3, <3>2 DEF Poller, PollStart, PollEnd, PollLook, PollAlive, PollUse, PollDrop,
             PollStop, table
    <3> QED BY <3>1, <3>2
  <2> QED BY <2>1, <2>2 DEF ManagerSize
<1>4. CASE LogsSender \/ \E c \in Clients : Leave(c)
      BY <1>4 DEF LogsSender, SendStart, SendLook, SendLog, SendDrop, SendClose, Leave, table,
         ManagerSize
<1>5. CASE Manager
  <2>1. CASE MgrClose
    <3>1. mgr'.pc \in {"look", "idle"}
          BY <2>1, MgrRounds DEF MgrClose
    <3> QED BY <3>1 DEF ManagerSize
  <2>2. CASE MgrDrop
    <3>1. mgr'.pc = "close" /\ mgr'.n = arr_size["manager"] /\ mgr.pc = "drop"
          BY <1>1, <2>2 DEF MgrDrop, MgrOK
    <3> QED BY <3>1 DEF ManagerSize
  <2>3. CASE MgrStart
    <3>1. mgr'.pc = "look"
          BY <1>1, <2>3 DEF MgrStart, MgrOK
    <3> QED BY <3>1 DEF ManagerSize
  <2>4. CASE MgrLook
    <3>1. CASE mgr' = MgrIdle \/ NextManager
      <4>1. mgr'.pc \in {"idle", "look"}
            BY <3>1, MgrRounds
      <4> QED BY <4>1 DEF ManagerSize
    <3>2. CASE /\ arr_size["manager"] # 0
               /\ mgr' = [mgr EXCEPT !.pc = "recv", !.fd = fds["manager"][mgr.i]]
      <4>1. mgr'.pc = "recv" /\ arr_size'["manager"] > 0
            BY <1>1, <2>4, <3>2 DEF MgrLook, MgrOK, TablesOK, Types, table
      <4> QED BY <4>1 DEF ManagerSize
    <3> QED BY <2>4, <3>1, <3>2 DEF MgrLook
  <2>5. CASE MgrRecv \/ MgrNotHere \/ MgrOther \/ MgrFound \/ MgrShut \/ MgrClear \/ MgrReply
    <3>1. mgr.pc \in {"recv", "find", "shut", "clear", "reply"} /\ UNCHANGED arr_size
          BY <2>5 DEF MgrRecv, MgrNotHere, MgrOther, MgrFound, MgrShut, MgrClear, MgrReply,
             table
    <3>2. mgr'.pc # "close"
      <4>1. CASE MgrRecv
        <5>1. ASSUME NEW c \in Targets,
                     mgr' = [MgrIdle EXCEPT !.pc = "find", !.target = c, !.i = mgr.i]
              PROVE  mgr'.pc = "find"
              BY <5>1, MgrRounds
        <5>2. ASSUME NEW l \in {"drop", "stopped"}, mgr' = [mgr EXCEPT !.pc = l]
              PROVE  mgr'.pc = l
              BY <1>1, <5>2 DEF MgrOK
        <5> QED BY <4>1, <5>1, <5>2, MgrRounds DEF MgrRecv
      <4>2. CASE MgrNotHere
            BY <1>1, <4>2 DEF MgrNotHere, MgrOK
      <4>3. CASE MgrOther \/ MgrFound \/ MgrShut \/ MgrClear
            BY <1>1, <4>3 DEF MgrOther, MgrFound, MgrShut, MgrClear, MgrOK
      <4>4. CASE MgrReply
            BY <1>1, <4>4, MgrRounds DEF MgrReply, MgrOK
      <4> QED BY <2>5, <4>1, <4>2, <4>3, <4>4
    <3> QED BY <3>1, <3>2 DEF ManagerSize
  <2> QED BY <1>5, <2>1, <2>2, <2>3, <2>4, <2>5 DEF Manager
<1> QED BY <1>2, <1>3, <1>4, <1>5 DEF Next

-----------------------------------------------------------------------------
(* The size of the workers' array.                                         *)

\* One slot more or less counts one more or less.
LEMMA OneSlot ==
    ASSUME NEW U, IsFiniteSet(U), NEW i
    PROVE  /\ IsFiniteSet(U \ {i}) /\ IsFiniteSet(U \union {i})
           /\ Cardinality(U) \in Nat /\ Cardinality(U \ {i}) \in Nat
           /\ Cardinality(U \union {i}) \in Nat
           /\ Cardinality(U \union {i}) <= Cardinality(U) + 1
           /\ i \in U => Cardinality(U) = Cardinality(U \ {i}) + 1
           /\ \A V \in SUBSET U : /\ Cardinality(V) \in Nat
                                  /\ Cardinality(V) <= Cardinality(U)
  BY FS_AddElement, FS_RemoveElement, FS_Subset, FS_CardinalityType

\* A step that leaves the size, main and the poller alone and fills no slot.
LEMMA FewerSlots ==
    ASSUME TypeOK, WorkerSize, Used("worker")' \subseteq Used("worker"),
           arr_size'["worker"] = arr_size["worker"], UNCHANGED <<main, poll>>
    PROVE  WorkerSize'
<1>1. IsFiniteSet(Used("worker"))
      BY UsedFinite DEF Types
<1>2. Used("worker")' \ {poll.i} \subseteq Used("worker") \ {poll.i}
      OBVIOUS
<1>3. /\ Cardinality(Used("worker")') \in Nat
      /\ Cardinality(Used("worker")') <= Cardinality(Used("worker"))
      /\ Cardinality(Used("worker")' \ {poll.i}) \in Nat
      /\ Cardinality(Used("worker")' \ {poll.i}) <= Cardinality(Used("worker") \ {poll.i})
      /\ Cardinality(Used("worker")) \in Nat /\ Cardinality(Used("worker") \ {poll.i}) \in Nat
      BY <1>1, <1>2, OneSlot
<1>4. arr_size["worker"] \in Nat
      BY Parts DEF TablesOK, Types
<1> QED BY <1>3, <1>4 DEF WorkerSize

\* main keeps the size of the workers' array ...
LEMMA MainSize ==
    ASSUME TypeOK, Positions, Mutexes, WorkerSize, Main
    PROVE  WorkerSize'
<1>1. TablesOK /\ MainOK /\ "worker" \in Types
      BY Parts DEF Types
<1>2. UNCHANGED poll
      BY DEF Main, Accept, TurnAway, LockTable, SlotUsed, NoSlot, SlotFree, StoreSize, PutFd
<1>3. CASE (\E c \in Clients : Accept(c)) \/ TurnAway \/ LockTable \/ SlotUsed \/ NoSlot
  <2>1. UNCHANGED <<fds, arr_size>> /\ main'.pc \notin {"store", "put"}
    <3>1. CASE SlotUsed \/ LockTable
          BY <1>1, <3>1 DEF SlotUsed, LockTable, MainOK, table
    <3>2. CASE ~(SlotUsed \/ LockTable)
          BY <1>3, <3>2 DEF Accept, TurnAway, NoSlot, MainIdle, table
    <3> QED BY <3>1, <3>2
  <2> QED BY <1>2, <2>1 DEF WorkerSize, Used
<1>4. CASE SlotFree
  <2>1. UNCHANGED <<fds, arr_size>>
        BY <1>4 DEF SlotFree, table
  <2>2. CASE UNCHANGED main
        BY <1>2, <2>1, <2>2 DEF WorkerSize, Used
  <2>3. CASE main' = [main EXCEPT !.pc = "store", !.n = arr_size[main.t]]
    <3>1. main'.pc = "store" /\ main'.n = arr_size[main.t] /\ main'.t = main.t
          BY <1>1, <2>3 DEF MainOK
    <3> QED BY <1>2, <2>1, <3>1 DEF WorkerSize, Used
  <2> QED BY <1>4, <2>2, <2>3 DEF SlotFree
<1>5. CASE StoreSize
  <2>1. UNCHANGED fds /\ main'.pc = "put" /\ main'.t = main.t /\ main.pc = "store"
        BY <1>1, <1>5 DEF StoreSize, MainOK
  <2>2. CASE main.t = "worker"
    <3>1. poll.pc \in {"idle", "stopped"}
          BY <2>1, <2>2 DEF Mutexes
    <3>2. arr_size'["worker"] = arr_size["worker"] + 1
          BY <1>1, <1>5, <2>1, <2>2 DEF StoreSize, TablesOK, WorkerSize
    <3>3. arr_size["worker"] \in Nat /\ Cardinality(Used("worker")) \in Nat
          BY <1>1, UsedFinite DEF TablesOK
    <3> QED BY <1>2, <2>1, <3>1, <3>2, <3>3 DEF WorkerSize, Used
  <2>3. CASE main.t # "worker"
    <3>1. arr_size'["worker"] = arr_size["worker"]
          BY <1>1, <1>5, <2>3 DEF StoreSize, TablesOK
    <3> QED BY <1>2, <2>1, <2>3, <3>1 DEF WorkerSize, Used
  <2> QED BY <2>2, <2>3
<1>6. CASE PutFd
  <2>1. UNCHANGED arr_size /\ main'.pc = "accept" /\ main.pc = "put"
        BY <1>6 DEF PutFd, MainIdle
  <2>2. CASE main.t = "worker"
    <3>1. poll.pc \in {"idle", "stopped"}
          BY <2>1, <2>2 DEF Mutexes
    <3>2. Used("worker")' \subseteq Used("worker") \union {main.i}
          BY <1>1, <1>6, <2>2 DEF PutFd, TablesOK, FdsOK, Used
    <3>3. arr_size["worker"] >= Cardinality(Used("worker")) + 1
          BY <2>1, <2>2 DEF WorkerSize
    <3>4. /\ Cardinality(Used("worker")') \in Nat
          /\ Cardinality(Used("worker")') <= Cardinality(Used("worker") \union {main.i})
          BY <1>1, <3>2, UsedFinite, OneSlot
    <3>5. /\ Cardinality(Used("worker") \union {main.i}) <= Cardinality(Used("worker")) + 1
          /\ Cardinality(Used("worker") \union {main.i}) \in Nat
          /\ Cardinality(Used("worker")) \in Nat
          BY <1>1, UsedFinite, OneSlot
    <3>6. arr_size["worker"] \in Nat
          BY <1>1 DEF TablesOK
    <3> QED BY <1>2, <2>1, <3>1, <3>3, <3>4, <3>5, <3>6 DEF WorkerSize
  <2>3. CASE main.t # "worker"
    <3>1. Used("worker")' = Used("worker")
          BY <1>1, <1>6, <2>3 DEF PutFd, TablesOK, FdsOK, Used
    <3> QED BY <1>2, <2>1, <3>1 DEF WorkerSize
  <2> QED BY <2>2, <2>3
<1> QED BY <1>3, <1>4, <1>5, <1>6 DEF Main

\* ... the poller does ...
LEMMA PollSize ==
    ASSUME TypeOK, Positions, Mutexes, WorkerSize, Poller
    PROVE  WorkerSize'
<1>1. TablesOK /\ PollOK /\ "worker" \in Types
      BY Parts DEF Types
<1>2. UNCHANGED main
      BY DEF Poller, PollStart, PollEnd, PollLook, PollAlive, PollUse, PollDrop, PollClose,
         PollStop
<1>3. /\ IsFiniteSet(Used("worker")) /\ Cardinality(Used("worker")) \in Nat
      /\ arr_size["worker"] \in Nat
      BY <1>1, UsedFinite DEF TablesOK
<1>4. NextWorker => poll'.pc = "look"
      BY DEF NextWorker
<1>5. CASE PollStart \/ PollEnd \/ PollStop
  <2>1. UNCHANGED <<fds, arr_size>> /\ poll'.pc \in {"look", "idle", "stopped"}
    <3>1. CASE PollStart
          BY <1>1, <3>1 DEF PollStart, PollOK, table
    <3>2. CASE PollEnd
          BY <3>2 DEF PollEnd, Idle, table
    <3>3. CASE PollStop
          BY <1>1, <3>3 DEF PollStop, PollOK, table
    <3> QED BY <1>5, <3>1, <3>2, <3>3
  <2> QED BY <1>2, <2>1 DEF WorkerSize, Used
<1>6. CASE PollLook
  <2>1. UNCHANGED <<fds, arr_size>>
        BY <1>6 DEF PollLook, table
  <2>2. CASE NextWorker
        BY <1>2, <1>4, <2>1, <2>2 DEF WorkerSize, Used
  <2>3. CASE fds["worker"][poll.i] # NoFd
             /\ poll' = [poll EXCEPT !.pc = "alive", !.fd = fds["worker"][poll.i]]
    <3>1. poll'.pc = "alive" /\ poll'.i = poll.i
          BY <1>1, <2>3 DEF PollOK
    <3>2. poll.i \in Used("worker")
          BY <1>6, <2>3 DEF PollLook, Used
    <3>3. Cardinality(Used("worker")) = Cardinality(Used("worker") \ {poll.i}) + 1
          BY <1>3, <3>2, OneSlot
    <3>4. arr_size["worker"] >= Cardinality(Used("worker") \ {poll.i}) + 1
          BY <3>3 DEF WorkerSize
    <3> QED BY <1>2, <2>1, <3>1, <3>4 DEF WorkerSize, Used
  <2> QED BY <1>6, <2>2, <2>3 DEF PollLook
<1>7. CASE PollAlive \/ PollUse
  <2>1. UNCHANGED <<fds, arr_size>> /\ poll.pc \in {"alive", "use"}
        BY <1>7 DEF PollAlive, PollUse, table
  <2>2. CASE NextWorker
        BY <1>2, <1>4, <2>1, <2>2 DEF WorkerSize, Used
  <2>3. CASE \E l \in {"use", "drop", "stop"} : poll' = [poll EXCEPT !.pc = l]
    <3>1. poll'.pc \in {"use", "drop", "stop"} /\ poll'.i = poll.i
          BY <1>1, <2>3 DEF PollOK
    <3> QED BY <1>2, <2>1, <3>1 DEF WorkerSize, Used
  <2> QED BY <1>7, <2>2, <2>3 DEF PollAlive, PollUse
<1>8. CASE PollDrop
  <2>1. UNCHANGED arr_size /\ poll.pc = "drop" /\ poll'.pc = "close"
        BY <1>1, <1>8 DEF PollDrop, PollOK
  <2>2. Used("worker")' = Used("worker") \ {poll.i}
        BY <1>1, <1>8 DEF PollDrop, TablesOK, FdsOK, Used, Positions, PollPlace
  <2>3. Cardinality(Used("worker") \ {poll.i}) \in Nat
        BY <1>3, OneSlot
  <2>4. ~(main.pc \in {"store", "put"} /\ main.t = "worker")
        BY <2>1 DEF Mutexes
  <2> QED BY <1>2, <1>3, <2>1, <2>2, <2>3, <2>4 DEF WorkerSize
<1>9. CASE PollClose
  <2>1. /\ UNCHANGED fds /\ poll.pc = "close" /\ poll'.pc = "look"
        /\ arr_size'["worker"] = arr_size["worker"] - 1
        BY <1>1, <1>4, <1>9 DEF PollClose, TablesOK
  <2>2. ~(main.pc \in {"store", "put"} /\ main.t = "worker")
        BY <2>1 DEF Mutexes
  <2> QED BY <1>2, <1>3, <2>1, <2>2 DEF WorkerSize, Used
<1> QED BY <1>5, <1>6, <1>7, <1>8, <1>9 DEF Poller

\* ... and the others do not touch it.
LEMMA OthersSize ==
    ASSUME TypeOK, Positions, WorkerSize, LogsSender \/ Manager \/ \E c \in Clients : Leave(c)
    PROVE  WorkerSize'
<1>1. TablesOK /\ "worker" \in Types /\ NoFd \in Fds \union {NoFd}
      BY Parts DEF Types
<1>2. UNCHANGED <<main, poll>>
      BY DEF LogsSender, SendStart, SendLook, SendLog, SendDrop, SendClose, Leave, Manager,
         MgrStart, MgrLook, MgrRecv, MgrDrop, MgrClose, MgrNotHere, MgrOther, MgrFound, MgrShut,
         MgrClear, MgrReply
<1>3. arr_size'["worker"] = arr_size["worker"]
  <2>1. CASE MgrClose
        BY <1>1, <2>1 DEF MgrClose, TablesOK
  <2>2. CASE ~MgrClose
        BY <2>2 DEF LogsSender, SendStart, SendLook, SendLog, SendDrop, SendClose, Leave,
           Manager, MgrStart, MgrLook, MgrRecv, MgrDrop, MgrNotHere, MgrOther, MgrFound,
           MgrShut, MgrClear, MgrReply, table
  <2> QED BY <2>1, <2>2
<1>4. Used("worker")' \subseteq Used("worker")
  <2>1. CASE MgrClear
    <3>1. fds' = [fds EXCEPT ![mgr.t][mgr.k] = NoFd]
          BY <2>1 DEF MgrClear
    <3>2. \A i \in Slots("worker") : fds'["worker"][i] \in {fds["worker"][i], NoFd}
          BY <1>1, <3>1 DEF TablesOK, FdsOK
    <3> QED BY <3>2 DEF Used
  <2>2. CASE SendDrop \/ MgrDrop
        BY <1>1, <2>2 DEF SendDrop, MgrDrop, TablesOK, FdsOK, Used
  <2>3. CASE ~(MgrClear \/ SendDrop \/ MgrDrop)
        BY <2>3 DEF LogsSender, SendStart, SendLook, SendLog, SendClose, Leave, Manager,
           MgrStart, MgrLook, MgrRecv, MgrClose, MgrNotHere, MgrOther, MgrFound, MgrShut,
           MgrReply, table, Used
  <2> QED BY <2>1, <2>2, <2>3
<1> QED BY <1>2, <1>3, <1>4, FewerSlots

-----------------------------------------------------------------------------
(* The invariant and the theorems.                                         *)

\* The arrays are empty and nobody is at work at the start.
LEMMA InvInit == Init => TableInv
<1> SUFFICES ASSUME Init PROVE TableInv
    OBVIOUS
<1>1. KernelOK /\ LockOK /\ aborted \in BOOLEAN
      BY DEF Init, KernelOK, LockOK
<1>2. TablesOK
      BY DEF Init, TablesOK, FdsOK
<1>3. MainOK /\ PollOK /\ LogsOK
      BY DEF Init, MainIdle, Idle, MainOK, PollOK, LogsOK, MainPC, PollPC, LogsPC, Types
<1>4. MgrOK
      BY MgrRounds DEF Init, MgrOK
<1>5. TypeOK
      BY <1>1, <1>2, <1>3, <1>4 DEF TypeOK, TablesOK, FdsOK, KernelOK, LockOK, MainOK, PollOK,
         LogsOK, MgrOK
<1>6. main.pc = "accept" /\ poll.pc = "idle" /\ logs.pc = "idle" /\ mgr.pc = "idle"
      BY DEF Init, MainIdle, Idle, MgrIdle
<1>7. Positions /\ Mutexes /\ ManagerSize
      BY <1>6 DEF Positions, MainPlace, PollPlace, LogsPlace, MgrPlace, Mutexes, ManagerSize
<1>8. Used("worker") = {} /\ arr_size["worker"] = 0
      BY DEF Init, Used, Types
<1>9. WorkerSize
      BY <1>6, <1>8, FS_EmptySet DEF WorkerSize
<1> QED BY <1>5, <1>7, <1>9 DEF TableInv

\* Every step keeps the invariant of the tables.
LEMMA InvStep == TableInv /\ [Next]_vars => TableInv'
<1> SUFFICES ASSUME TableInv, [Next]_vars PROVE TableInv'
    OBVIOUS
<1> USE DEF TableInv
<1>1. CASE Next
  <2>1. TypeOK' /\ Positions'
        BY <1>1, MainTypes, PollTypes, LogsTypes, MgrTypes, LeaveTypes DEF Next
  <2>2. WorkerSize'
        BY <1>1, MainSize, PollSize, OthersSize DEF Next
  <2> QED BY <1>1, <2>1, <2>2, MutexesStep, ManagerSizeStep
<1>2. CASE UNCHANGED vars
      BY <1>2 DEF vars, TypeOK, Positions, MainPlace, PollPlace, LogsPlace, MgrPlace, Mutexes,
         WorkerSize, Used, ManagerSize
<1> QED BY <1>1, <1>2

\* The workers in their array are counted and the threads look at slots of their
\* arrays, in every state.
THEOREM TableInvariant == Spec => []TableInv
  BY InvInit, InvStep, PTL DEF Spec

\* No size wraps around below 0 and slots hold descriptors or none, whatever the
\* clients, the commands and the interleaving of the threads
\* (insert_new_client_into_arrays, poll_workers, close_manager, find_and_shutdown).
THEOREM TypeCorrect == Spec => []TypeOK
<1>1. TableInv => TypeOK
      BY DEF TableInv
<1> QED BY <1>1, TableInvariant, PTL

\* workers_arr_size is at least the number of workers in the array, for any
\* lengths of the arrays: the loops of the poller, which end at size 0, never
\* pass over a connected worker.
THEOREM WorkersCounted == Spec => []NoWorkerIgnored
<1>1. TableInv => NoWorkerIgnored
      BY DEF TableInv, WorkerSize, NoWorkerIgnored
<1> QED BY <1>1, TableInvariant, PTL

-----------------------------------------------------------------------------
(* Descriptors and their owners, when no command names a client.  Slots    *)
(* and threads are keys of one function here, which a step changes at one  *)
(* key or two.                                                             *)

Threads == {"main", "poller", "sender", "handler"}
Keys == (UNION {{t} \X Slots(t) : t \in Types}) \union (Threads \X {0})

\* The descriptor a thread has not put into a slot yet, or has taken out of one.
InMain == IF main.pc # "accept" THEN main.fd ELSE NoFd
InPoll == IF poll.pc = "close" THEN poll.fd ELSE NoFd
InLogs == IF logs.pc = "close" THEN logs.fd ELSE NoFd
InMgr == IF mgr.pc = "close" THEN mgr.fd ELSE NoFd

\* What each slot and each thread owns.
Owned == [k \in Keys |->
    CASE k[1] = "main" -> InMain
      [] k[1] = "poller" -> InPoll
      [] k[1] = "sender" -> InLogs
      [] k[1] = "handler" -> InMgr
      [] OTHER -> fds[k[1]][k[2]]]

\* A descriptor is open exactly when it has an owner, and has one at most.
OwnedOnce(O, S) ==
    /\ \A k, l \in Keys : O[k] \in Fds /\ O[k] = O[l] => k = l
    /\ \A f \in Fds : S[f] # NoClient <=> \E k \in Keys : O[k] = f

\* A client is at one descriptor at most, and not away.
SocketsOnce(S, C) ==
    /\ \A f, g \in Fds : S[f] # NoClient /\ S[f] = S[g] => f = g
    /\ \A f \in Fds : S[f] # NoClient => C[S[f]] # "away"

HasLeft(S, C, f) == f \in Fds /\ S[f] # NoClient /\ C[S[f]] = "left"

\* A thread that looks at a client still finds it in its slot, ...
Finds(F, t, x, looking) == x.pc \in looking => x.fd \in Fds /\ F[t][x.i] = x.fd

\* ... and drops it only when it has left.
DropsLeft(S, C, x) == x.pc \in {"drop", "close"} => HasLeft(S, C, x.fd)

PollLooks(F, S, C, x) == Finds(F, "worker", x, {"alive", "use", "drop"}) /\ DropsLeft(S, C, x)
LogsLooks(F, S, C, x) == Finds(F, "logs", x, {"send", "drop"}) /\ DropsLeft(S, C, x)
MgrLooks(F, S, C, x) == Finds(F, "manager", x, {"recv", "drop"}) /\ DropsLeft(S, C, x)

\* Main fills a slot that is free, and the managers handler has no command.
MainFills == main.pc \in {"store", "put"} => fds[main.t][main.i] = NoFd
NoCommand == mgr.pc \notin {"find", "shut", "clear", "reply"} /\ mgr.target = NoClient

OwnerInv ==
    /\ TableInv
    /\ OwnedOnce(Owned, sock) /\ SocketsOnce(sock, conn)
    /\ PollLooks(fds, sock, conn, poll) /\ LogsLooks(fds, sock, conn, logs)
    /\ MgrLooks(fds, sock, conn, mgr)
    /\ MainFills /\ NoCommand

\* The places that may own a descriptor.
LEMMA OwnerKeys ==
    /\ \A t \in Types : \A i \in Slots(t) : <<t, i>> \in Keys
    /\ \A x \in Threads : <<x, 0>> \in Keys
    /\ \A k \in Keys : \/ \E t \in Types : \E i \in Slots(t) : k = <<t, i>>
                       \/ \E x \in Threads : k = <<x, 0>>
  BY DEF Keys

\* Owned at each key, before and after a step.
LEMMA OwnedAt ==
    /\ \A t \in Types : \A i \in Slots(t) : /\ Owned[<<t, i>>] = fds[t][i]
                                            /\ Owned'[<<t, i>>] = fds'[t][i]
    /\ Owned[<<"main", 0>>] = InMain /\ Owned'[<<"main", 0>>] = InMain'
    /\ Owned[<<"poller", 0>>] = InPoll /\ Owned'[<<"poller", 0>>] = InPoll'
    /\ Owned[<<"sender", 0>>] = InLogs /\ Owned'[<<"sender", 0>>] = InLogs'
    /\ Owned[<<"handler", 0>>] = InMgr /\ Owned'[<<"handler", 0>>] = InMgr'
  BY OwnerKeys DEF Owned, Types, Threads

\* Key k gives its descriptor to key l; gives it up; gets f.
Hands(O, P, k, l) ==
    /\ k \in Keys /\ l \in Keys /\ k # l
    /\ O[l] = NoFd /\ P[l] = O[k] /\ P[k] = NoFd
    /\ \A m \in Keys \ {k, l} : P[m] = O[m]
GivesUp(O, P, k) == k \in Keys /\ P[k] = NoFd /\ \A m \in Keys \ {k} : P[m] = O[m]
Gets(O, P, k, f) ==
    k \in Keys /\ O[k] = NoFd /\ P[k] = f /\ \A m \in Keys \ {k} : P[m] = O[m]

\* Who owns what does not matter, as long as it is one.
LEMMA HandOver ==
    ASSUME NEW O, NEW P, NEW S, NEW k, NEW l, OwnedOnce(O, S), Hands(O, P, k, l)
    PROVE  OwnedOnce(P, S)
  <1>0. NoFd \notin Fds
    BY Constants
  <1>1. ASSUME NEW m \in Keys, NEW n \in Keys, P[m] \in Fds, P[m] = P[n]
        PROVE  m = n
    BY <1>0, <1>1 DEF OwnedOnce, Hands
  <1>2. ASSUME NEW f \in Fds
        PROVE  (\E m \in Keys : O[m] = f) <=> \E m \in Keys : P[m] = f
    <2>1. ASSUME NEW m \in Keys, O[m] = f PROVE \E n \in Keys : P[n] = f
      BY <1>0, <2>1 DEF Hands
    <2>2. ASSUME NEW m \in Keys, P[m] = f PROVE \E n \in Keys : O[n] = f
      BY <1>0, <2>2 DEF Hands
    <2>3. QED
      BY <2>1, <2>2
  <1>3. QED
    BY <1>1, <1>2 DEF OwnedOnce

\* The descriptor that its owner closes had no other owner.
LEMMA GiveUp ==
    ASSUME NEW S \in [Fds -> Clients \union {NoClient}], NEW O, NEW P, NEW k,
           OwnedOnce(O, S), GivesUp(O, P, k),
           NEW T, O[k] \in Fds => T = [S EXCEPT ![O[k]] = NoClient],
           O[k] \notin Fds => T = S
    PROVE  OwnedOnce(P, T)
  <1>0. NoFd \notin Fds /\ k \in Keys
    BY Constants DEF GivesUp
  <1>1. ASSUME NEW m \in Keys, NEW n \in Keys, P[m] \in Fds, P[m] = P[n]
        PROVE  m = n
    BY <1>0, <1>1 DEF OwnedOnce, GivesUp
  <1>2. ASSUME NEW f \in Fds, T[f] # NoClient
        PROVE  \E m \in Keys : P[m] = f
    <2>1. f # O[k] /\ S[f] # NoClient
      BY <1>0, <1>2
    <2>2. QED
      BY <2>1 DEF OwnedOnce, GivesUp
  <1>3. ASSUME NEW f \in Fds, NEW m \in Keys, P[m] = f
        PROVE  T[f] # NoClient
    <2>1. m # k /\ O[m] = f
      BY <1>0, <1>3 DEF GivesUp
    <2>2. f # O[k] /\ S[f] # NoClient
      BY <1>0, <2>1 DEF OwnedOnce
    <2>3. QED
      BY <2>2
  <1>4. QED
    BY <1>1, <1>2, <1>3 DEF OwnedOnce

\* A descriptor that was closed had no owner.
LEMMA GetOne ==
    ASSUME NEW S \in [Fds -> Clients \union {NoClient}], NEW O, NEW P, NEW k, NEW f \in Fds,
           OwnedOnce(O, S), Gets(O, P, k, f), S[f] = NoClient,
           NEW c \in Clients
    PROVE  OwnedOnce(P, [S EXCEPT ![f] = c])
  <1>0. NoFd \notin Fds /\ k \in Keys /\ c # NoClient
    BY Constants DEF Gets
  <1>1. \A m \in Keys : O[m] # f
    BY DEF OwnedOnce
  <1>2. ASSUME NEW m \in Keys, NEW n \in Keys, P[m] \in Fds, P[m] = P[n]
        PROVE  m = n
    BY <1>0, <1>1, <1>2 DEF OwnedOnce, Gets
  <1>3. ASSUME NEW g \in Fds
        PROVE  [S EXCEPT ![f] = c][g] # NoClient <=> \E m \in Keys : P[m] = g
    <2>1. CASE g = f
      BY <1>0, <2>1 DEF Gets
    <2>2. CASE g # f
      <3>1. (\E m \in Keys : O[m] = g) <=> \E m \in Keys : P[m] = g
        BY <1>0, <2>2 DEF Gets
      <3>2. QED
        BY <2>2, <3>1 DEF OwnedOnce
    <2>3. QED
      BY <2>1, <2>2
  <1>4. QED
    BY <1>2, <1>3 DEF OwnedOnce

-----------------------------------------------------------------------------
(* What the calls into the kernel do to connections.                       *)

\* A client that has left is still seen as gone after a step, except at descriptor f.
LeftStay(S, C, T, D, f) == \A g \in Fds : g # f /\ HasLeft(S, C, g) => HasLeft(T, D, g)

\* After a close every socket still has one client, and the connections of the other
\* descriptors are as they were ...
LEMMA CloseConnections ==
    ASSUME KernelOK, SocketsOnce(sock, conn), NEW f, Close(f)
    PROVE  SocketsOnce(sock', conn') /\ LeftStay(sock, conn, sock', conn', f)
  <1>1. CASE f \in Fds /\ sock[f] # NoClient
    <2>1. /\ sock[f] \in Clients /\ NoClient \notin Clients
          /\ sock' = [sock EXCEPT ![f] = NoClient]
          /\ conn' = [conn EXCEPT ![sock[f]] = "away"]
      BY <1>1, Constants DEF Close, KernelOK
    <2>2. ASSUME NEW g \in Fds, g # f, sock[g] # NoClient
          PROVE  sock'[g] = sock[g] /\ conn'[sock[g]] = conn[sock[g]]
      <3>1. sock[g] # sock[f] /\ sock[g] \in Clients
        BY <1>1, <2>2 DEF SocketsOnce, KernelOK
      <3>2. QED
        BY <2>1, <2>2, <3>1 DEF KernelOK
    <2>3. sock'[f] = NoClient /\ \A g \in Fds : sock'[g] # NoClient => g # f /\ sock[g] # NoClient
      BY <1>1, <2>1 DEF KernelOK
    <2>4. LeftStay(sock, conn, sock', conn', f)
      BY <2>2 DEF LeftStay, HasLeft
    <2>5. QED
      BY <2>2, <2>3, <2>4 DEF SocketsOnce
  <1>2. CASE ~(f \in Fds /\ sock[f] # NoClient)
    BY <1>2 DEF Close, kernel, LeftStay
  <1>3. QED
    BY <1>1, <1>2

\* ... and so it is after an accept.
LEMMA OpenConnection ==
    ASSUME KernelOK, SocketsOnce(sock, conn), NEW f \in Fds, sock[f] = NoClient,
           NEW c \in Clients, conn[c] = "away",
           sock' = [sock EXCEPT ![f] = c], conn' = [conn EXCEPT ![c] = "open"]
    PROVE  SocketsOnce(sock', conn') /\ LeftStay(sock, conn, sock', conn', NoFd)
  <1>1. \A g \in Fds : sock[g] # c
    BY Constants DEF SocketsOnce
  <1>2. sock'[f] = c /\ conn'[c] = "open" /\ c # NoClient
    BY Constants DEF KernelOK
  <1>3. ASSUME NEW g \in Fds, g # f
        PROVE  sock'[g] = sock[g] /\ (sock[g] # NoClient => conn'[sock[g]] = conn[sock[g]])
    BY <1>1, <1>3 DEF KernelOK
  <1>4. SocketsOnce(sock', conn')
    <2>1. ASSUME NEW g \in Fds, NEW h \in Fds, sock'[g] # NoClient, sock'[g] = sock'[h]
          PROVE  g = h
      BY <1>1, <1>2, <1>3, <2>1 DEF SocketsOnce
    <2>2. ASSUME NEW g \in Fds, sock'[g] # NoClient
          PROVE  conn'[sock'[g]] # "away"
      BY <1>2, <1>3, <2>2 DEF SocketsOnce
    <2>3. QED
      BY <2>1, <2>2 DEF SocketsOnce
  <1>5. LeftStay(sock, conn, sock', conn', NoFd)
    BY <1>3 DEF LeftStay, HasLeft
  <1>6. QED
    BY <1>4, <1>5

\* A thread closes the descriptor it owns.
LEMMA CloseOwned ==
    ASSUME OwnerInv, NEW x \in Threads, GivesUp(Owned, Owned', <<x, 0>>),
           NEW f, f = Owned[<<x, 0>>], Close(f)
    PROVE  /\ OwnedOnce(Owned', sock') /\ SocketsOnce(sock', conn')
           /\ LeftStay(sock, conn, sock', conn', f)
  <1>1. KernelOK /\ OwnedOnce(Owned, sock) /\ SocketsOnce(sock, conn)
    BY Parts DEF OwnerInv, TableInv
  <1>2. <<x, 0>> \in Keys
    BY OwnerKeys
  <1>3. f \in Fds => sock[f] # NoClient
    BY <1>1, <1>2 DEF OwnedOnce
  <1>4. /\ f \in Fds => sock' = [sock EXCEPT ![f] = NoClient]
        /\ f \notin Fds => sock' = sock
    BY <1>3 DEF Close, kernel
  <1>5. OwnedOnce(Owned', sock')
    BY <1>1, <1>4, GiveUp DEF KernelOK
  <1>6. QED
    BY <1>1, <1>5, CloseConnections

\* The client that a thread drops is not at the descriptor another thread has.
LEMMA OthersFd ==
    ASSUME OwnerInv, NEW f, NEW x \in Threads, f = Owned[<<x, 0>>]
    PROVE  /\ poll.pc \in {"drop", "close"} /\ x # "poller" => poll.fd # f
           /\ logs.pc \in {"drop", "close"} /\ x # "sender" => logs.fd # f
           /\ mgr.pc \in {"drop", "close"} /\ x # "handler" => mgr.fd # f
  <1>1. /\ <<x, 0>> \in Keys /\ OwnedOnce(Owned, sock)
        /\ \A t \in Types : \A i \in Slots(t) : <<t, i>> \in Keys /\ <<t, i>> # <<x, 0>>
        /\ \A y \in Threads : <<y, 0>> \in Keys
    <2>1. \A t \in Types : t \notin Threads
      BY DEF Types, Threads
    <2>2. QED
      BY <2>1, OwnerKeys DEF OwnerInv
  <1>2. ASSUME poll.pc \in {"drop", "close"}, x # "poller"
        PROVE  poll.fd # f
    <2>1. poll.fd \in Fds
      BY <1>2 DEF OwnerInv, PollLooks, DropsLeft, HasLeft
    <2>2. CASE poll.pc = "drop"
      <3>1. poll.i \in Slots("worker") /\ fds["worker"][poll.i] = poll.fd /\ "worker" \in Types
        BY <2>2 DEF OwnerInv, TableInv, Positions, PollPlace, PollLooks, Finds, Types
      <3>2. /\ <<"worker", poll.i>> \in Keys /\ <<"worker", poll.i>> # <<x, 0>>
            /\ Owned[<<"worker", poll.i>>] = poll.fd
        BY <1>1, <3>1, OwnedAt
      <3>3. QED
        BY <1>1, <2>1, <3>2 DEF OwnedOnce
    <2>3. CASE poll.pc = "close"
      BY <1>1, <1>2, <2>1, <2>3, OwnedAt DEF OwnedOnce, Threads, InPoll
    <2>4. QED
      BY <1>2, <2>2, <2>3
  <1>3. ASSUME logs.pc \in {"drop", "close"}, x # "sender"
        PROVE  logs.fd # f
    <2>1. logs.fd \in Fds
      BY <1>3 DEF OwnerInv, LogsLooks, DropsLeft, HasLeft
    <2>2. CASE logs.pc = "drop"
      <3>1. logs.i \in Slots("logs") /\ fds["logs"][logs.i] = logs.fd /\ "logs" \in Types
        BY <2>2 DEF OwnerInv, TableInv, Positions, LogsPlace, LogsLooks, Finds, Types
      <3>2. /\ <<"logs", logs.i>> \in Keys /\ <<"logs", logs.i>> # <<x, 0>>
            /\ Owned[<<"logs", logs.i>>] = logs.fd
        BY <1>1, <3>1, OwnedAt
      <3>3. QED
        BY <1>1, <2>1, <3>2 DEF OwnedOnce
    <2>3. CASE logs.pc = "close"
      BY <1>1, <1>3, <2>1, <2>3, OwnedAt DEF OwnedOnce, Threads, InLogs
    <2>4. QED
      BY <1>3, <2>2, <2>3
  <1>4. ASSUME mgr.pc \in {"drop", "close"}, x # "handler"
        PROVE  mgr.fd # f
    <2>1. mgr.fd \in Fds
      BY <1>4 DEF OwnerInv, MgrLooks, DropsLeft, HasLeft
    <2>2. CASE mgr.pc = "drop"
      <3>1. mgr.i \in Slots("manager") /\ fds["manager"][mgr.i] = mgr.fd /\ "manager" \in Types
        BY <2>2 DEF OwnerInv, TableInv, Positions, MgrPlace, MgrLooks, Finds, Types
      <3>2. /\ <<"manager", mgr.i>> \in Keys /\ <<"manager", mgr.i>> # <<x, 0>>
            /\ Owned[<<"manager", mgr.i>>] = mgr.fd
        BY <1>1, <3>1, OwnedAt
      <3>3. QED
        BY <1>1, <2>1, <3>2 DEF OwnedOnce
    <2>3. CASE mgr.pc = "close"
      BY <1>1, <1>4, <2>1, <2>3, OwnedAt DEF OwnedOnce, Threads, InMgr
    <2>4. QED
      BY <1>4, <2>2, <2>3
  <1>5. QED
    BY <1>2, <1>3, <1>4

-----------------------------------------------------------------------------
(* The owners, one lemma per thread.                                       *)

\* A thread keeps finding what it has found when its slot and its client stay.
LEMMA LooksStay ==
    ASSUME NEW F, NEW G, NEW S, NEW C, NEW T, NEW D, NEW t, NEW x, NEW f, NEW looking,
           Finds(F, t, x, looking), DropsLeft(S, C, x), LeftStay(S, C, T, D, f),
           x.pc \in looking => G[t][x.i] = F[t][x.i],
           x.pc \in {"drop", "close"} => x.fd # f
    PROVE  Finds(G, t, x, looking) /\ DropsLeft(T, D, x)
  BY DEF Finds, DropsLeft, LeftStay, HasLeft

\* A step that touches no array and none of the threads' variables changes no owner.
LEMMA SameOwned ==
    ASSUME UNCHANGED fds, InMain' = InMain, InPoll' = InPoll, InLogs' = InLogs, InMgr' = InMgr
    PROVE  Owned' = Owned
  BY DEF Owned

\* The steps of main keep every descriptor with one owner ...
LEMMA MainOwners ==
    ASSUME OwnerInv, Main
    PROVE  /\ OwnedOnce(Owned', sock') /\ SocketsOnce(sock', conn')
           /\ PollLooks(fds', sock', conn', poll') /\ LogsLooks(fds', sock', conn', logs')
           /\ MgrLooks(fds', sock', conn', mgr') /\ MainFills' /\ NoCommand'
  <1>1. /\ TablesOK /\ KernelOK /\ MainOK /\ MainPlace
        /\ OwnedOnce(Owned, sock) /\ SocketsOnce(sock, conn)
    BY Parts DEF OwnerInv, TableInv, Positions
  <1>2. UNCHANGED <<poll, logs, mgr>>
    BY DEF Main, Accept, TurnAway, LockTable, SlotUsed, NoSlot, SlotFree, StoreSize, PutFd
  <1>3. NoCommand' /\ InPoll' = InPoll /\ InLogs' = InLogs /\ InMgr' = InMgr
    BY <1>2 DEF OwnerInv, NoCommand, InPoll, InLogs, InMgr
  <1>4. SUFFICES /\ OwnedOnce(Owned', sock') /\ SocketsOnce(sock', conn') /\ MainFills'
                 /\ \E f : /\ LeftStay(sock, conn, sock', conn', f)
                           /\ f \in {NoFd, Owned[<<"main", 0>>]}
                 /\ \A t \in Types : \A i \in Slots(t) :
                       fds[t][i] # NoFd => fds'[t][i] = fds[t][i]
    <2>1. PICK f : /\ LeftStay(sock, conn, sock', conn', f)
                   /\ f \in {NoFd, Owned[<<"main", 0>>]}
      BY <1>4
    <2>2. /\ poll.pc \in {"drop", "close"} => poll.fd # f
          /\ logs.pc \in {"drop", "close"} => logs.fd # f
          /\ mgr.pc \in {"drop", "close"} => mgr.fd # f
      <3>1. CASE f = NoFd
        BY <3>1, Constants DEF OwnerInv, PollLooks, LogsLooks, MgrLooks, DropsLeft, HasLeft
      <3>2. CASE f = Owned[<<"main", 0>>]
        BY <3>2, OthersFd DEF Threads
      <3>3. QED
        BY <2>1, <3>1, <3>2
    <2>3. /\ poll.pc \in {"alive", "use", "drop"} => fds'["worker"][poll.i] = fds["worker"][poll.i]
          /\ logs.pc \in {"send", "drop"} => fds'["logs"][logs.i] = fds["logs"][logs.i]
          /\ mgr.pc \in {"recv", "drop"} => fds'["manager"][mgr.i] = fds["manager"][mgr.i]
      <3>1. poll.pc \in {"alive", "use", "drop"} =>
                poll.i \in Slots("worker") /\ fds["worker"][poll.i] # NoFd
        BY Constants DEF OwnerInv, TableInv, Positions, PollPlace, PollLooks, Finds
      <3>2. logs.pc \in {"send", "drop"} => logs.i \in Slots("logs") /\ fds["logs"][logs.i] # NoFd
        BY Constants DEF OwnerInv, TableInv, Positions, LogsPlace, LogsLooks, Finds
      <3>3. mgr.pc \in {"recv", "drop"} =>
                mgr.i \in Slots("manager") /\ fds["manager"][mgr.i] # NoFd
        BY Constants DEF OwnerInv, TableInv, Positions, MgrPlace, MgrLooks, Finds
      <3>4. QED
        BY <1>4, <3>1, <3>2, <3>3 DEF Types
    <2>4. PollLooks(fds', sock', conn', poll)
      BY <2>1, <2>2, <2>3, LooksStay DEF OwnerInv, PollLooks
    <2>5. LogsLooks(fds', sock', conn', logs)
      BY <2>1, <2>2, <2>3, LooksStay DEF OwnerInv, LogsLooks
    <2>6. MgrLooks(fds', sock', conn', mgr)
      BY <2>1, <2>2, <2>3, LooksStay DEF OwnerInv, MgrLooks
    <2>7. QED
      BY <1>2, <1>3, <1>4, <2>4, <2>5, <2>6
  <1>5. CASE \E c \in Clients : Accept(c)
    <2>1. PICK c \in Clients : Accept(c)
      BY <1>5
    <2>2. PICK f \in Fds : /\ Closed(f) /\ sock' = [sock EXCEPT ![f] = c]
                           /\ main' = [pc |-> "lock", t |-> TypeOf(c), i |-> 1, fd |-> f, n |-> 0]
      BY <2>1 DEF Accept
    <2>3. UNCHANGED fds /\ conn[c] = "away" /\ conn' = [conn EXCEPT ![c] = "open"] /\ main.pc = "accept"
      BY <2>1 DEF Accept, table
    <2>4. InMain = NoFd /\ InMain' = f
      BY <2>2, <2>3 DEF InMain
    <2>5. Gets(Owned, Owned', <<"main", 0>>, f)
      <3>1. \A t \in Types : \A i \in Slots(t) : Owned'[<<t, i>>] = Owned[<<t, i>>]
        BY <2>3, OwnedAt
      <3>2. \A x \in Threads \ {"main"} : Owned'[<<x, 0>>] = Owned[<<x, 0>>]
        BY <1>3, OwnedAt DEF Threads
      <3>3. QED
        BY <2>4, <3>1, <3>2, OwnedAt, OwnerKeys DEF Gets, Threads
    <2>6. OwnedOnce(Owned', sock')
      BY <1>1, <2>2, <2>5, GetOne DEF Closed, KernelOK
    <2>7. SocketsOnce(sock', conn') /\ LeftStay(sock, conn, sock', conn', NoFd)
      BY <1>1, <2>2, <2>3, OpenConnection DEF Closed
    <2>8. MainFills'
      BY <2>2 DEF MainFills
    <2>9. QED
      BY <2>3, <2>6, <2>7, <2>8
  <1>6. CASE TurnAway \/ NoSlot
    <2>1. UNCHANGED fds /\ Close(main.fd) /\ main.pc # "accept" /\ main'.pc = "accept"
      BY <1>6 DEF TurnAway, NoSlot, table, MainIdle
    <2>2. InMain = main.fd /\ InMain' = NoFd /\ main.fd = Owned[<<"main", 0>>]
      BY <2>1, OwnedAt DEF InMain
    <2>3. GivesUp(Owned, Owned', <<"main", 0>>)
      <3>1. \A t \in Types : \A i \in Slots(t) : Owned'[<<t, i>>] = Owned[<<t, i>>]
        BY <2>1, OwnedAt
      <3>2. \A x \in Threads \ {"main"} : Owned'[<<x, 0>>] = Owned[<<x, 0>>]
        BY <1>3, OwnedAt DEF Threads
      <3>3. QED
        BY <2>2, <3>1, <3>2, OwnedAt, OwnerKeys DEF GivesUp, Threads
    <2>4. /\ OwnedOnce(Owned', sock') /\ SocketsOnce(sock', conn')
          /\ LeftStay(sock, conn, sock', conn', main.fd)
      BY <2>1, <2>2, <2>3, CloseOwned DEF Threads
    <2>5. MainFills'
      BY <2>1 DEF MainFills
    <2>6. QED
      BY <2>1, <2>2, <2>4, <2>5
  <1>7. CASE LockTable \/ SlotUsed \/ SlotFree \/ StoreSize
    <2>1. UNCHANGED <<fds, sock, conn>> /\ main.pc # "accept"
      BY <1>7 DEF LockTable, SlotUsed, SlotFree, StoreSize, table, kernel
    <2>2. main'.pc # "accept" /\ main'.fd = main.fd
      BY <1>1, <1>7 DEF LockTable, SlotUsed, SlotFree, StoreSize, MainOK
    <2>3. Owned' = Owned
      BY <1>3, <2>1, <2>2, SameOwned DEF InMain
    <2>4. MainFills'
      <3>1. CASE LockTable \/ SlotUsed
        <4>1. main'.pc = "scan"
          BY <1>1, <3>1 DEF LockTable, SlotUsed, MainOK
        <4>2. QED
          BY <4>1 DEF MainFills
      <3>2. CASE SlotFree
        <4>1. main'.t = main.t /\ main'.i = main.i /\ fds[main.t][main.i] = NoFd
          BY <1>1, <3>2 DEF SlotFree, MainOK
        <4>2. QED
          BY <2>1, <4>1 DEF MainFills
      <3>3. CASE StoreSize
        <4>1. main'.t = main.t /\ main'.i = main.i /\ main.pc = "store"
          BY <1>1, <3>3 DEF StoreSize, MainOK
        <4>2. QED
          BY <2>1, <4>1 DEF MainFills, OwnerInv
      <3>4. QED
        BY <1>7, <3>1, <3>2, <3>3
    <2>5. LeftStay(sock, conn, sock', conn', NoFd)
      BY <2>1 DEF LeftStay
    <2>6. QED
      BY <1>1, <2>1, <2>3, <2>4, <2>5
  <1>8. CASE PutFd
    <2>1. /\ main.pc = "put" /\ main'.pc = "accept" /\ UNCHANGED <<sock, conn>>
          /\ fds' = [fds EXCEPT ![main.t][main.i] = main.fd]
      BY <1>8 DEF PutFd, MainIdle, kernel
    <2>2. /\ main.t \in Types /\ main.i \in Slots(main.t) /\ fds[main.t][main.i] = NoFd
      BY <1>1, <2>1 DEF MainPlace, MainOK, MainFills, OwnerInv
    <2>3. /\ fds'[main.t][main.i] = main.fd
          /\ \A t \in Types : \A i \in Slots(t) :
                <<t, i>> # <<main.t, main.i>> => fds'[t][i] = fds[t][i]
      BY <1>1, <2>1, <2>2 DEF TablesOK, FdsOK
    <2>4. InMain = main.fd /\ InMain' = NoFd
      BY <2>1 DEF InMain
    <2>5. Hands(Owned, Owned', <<"main", 0>>, <<main.t, main.i>>)
      <3>1. \A t \in Types : \A i \in Slots(t) :
                <<t, i>> # <<main.t, main.i>> => Owned'[<<t, i>>] = Owned[<<t, i>>]
        BY <2>3, OwnedAt
      <3>2. \A x \in Threads \ {"main"} : Owned'[<<x, 0>>] = Owned[<<x, 0>>]
        BY <1>3, OwnedAt DEF Threads
      <3>3. /\ <<main.t, main.i>> \in Keys /\ <<"main", 0>> \in Keys
            /\ <<main.t, main.i>> # <<"main", 0>>
        BY <2>2, OwnerKeys DEF Threads, Types
      <3>4. /\ Owned[<<main.t, main.i>>] = NoFd /\ Owned'[<<main.t, main.i>>] = Owned[<<"main", 0>>]
            /\ Owned'[<<"main", 0>>] = NoFd
        BY <2>2, <2>3, <2>4, OwnedAt
      <3>5. QED
        BY <3>1, <3>2, <3>3, <3>4, OwnerKeys DEF Hands, Threads
    <2>6. OwnedOnce(Owned', sock')
      BY <1>1, <2>1, <2>5, HandOver
    <2>7. MainFills' /\ LeftStay(sock, conn, sock', conn', NoFd)
      BY <2>1 DEF MainFills, LeftStay
    <2>8. QED
      BY <1>1, <2>1, <2>2, <2>3, <2>6, <2>7
  <1>9. QED
    BY <1>5, <1>6, <1>7, <1>8 DEF Main

\* ... the poller's ...
LEMMA PollOwners ==
    ASSUME OwnerInv, Poller
    PROVE  /\ OwnedOnce(Owned', sock') /\ SocketsOnce(sock', conn')
           /\ PollLooks(fds', sock', conn', poll') /\ LogsLooks(fds', sock', conn', logs')
           /\ MgrLooks(fds', sock', conn', mgr') /\ MainFills' /\ NoCommand'
  <1>1. /\ TablesOK /\ KernelOK /\ PollOK /\ PollPlace
        /\ OwnedOnce(Owned, sock) /\ SocketsOnce(sock, conn)
        /\ Finds(fds, "worker", poll, {"alive", "use", "drop"}) /\ DropsLeft(sock, conn, poll)
    BY Parts DEF OwnerInv, TableInv, Positions, PollLooks
  <1>2. UNCHANGED <<main, logs, mgr>>
    BY DEF Poller, PollStart, PollEnd, PollLook, PollAlive, PollUse, PollDrop, PollClose, PollStop
  <1>3. NoCommand' /\ InMain' = InMain /\ InLogs' = InLogs /\ InMgr' = InMgr
    BY <1>2 DEF OwnerInv, NoCommand, InMain, InLogs, InMgr
  <1>4. SUFFICES /\ OwnedOnce(Owned', sock') /\ SocketsOnce(sock', conn')
                 /\ PollLooks(fds', sock', conn', poll')
                 /\ \E f : /\ LeftStay(sock, conn, sock', conn', f)
                           /\ f \in {NoFd, Owned[<<"poller", 0>>]}
                 /\ \A t \in Types : \A i \in Slots(t) :
                       \/ fds'[t][i] = fds[t][i]
                       \/ t = "worker" /\ fds'[t][i] = NoFd
    <2>1. PICK f : /\ LeftStay(sock, conn, sock', conn', f)
                   /\ f \in {NoFd, Owned[<<"poller", 0>>]}
      BY <1>4
    <2>2. /\ logs.pc \in {"drop", "close"} => logs.fd # f
          /\ mgr.pc \in {"drop", "close"} => mgr.fd # f
      <3>1. CASE f = NoFd
        BY <3>1, Constants DEF OwnerInv, LogsLooks, MgrLooks, DropsLeft, HasLeft
      <3>2. CASE f = Owned[<<"poller", 0>>]
        BY <3>2, OthersFd DEF Threads
      <3>3. QED
        BY <2>1, <3>1, <3>2
    <2>3. /\ logs.pc \in {"send", "drop"} => fds'["logs"][logs.i] = fds["logs"][logs.i]
          /\ mgr.pc \in {"recv", "drop"} => fds'["manager"][mgr.i] = fds["manager"][mgr.i]
      <3>1. logs.pc \in {"send", "drop"} => logs.i \in Slots("logs")
        BY DEF OwnerInv, TableInv, Positions, LogsPlace
      <3>2. mgr.pc \in {"recv", "drop"} => mgr.i \in Slots("manager")
        BY DEF OwnerInv, TableInv, Positions, MgrPlace
      <3>3. QED
        BY <1>4, <3>1, <3>2 DEF Types
    <2>4. LogsLooks(fds', sock', conn', logs)
      BY <2>1, <2>2, <2>3, LooksStay DEF OwnerInv, LogsLooks
    <2>5. MgrLooks(fds', sock', conn', mgr)
      BY <2>1, <2>2, <2>3, LooksStay DEF OwnerInv, MgrLooks
    <2>6. MainFills'
      <3>1. main.pc \in {"store", "put"} => main.t \in Types /\ main.i \in Slots(main.t)
        BY Parts DEF OwnerInv, TableInv, Positions, MainPlace, MainOK
      <3>2. QED
        BY <1>2, <1>4, <3>1 DEF OwnerInv, MainFills
    <2>7. QED
      BY <1>2, <1>3, <1>4, <2>4, <2>5, <2>6
  <1>5. NextWorker => poll'.pc = "look"
    BY DEF NextWorker
  <1>6. CASE PollStart \/ PollEnd \/ PollLook \/ PollAlive \/ PollUse \/ PollStop
    <2>1. UNCHANGED <<fds, sock, conn>> /\ poll.pc # "close"
      BY <1>6 DEF PollStart, PollEnd, PollLook, PollAlive, PollUse, PollStop, table, kernel
    <2>2. poll'.pc # "close" /\ PollLooks(fds, sock, conn, poll')
      <3>1. CASE poll'.pc \in {"look", "idle", "stop", "stopped"}
        BY <3>1 DEF PollLooks, Finds, DropsLeft
      <3>2. CASE PollLook /\ poll'.pc \notin {"look", "idle", "stop", "stopped"}
        <4>1. /\ poll.i \in Slots("worker") /\ fds["worker"][poll.i] # NoFd
              /\ poll' = [poll EXCEPT !.pc = "alive", !.fd = fds["worker"][poll.i]]
          BY <1>5, <3>2 DEF PollLook
        <4>2. fds["worker"][poll.i] \in Fds
          BY <1>1, <4>1 DEF TablesOK, FdsOK, Types
        <4>3. poll'.pc = "alive" /\ poll'.fd = fds["worker"][poll.i] /\ poll'.i = poll.i
          BY <1>1, <4>1 DEF PollOK
        <4>4. QED
          BY <4>2, <4>3 DEF PollLooks, Finds, DropsLeft
      <3>3. CASE (PollAlive \/ PollUse) /\ poll'.pc \notin {"look", "idle", "stop", "stopped"}
        <4>1. poll.pc \in {"alive", "use"} /\ poll.fd \in Fds /\ fds["worker"][poll.i] = poll.fd
          BY <1>1, <3>3 DEF PollAlive, PollUse, Finds
        <4>2. ~Closed(poll.fd)
          <5>1. poll.i \in Slots("worker") /\ "worker" \in Types
            BY <1>1, <4>1 DEF PollPlace, Types
          <5>2. <<"worker", poll.i>> \in Keys /\ Owned[<<"worker", poll.i>>] = poll.fd
            BY <4>1, <5>1, OwnerKeys, OwnedAt
          <5>3. QED
            BY <1>1, <4>1, <5>2 DEF OwnedOnce, Closed
        <4>3. \/ poll' = [poll EXCEPT !.pc = "use"]
              \/ Left(poll.fd) /\ poll' = [poll EXCEPT !.pc = "drop"]
              \/ poll' = [poll EXCEPT !.pc = "stop"]
          BY <1>5, <3>3, <4>2 DEF PollAlive, PollUse
        <4>4. poll'.fd = poll.fd /\ poll'.i = poll.i /\ poll'.pc \in {"use", "drop"}
              /\ (poll'.pc = "drop" => Left(poll.fd))
          BY <1>1, <3>3, <4>3 DEF PollOK
        <4>5. QED
          BY <4>1, <4>4 DEF PollLooks, Finds, DropsLeft, HasLeft, Left, Closed
      <3>4. CASE PollStart \/ PollEnd \/ PollStop
        <4>1. PollStart => poll'.pc = "look"
          BY <1>1 DEF PollStart, PollOK
        <4>2. PollEnd => poll'.pc = "idle"
          BY DEF PollEnd, Idle
        <4>3. PollStop => poll'.pc = "stopped"
          BY <1>1 DEF PollStop, PollOK
        <4>4. QED
          BY <3>1, <3>4, <4>1, <4>2, <4>3
      <3>5. QED
        BY <1>6, <3>1, <3>2, <3>3, <3>4
    <2>3. Owned' = Owned
      BY <1>3, <2>1, <2>2, SameOwned DEF InPoll
    <2>4. LeftStay(sock, conn, sock', conn', NoFd)
      BY <2>1 DEF LeftStay
    <2>5. QED
      BY <1>1, <2>1, <2>2, <2>3, <2>4
  <1>7. CASE PollDrop
    <2>1. /\ poll.pc = "drop" /\ UNCHANGED <<sock, conn>>
          /\ fds' = [fds EXCEPT !["worker"][poll.i] = NoFd]
          /\ poll' = [poll EXCEPT !.pc = "close"]
      BY <1>7 DEF PollDrop, kernel
    <2>2. /\ poll'.pc = "close" /\ poll'.fd = poll.fd /\ poll'.i = poll.i
          /\ poll.i \in Slots("worker") /\ "worker" \in Types
          /\ fds["worker"][poll.i] = poll.fd
      BY <1>1, <2>1 DEF PollOK, PollPlace, Finds, Types
    <2>3. /\ fds'["worker"][poll.i] = NoFd
          /\ \A t \in Types : \A i \in Slots(t) :
                <<t, i>> # <<"worker", poll.i>> => fds'[t][i] = fds[t][i]
      BY <1>1, <2>1, <2>2 DEF TablesOK, FdsOK
    <2>4. InPoll = NoFd /\ InPoll' = poll.fd
      BY <2>1, <2>2 DEF InPoll
    <2>5. Hands(Owned, Owned', <<"worker", poll.i>>, <<"poller", 0>>)
      <3>1. \A t \in Types : \A i \in Slots(t) :
                <<t, i>> # <<"worker", poll.i>> => Owned'[<<t, i>>] = Owned[<<t, i>>]
        BY <2>3, OwnedAt
      <3>2. \A x \in Threads \ {"poller"} : Owned'[<<x, 0>>] = Owned[<<x, 0>>]
        BY <1>3, OwnedAt DEF Threads
      <3>3. /\ <<"worker", poll.i>> \in Keys /\ <<"poller", 0>> \in Keys
            /\ <<"worker", poll.i>> # <<"poller", 0>>
        BY <2>2, OwnerKeys DEF Threads
      <3>4. /\ Owned[<<"poller", 0>>] = NoFd
            /\ Owned'[<<"poller", 0>>] = Owned[<<"worker", poll.i>>]
            /\ Owned'[<<"worker", poll.i>>] = NoFd
        BY <2>2, <2>3, <2>4, OwnedAt
      <3>5. QED
        BY <3>1, <3>2, <3>3, <3>4, OwnerKeys DEF Hands, Threads
    <2>6. OwnedOnce(Owned', sock')
      BY <1>1, <2>1, <2>5, HandOver
    <2>7. PollLooks(fds', sock', conn', poll') /\ LeftStay(sock, conn, sock', conn', NoFd)
      BY <1>1, <2>1, <2>2 DEF PollLooks, Finds, DropsLeft, LeftStay
    <2>8. QED
      BY <1>1, <2>1, <2>3, <2>6, <2>7
  <1>8. CASE PollClose
    <2>1. UNCHANGED fds /\ Close(poll.fd) /\ poll.pc = "close" /\ poll'.pc = "look"
      BY <1>5, <1>8 DEF PollClose
    <2>2. InPoll = poll.fd /\ InPoll' = NoFd /\ poll.fd = Owned[<<"poller", 0>>]
      BY <2>1, OwnedAt DEF InPoll
    <2>3. GivesUp(Owned, Owned', <<"poller", 0>>)
      <3>1. \A t \in Types : \A i \in Slots(t) : Owned'[<<t, i>>] = Owned[<<t, i>>]
        BY <2>1, OwnedAt
      <3>2. \A x \in Threads \ {"poller"} : Owned'[<<x, 0>>] = Owned[<<x, 0>>]
        BY <1>3, OwnedAt DEF Threads
      <3>3. QED
        BY <2>2, <3>1, <3>2, OwnedAt, OwnerKeys DEF GivesUp, Threads
    <2>4. /\ OwnedOnce(Owned', sock') /\ SocketsOnce(sock', conn')
          /\ LeftStay(sock, conn, sock', conn', poll.fd)
      BY <2>1, <2>2, <2>3, CloseOwned DEF Threads
    <2>5. PollLooks(fds', sock', conn', poll')
      BY <2>1 DEF PollLooks, Finds, DropsLeft
    <2>6. QED
      BY <2>1, <2>2, <2>4, <2>5
  <1>9. QED
    BY <1>6, <1>7, <1>8 DEF Poller

\* ... the logs sender's ...
LEMMA LogsOwners ==
    ASSUME OwnerInv, LogsSender
    PROVE  /\ OwnedOnce(Owned', sock') /\ SocketsOnce(sock', conn')
           /\ PollLooks(fds', sock', conn', poll') /\ LogsLooks(fds', sock', conn', logs')
           /\ MgrLooks(fds', sock', conn', mgr') /\ MainFills' /\ NoCommand'
  <1>1. /\ TablesOK /\ KernelOK /\ LogsOK /\ LogsPlace
        /\ OwnedOnce(Owned, sock) /\ SocketsOnce(sock, conn)
        /\ Finds(fds, "logs", logs, {"send", "drop"}) /\ DropsLeft(sock, conn, logs)
    BY Parts DEF OwnerInv, TableInv, Positions, LogsLooks
  <1>2. UNCHANGED <<main, poll, mgr>>
    BY DEF LogsSender, SendStart, SendLook, SendLog, SendDrop, SendClose
  <1>3. NoCommand' /\ InMain' = InMain /\ InPoll' = InPoll /\ InMgr' = InMgr
    BY <1>2 DEF OwnerInv, NoCommand, InMain, InPoll, InMgr
  <1>4. SUFFICES /\ OwnedOnce(Owned', sock') /\ SocketsOnce(sock', conn')
                 /\ LogsLooks(fds', sock', conn', logs')
                 /\ \E f : /\ LeftStay(sock, conn, sock', conn', f)
                           /\ f \in {NoFd, Owned[<<"sender", 0>>]}
                 /\ \A t \in Types : \A i \in Slots(t) :
                       \/ fds'[t][i] = fds[t][i]
                       \/ t = "logs" /\ fds'[t][i] = NoFd
    <2>1. PICK f : /\ LeftStay(sock, conn, sock', conn', f)
                   /\ f \in {NoFd, Owned[<<"sender", 0>>]}
      BY <1>4
    <2>2. /\ poll.pc \in {"drop", "close"} => poll.fd # f
          /\ mgr.pc \in {"drop", "close"} => mgr.fd # f
      <3>1. CASE f = NoFd
        BY <3>1, Constants DEF OwnerInv, PollLooks, MgrLooks, DropsLeft, HasLeft
      <3>2. CASE f = Owned[<<"sender", 0>>]
        BY <3>2, OthersFd DEF Threads
      <3>3. QED
        BY <2>1, <3>1, <3>2
    <2>3. /\ poll.pc \in {"alive", "use", "drop"} => fds'["worker"][poll.i] = fds["worker"][poll.i]
          /\ mgr.pc \in {"recv", "drop"} => fds'["manager"][mgr.i] = fds["manager"][mgr.i]
      <3>1. poll.pc \in {"alive", "use", "drop"} => poll.i \in Slots("worker")
        BY DEF OwnerInv, TableInv, Positions, PollPlace
      <3>2. mgr.pc \in {"recv", "drop"} => mgr.i \in Slots("manager")
        BY DEF OwnerInv, TableInv, Positions, MgrPlace
      <3>3. QED
        BY <1>4, <3>1, <3>2 DEF Types
    <2>4. PollLooks(fds', sock', conn', poll)
      BY <2>1, <2>2, <2>3, LooksStay DEF OwnerInv, PollLooks
    <2>5. MgrLooks(fds', sock', conn', mgr)
      BY <2>1, <2>2, <2>3, LooksStay DEF OwnerInv, MgrLooks
    <2>6. MainFills'
      <3>1. main.pc \in {"store", "put"} => main.t \in Types /\ main.i \in Slots(main.t)
        BY Parts DEF OwnerInv, TableInv, Positions, MainPlace, MainOK
      <3>2. QED
        BY <1>2, <1>4, <3>1 DEF OwnerInv, MainFills
    <2>7. QED
      BY <1>2, <1>3, <1>4, <2>4, <2>5, <2>6
  <1>5. NextCollector => logs'.pc = "look"
    BY DEF NextCollector
  <1>6. CASE SendStart \/ SendLook \/ SendLog
    <2>1. UNCHANGED <<fds, sock, conn>> /\ logs.pc # "close"
      BY <1>6 DEF SendStart, SendLook, SendLog, table, kernel
    <2>2. logs'.pc # "close" /\ LogsLooks(fds, sock, conn, logs')
      <3>1. CASE logs'.pc \in {"look", "idle"}
        BY <3>1 DEF LogsLooks, Finds, DropsLeft
      <3>2. CASE SendStart
        <4>1. logs'.pc = "look"
          BY <1>1, <3>2 DEF SendStart, LogsOK
        <4>2. QED
          BY <3>1, <4>1
      <3>3. CASE SendLook /\ logs'.pc \notin {"look", "idle"}
        <4>1. /\ logs.i \in Slots("logs") /\ fds["logs"][logs.i] # NoFd
              /\ logs' = [logs EXCEPT !.pc = "send", !.fd = fds["logs"][logs.i]]
          BY <1>5, <3>3 DEF SendLook, Idle
        <4>2. fds["logs"][logs.i] \in Fds
          BY <1>1, <4>1 DEF TablesOK, FdsOK, Types
        <4>3. logs'.pc = "send" /\ logs'.fd = fds["logs"][logs.i] /\ logs'.i = logs.i
          BY <1>1, <4>1 DEF LogsOK
        <4>4. QED
          BY <4>2, <4>3 DEF LogsLooks, Finds, DropsLeft
      <3>4. CASE SendLog /\ logs'.pc \notin {"look", "idle"}
        <4>1. logs.fd \in Fds /\ fds["logs"][logs.i] = logs.fd
          BY <1>1, <3>4 DEF SendLog, Finds
        <4>2. Left(logs.fd) /\ logs' = [logs EXCEPT !.pc = "drop"]
          BY <1>5, <3>4 DEF SendLog
        <4>3. logs'.fd = logs.fd /\ logs'.i = logs.i /\ logs'.pc = "drop"
          BY <1>1, <4>2 DEF LogsOK
        <4>4. QED
          BY <4>1, <4>2, <4>3 DEF LogsLooks, Finds, DropsLeft, HasLeft, Left, Closed
      <3>5. QED
        BY <1>6, <3>1, <3>2, <3>3, <3>4
    <2>3. Owned' = Owned
      BY <1>3, <2>1, <2>2, SameOwned DEF InLogs
    <2>4. LeftStay(sock, conn, sock', conn', NoFd)
      BY <2>1 DEF LeftStay
    <2>5. QED
      BY <1>1, <2>1, <2>2, <2>3, <2>4
  <1>7. CASE SendDrop
    <2>1. /\ logs.pc = "drop" /\ UNCHANGED <<sock, conn>>
          /\ fds' = [fds EXCEPT !["logs"][logs.i] = NoFd]
          /\ logs' = [logs EXCEPT !.pc = "close", !.fd = fds["logs"][logs.i]]
      BY <1>7 DEF SendDrop, kernel
    <2>2. /\ logs.i \in Slots("logs") /\ "logs" \in Types
          /\ fds["logs"][logs.i] = logs.fd
      BY <1>1, <2>1 DEF LogsPlace, Finds, Types
    <2>3. logs'.pc = "close" /\ logs'.fd = logs.fd /\ logs'.i = logs.i
      BY <1>1, <2>1, <2>2 DEF LogsOK
    <2>4. /\ fds'["logs"][logs.i] = NoFd
          /\ \A t \in Types : \A i \in Slots(t) :
                <<t, i>> # <<"logs", logs.i>> => fds'[t][i] = fds[t][i]
      BY <1>1, <2>1, <2>2 DEF TablesOK, FdsOK
    <2>5. InLogs = NoFd /\ InLogs' = logs.fd
      BY <2>1, <2>3 DEF InLogs
    <2>6. Hands(Owned, Owned', <<"logs", logs.i>>, <<"sender", 0>>)
      <3>1. \A t \in Types : \A i \in Slots(t) :
                <<t, i>> # <<"logs", logs.i>> => Owned'[<<t, i>>] = Owned[<<t, i>>]
        BY <2>4, OwnedAt
      <3>2. \A x \in Threads \ {"sender"} : Owned'[<<x, 0>>] = Owned[<<x, 0>>]
        BY <1>3, OwnedAt DEF Threads
      <3>3. /\ <<"logs", logs.i>> \in Keys /\ <<"sender", 0>> \in Keys
            /\ <<"logs", logs.i>> # <<"sender", 0>>
        BY <2>2, OwnerKeys DEF Threads
      <3>4. /\ Owned[<<"sender", 0>>] = NoFd
            /\ Owned'[<<"sender", 0>>] = Owned[<<"logs", logs.i>>]
            /\ Owned'[<<"logs", logs.i>>] = NoFd
        BY <2>2, <2>4, <2>5, OwnedAt
      <3>5. QED
        BY <3>1, <3>2, <3>3, <3>4, OwnerKeys DEF Hands, Threads
    <2>7. OwnedOnce(Owned', sock')
      BY <1>1, <2>1, <2>6, HandOver
    <2>8. LogsLooks(fds', sock', conn', logs') /\ LeftStay(sock, conn, sock', conn', NoFd)
      BY <1>1, <2>1, <2>3 DEF LogsLooks, Finds, DropsLeft, LeftStay
    <2>9. QED
      BY <1>1, <2>1, <2>4, <2>7, <2>8
  <1>8. CASE SendClose
    <2>1. UNCHANGED fds /\ Close(logs.fd) /\ logs.pc = "close" /\ logs'.pc = "look"
      BY <1>5, <1>8 DEF SendClose, table
    <2>2. InLogs = logs.fd /\ InLogs' = NoFd /\ logs.fd = Owned[<<"sender", 0>>]
      BY <2>1, OwnedAt DEF InLogs
    <2>3. GivesUp(Owned, Owned', <<"sender", 0>>)
      <3>1. \A t \in Types : \A i \in Slots(t) : Owned'[<<t, i>>] = Owned[<<t, i>>]
        BY <2>1, OwnedAt
      <3>2. \A x \in Threads \ {"sender"} : Owned'[<<x, 0>>] = Owned[<<x, 0>>]
        BY <1>3, OwnedAt DEF Threads
      <3>3. QED
        BY <2>2, <3>1, <3>2, OwnedAt, OwnerKeys DEF GivesUp, Threads
    <2>4. /\ OwnedOnce(Owned', sock') /\ SocketsOnce(sock', conn')
          /\ LeftStay(sock, conn, sock', conn', logs.fd)
      BY <2>1, <2>2, <2>3, CloseOwned DEF Threads
    <2>5. LogsLooks(fds', sock', conn', logs')
      BY <2>1 DEF LogsLooks, Finds, DropsLeft
    <2>6. QED
      BY <2>1, <2>2, <2>4, <2>5
  <1>9. QED
    BY <1>6, <1>7, <1>8 DEF LogsSender

\* ... the managers' poller's, which has no shutdown to do ...
LEMMA MgrOwners ==
    ASSUME OwnerInv, Targets = {}, Manager
    PROVE  /\ OwnedOnce(Owned', sock') /\ SocketsOnce(sock', conn')
           /\ PollLooks(fds', sock', conn', poll') /\ LogsLooks(fds', sock', conn', logs')
           /\ MgrLooks(fds', sock', conn', mgr') /\ MainFills' /\ NoCommand'
  <1>1. /\ TablesOK /\ KernelOK /\ MgrOK /\ MgrPlace /\ NoCommand
        /\ OwnedOnce(Owned, sock) /\ SocketsOnce(sock, conn)
        /\ Finds(fds, "manager", mgr, {"recv", "drop"}) /\ DropsLeft(sock, conn, mgr)
    BY Parts DEF OwnerInv, TableInv, Positions, MgrLooks
  <1>0. MgrStart \/ MgrLook \/ MgrRecv \/ MgrDrop \/ MgrClose
    BY <1>1 DEF Manager, NoCommand, MgrNotHere, MgrOther, MgrFound, MgrShut, MgrClear, MgrReply
  <1>2. UNCHANGED <<main, poll, logs>>
    BY <1>0 DEF MgrStart, MgrLook, MgrRecv, MgrDrop, MgrClose
  <1>3. InMain' = InMain /\ InPoll' = InPoll /\ InLogs' = InLogs
    BY <1>2 DEF InMain, InPoll, InLogs
  <1>4. SUFFICES /\ OwnedOnce(Owned', sock') /\ SocketsOnce(sock', conn') /\ NoCommand'
                 /\ MgrLooks(fds', sock', conn', mgr')
                 /\ \E f : /\ LeftStay(sock, conn, sock', conn', f)
                           /\ f \in {NoFd, Owned[<<"handler", 0>>]}
                 /\ \A t \in Types : \A i \in Slots(t) :
                       \/ fds'[t][i] = fds[t][i]
                       \/ t = "manager" /\ fds'[t][i] = NoFd
    <2>1. PICK f : /\ LeftStay(sock, conn, sock', conn', f)
                   /\ f \in {NoFd, Owned[<<"handler", 0>>]}
      BY <1>4
    <2>2. /\ poll.pc \in {"drop", "close"} => poll.fd # f
          /\ logs.pc \in {"drop", "close"} => logs.fd # f
      <3>1. CASE f = NoFd
        BY <3>1, Constants DEF OwnerInv, PollLooks, LogsLooks, DropsLeft, HasLeft
      <3>2. CASE f = Owned[<<"handler", 0>>]
        BY <3>2, OthersFd DEF Threads
      <3>3. QED
        BY <2>1, <3>1, <3>2
    <2>3. /\ poll.pc \in {"alive", "use", "drop"} => fds'["worker"][poll.i] = fds["worker"][poll.i]
          /\ logs.pc \in {"send", "drop"} => fds'["logs"][logs.i] = fds["logs"][logs.i]
      <3>1. poll.pc \in {"alive", "use", "drop"} => poll.i \in Slots("worker")
        BY DEF OwnerInv, TableInv, Positions, PollPlace
      <3>2. logs.pc \in {"send", "drop"} => logs.i \in Slots("logs")
        BY DEF OwnerInv, TableInv, Positions, LogsPlace
      <3>3. QED
        BY <1>4, <3>1, <3>2 DEF Types
    <2>4. PollLooks(fds', sock', conn', poll)
      BY <2>1, <2>2, <2>3, LooksStay DEF OwnerInv, PollLooks
    <2>5. LogsLooks(fds', sock', conn', logs)
      BY <2>1, <2>2, <2>3, LooksStay DEF OwnerInv, LogsLooks
    <2>6. MainFills'
      <3>1. main.pc \in {"store", "put"} => main.t \in Types /\ main.i \in Slots(main.t)
        BY Parts DEF OwnerInv, TableInv, Positions, MainPlace, MainOK
      <3>2. QED
        BY <1>2, <1>4, <3>1 DEF OwnerInv, MainFills
    <2>7. QED
      BY <1>2, <1>4, <2>4, <2>5, <2>6
  <1>5. /\ NextManager => mgr'.pc = "look" /\ mgr'.target = NoClient
        /\ mgr' = MgrIdle => mgr'.pc = "idle" /\ mgr'.target = NoClient
    <2>1. MgrIdle.pc = "idle" /\ MgrIdle.target = NoClient
      BY DEF MgrIdle
    <2>2. ASSUME NextManager PROVE mgr'.pc = "look" /\ mgr'.target = NoClient
      BY <2>2 DEF NextManager, MgrIdle
    <2>3. QED
      BY <2>1, <2>2
  <1>6. CASE MgrStart \/ MgrLook \/ MgrRecv
    <2>1. UNCHANGED <<fds, sock, conn>> /\ mgr.pc # "close"
      BY <1>6 DEF MgrStart, MgrLook, MgrRecv, table, kernel
    <2>2. mgr'.pc # "close" /\ MgrLooks(fds, sock, conn, mgr') /\ NoCommand'
      <3>1. CASE mgr'.pc \in {"look", "idle", "stopped"} /\ mgr'.target = NoClient
        BY <3>1 DEF MgrLooks, Finds, DropsLeft, NoCommand
      <3>2. CASE MgrStart
        <4>1. mgr'.pc = "look" /\ mgr'.target = mgr.target
          BY <1>1, <3>2 DEF MgrStart, MgrOK
        <4>2. QED
          BY <1>1, <3>1, <4>1 DEF NoCommand
      <3>3. CASE MgrLook /\ ~(mgr' = MgrIdle \/ NextManager)
        <4>1. /\ mgr.i \in Slots("manager") /\ fds["manager"][mgr.i] # NoFd
              /\ mgr' = [mgr EXCEPT !.pc = "recv", !.fd = fds["manager"][mgr.i]]
          BY <3>3 DEF MgrLook
        <4>2. fds["manager"][mgr.i] \in Fds
          BY <1>1, <4>1 DEF TablesOK, FdsOK, Types
        <4>3. /\ mgr'.pc = "recv" /\ mgr'.fd = fds["manager"][mgr.i] /\ mgr'.i = mgr.i
              /\ mgr'.target = mgr.target
          BY <1>1, <4>1 DEF MgrOK
        <4>4. QED
          BY <1>1, <4>2, <4>3 DEF MgrLooks, Finds, DropsLeft, NoCommand
      <3>4. CASE MgrRecv /\ ~NextManager
        <4>1. mgr.fd \in Fds /\ fds["manager"][mgr.i] = mgr.fd
          BY <1>1, <3>4 DEF MgrRecv, Finds
        <4>2. Left(mgr.fd) /\ \E l \in {"drop", "stopped"} : mgr' = [mgr EXCEPT !.pc = l]
          BY <3>4 DEF MgrRecv
        <4>3. /\ mgr'.fd = mgr.fd /\ mgr'.i = mgr.i /\ mgr'.pc \in {"drop", "stopped"}
              /\ mgr'.target = mgr.target
          BY <1>1, <4>2 DEF MgrOK
        <4>4. QED
          BY <1>1, <4>1, <4>2, <4>3
             DEF MgrLooks, Finds, DropsLeft, HasLeft, Left, Closed, NoCommand
      <3>5. QED
        BY <1>5, <1>6, <3>1, <3>2, <3>3, <3>4
    <2>3. Owned' = Owned
      BY <1>3, <2>1, <2>2, SameOwned DEF InMgr
    <2>4. LeftStay(sock, conn, sock', conn', NoFd)
      BY <2>1 DEF LeftStay
    <2>5. QED
      BY <1>1, <2>1, <2>2, <2>3, <2>4
  <1>7. CASE MgrDrop
    <2>1. /\ mgr.pc = "drop" /\ UNCHANGED <<sock, conn>>
          /\ fds' = [fds EXCEPT !["manager"][mgr.i] = NoFd]
          /\ mgr' = [mgr EXCEPT !.pc = "close", !.n = arr_size["manager"]]
      BY <1>7 DEF MgrDrop, kernel
    <2>2. /\ mgr.i \in Slots("manager") /\ "manager" \in Types
          /\ fds["manager"][mgr.i] = mgr.fd
      BY <1>1, <2>1 DEF MgrPlace, Finds, Types
    <2>3. mgr'.pc = "close" /\ mgr'.fd = mgr.fd /\ mgr'.i = mgr.i /\ mgr'.target = mgr.target
      BY <1>1, <2>1 DEF MgrOK
    <2>4. /\ fds'["manager"][mgr.i] = NoFd
          /\ \A t \in Types : \A i \in Slots(t) :
                <<t, i>> # <<"manager", mgr.i>> => fds'[t][i] = fds[t][i]
      BY <1>1, <2>1, <2>2 DEF TablesOK, FdsOK
    <2>5. InMgr = NoFd /\ InMgr' = mgr.fd
      BY <2>1, <2>3 DEF InMgr
    <2>6. Hands(Owned, Owned', <<"manager", mgr.i>>, <<"handler", 0>>)
      <3>1. \A t \in Types : \A i \in Slots(t) :
                <<t, i>> # <<"manager", mgr.i>> => Owned'[<<t, i>>] = Owned[<<t, i>>]
        BY <2>4, OwnedAt
      <3>2. \A x \in Threads \ {"handler"} : Owned'[<<x, 0>>] = Owned[<<x, 0>>]
        BY <1>3, OwnedAt DEF Threads
      <3>3. /\ <<"manager", mgr.i>> \in Keys /\ <<"handler", 0>> \in Keys
            /\ <<"manager", mgr.i>> # <<"handler", 0>>
        BY <2>2, OwnerKeys DEF Threads
      <3>4. /\ Owned[<<"handler", 0>>] = NoFd
            /\ Owned'[<<"handler", 0>>] = Owned[<<"manager", mgr.i>>]
            /\ Owned'[<<"manager", mgr.i>>] = NoFd
        BY <2>2, <2>4, <2>5, OwnedAt
      <3>5. QED
        BY <3>1, <3>2, <3>3, <3>4, OwnerKeys DEF Hands, Threads
    <2>7. OwnedOnce(Owned', sock')
      BY <1>1, <2>1, <2>6, HandOver
    <2>8. MgrLooks(fds', sock', conn', mgr') /\ LeftStay(sock, conn, sock', conn', NoFd)
      BY <1>1, <2>1, <2>3 DEF MgrLooks, Finds, DropsLeft, LeftStay
    <2>9. NoCommand'
      BY <1>1, <2>3 DEF NoCommand
    <2>10. QED
      BY <1>1, <2>1, <2>4, <2>7, <2>8, <2>9
  <1>8. CASE MgrClose
    <2>1. /\ UNCHANGED fds /\ Close(mgr.fd) /\ mgr.pc = "close"
          /\ mgr'.pc \in {"look", "idle"} /\ mgr'.target = NoClient
      BY <1>5, <1>8 DEF MgrClose
    <2>2. InMgr = mgr.fd /\ InMgr' = NoFd /\ mgr.fd = Owned[<<"handler", 0>>]
      BY <2>1, OwnedAt DEF InMgr
    <2>3. GivesUp(Owned, Owned', <<"handler", 0>>)
      <3>1. \A t \in Types : \A i \in Slots(t) : Owned'[<<t, i>>] = Owned[<<t, i>>]
        BY <2>1, OwnedAt
      <3>2. \A x \in Threads \ {"handler"} : Owned'[<<x, 0>>] = Owned[<<x, 0>>]
        BY <1>3, OwnedAt DEF Threads
      <3>3. QED
        BY <2>2, <3>1, <3>2, OwnedAt, OwnerKeys DEF GivesUp, Threads
    <2>4. /\ OwnedOnce(Owned', sock') /\ SocketsOnce(sock', conn')
          /\ LeftStay(sock, conn, sock', conn', mgr.fd)
      BY <2>1, <2>2, <2>3, CloseOwned DEF Threads
    <2>5. MgrLooks(fds', sock', conn', mgr') /\ NoCommand'
      BY <2>1 DEF MgrLooks, Finds, DropsLeft, NoCommand
    <2>6. QED
      BY <2>1, <2>2, <2>4, <2>5
  <1>9. QED
    BY <1>0, <1>6, <1>7, <1>8

\* ... and a client that leaves closes no descriptor of the server.
LEMMA LeaveOwners ==
    ASSUME OwnerInv, NEW c \in Clients, Leave(c)
    PROVE  /\ OwnedOnce(Owned', sock') /\ SocketsOnce(sock', conn')
           /\ PollLooks(fds', sock', conn', poll') /\ LogsLooks(fds', sock', conn', logs')
           /\ MgrLooks(fds', sock', conn', mgr') /\ MainFills' /\ NoCommand'
  <1>1. KernelOK /\ OwnedOnce(Owned, sock) /\ SocketsOnce(sock, conn)
    BY Parts DEF OwnerInv, TableInv
  <1>2. UNCHANGED <<fds, sock, main, poll, logs, mgr>> /\ conn' = [conn EXCEPT ![c] = "left"]
    BY DEF Leave, table
  <1>3. Owned' = Owned
    BY <1>2, SameOwned DEF InMain, InPoll, InLogs, InMgr
  <1>4. \A d \in Clients : conn'[d] = IF d = c THEN "left" ELSE conn[d]
    BY <1>1, <1>2 DEF KernelOK
  <1>5. \A f \in Fds : sock[f] # NoClient => sock[f] \in Clients
    BY <1>1 DEF KernelOK
  <1>6. SocketsOnce(sock', conn')
    BY <1>1, <1>2, <1>4, <1>5 DEF SocketsOnce
  <1>7. LeftStay(sock, conn, sock', conn', NoFd)
    BY <1>2, <1>4, <1>5 DEF LeftStay, HasLeft
  <1>8. /\ poll.pc \in {"drop", "close"} => poll.fd # NoFd
        /\ logs.pc \in {"drop", "close"} => logs.fd # NoFd
        /\ mgr.pc \in {"drop", "close"} => mgr.fd # NoFd
    BY Constants DEF OwnerInv, PollLooks, LogsLooks, MgrLooks, DropsLeft, HasLeft
  <1>9. /\ PollLooks(fds', sock', conn', poll) /\ LogsLooks(fds', sock', conn', logs)
        /\ MgrLooks(fds', sock', conn', mgr)
    BY <1>2, <1>7, <1>8, LooksStay DEF OwnerInv, PollLooks, LogsLooks, MgrLooks
  <1>10. MainFills' /\ NoCommand'
    BY <1>2 DEF OwnerInv, MainFills, NoCommand
  <1>11. QED
    BY <1>1, <1>2, <1>3, <1>6, <1>9, <1>10

-----------------------------------------------------------------------------
(* Every descriptor has one owner, and who loses a connection.             *)

\* At the start no descriptor is open.
LEMMA OwnerInit == Init => OwnerInv
  <1> SUFFICES ASSUME Init PROVE OwnerInv
    OBVIOUS
  <1>1. /\ main.pc = "accept" /\ poll.pc = "idle" /\ logs.pc = "idle"
        /\ mgr.pc = "idle" /\ mgr.target = NoClient
    BY DEF Init, MainIdle, Idle, MgrIdle
  <1>2. \A k \in Keys : Owned[k] = NoFd
    <2>1. \A x \in Threads : Owned[<<x, 0>>] = NoFd
      BY <1>1, OwnedAt DEF Threads, InMain, InPoll, InLogs, InMgr
    <2>2. \A t \in Types : \A i \in Slots(t) : Owned[<<t, i>>] = NoFd
      BY OwnedAt DEF Init
    <2>3. QED
      BY <2>1, <2>2, OwnerKeys
  <1>3. \A f \in Fds : sock[f] = NoClient
    BY DEF Init
  <1>4. OwnedOnce(Owned, sock) /\ SocketsOnce(sock, conn)
    BY <1>2, <1>3, Constants DEF OwnedOnce, SocketsOnce
  <1>5. /\ PollLooks(fds, sock, conn, poll) /\ LogsLooks(fds, sock, conn, logs)
        /\ MgrLooks(fds, sock, conn, mgr) /\ MainFills /\ NoCommand
    BY <1>1 DEF PollLooks, LogsLooks, MgrLooks, Finds, DropsLeft, MainFills, NoCommand
  <1>6. QED
    BY <1>4, <1>5, InvInit DEF OwnerInv

\* Without shutdown commands every step keeps the owners.
LEMMA OwnerStep == Targets = {} /\ OwnerInv /\ [Next]_vars => OwnerInv'
  <1> SUFFICES ASSUME Targets = {}, OwnerInv, [Next]_vars PROVE OwnerInv'
    OBVIOUS
  <1>1. TableInv'
    BY InvStep DEF OwnerInv
  <1>2. CASE Main
    BY <1>1, <1>2, MainOwners DEF OwnerInv
  <1>3. CASE Poller
    BY <1>1, <1>3, PollOwners DEF OwnerInv
  <1>4. CASE LogsSender
    BY <1>1, <1>4, LogsOwners DEF OwnerInv
  <1>5. CASE Manager
    BY <1>1, <1>5, MgrOwners DEF OwnerInv
  <1>6. ASSUME NEW c \in Clients, Leave(c) PROVE OwnerInv'
    BY <1>1, <1>6, LeaveOwners DEF OwnerInv
  <1>7. CASE UNCHANGED vars
    <2>1. Owned' = Owned
      BY <1>7, SameOwned DEF vars, InMain, InPoll, InLogs, InMgr
    <2>2. MainFills' /\ NoCommand'
      BY <1>7 DEF vars, OwnerInv, MainFills, NoCommand
    <2>3. QED
      BY <1>1, <1>7, <2>1, <2>2 DEF vars, OwnerInv
  <1>8. QED
    BY <1>2, <1>3, <1>4, <1>5, <1>6, <1>7 DEF Next

\* One owner of each open descriptor is what FdsOwnedOnce counts.
LEMMA OwnersCounted == OwnerInv => FdsOwnedOnce
  <1> SUFFICES ASSUME OwnerInv, NEW f \in Fds
               PROVE  LET owners == {o \in UNION {{t} \X Slots(t) : t \in Types} :
                                       fds[o[1]][o[2]] = f}
                      IN Cardinality(owners \union Holders(f)) = IF Closed(f) THEN 0 ELSE 1
    BY DEF FdsOwnedOnce
  <1> DEFINE owners == {o \in UNION {{t} \X Slots(t) : t \in Types} : fds[o[1]][o[2]] = f}
             all == owners \union Holders(f)
  <1>1. \A t \in Types : \A i \in Slots(t) : <<t, i>> \in owners <=> fds[t][i] = f
    OBVIOUS
  <1>2. \A x \in Threads : <<x, 0>> \in Holders(f) <=> Owned[<<x, 0>>] = f
    BY OwnedAt, Constants DEF Holders, Threads, InMain, InPoll, InLogs, InMgr
  <1>3. owners \subseteq UNION {{t} \X Slots(t) : t \in Types} /\ Holders(f) \subseteq Threads \X {0}
    BY DEF Holders, Threads
  <1>4. all \subseteq Keys
    BY <1>3 DEF Keys
  <1>5. \A k \in all : Owned[k] = f
    <2>1. ASSUME NEW k \in owners PROVE Owned[k] = f
      <3>1. PICK t \in Types : k \in {t} \X Slots(t)
        OBVIOUS
      <3>2. PICK i \in Slots(t) : k = <<t, i>>
        BY <3>1
      <3>3. QED
        BY <2>1, <3>2, <1>1, OwnedAt
    <2>2. ASSUME NEW k \in Holders(f) PROVE Owned[k] = f
      <3>1. PICK x \in Threads : k = <<x, 0>>
        BY <1>3
      <3>2. QED
        BY <2>2, <3>1, <1>2
    <2>3. QED
      BY <2>1, <2>2
  <1>6. \A k \in Keys : Owned[k] = f => k \in all
    BY <1>1, <1>2, OwnedAt, OwnerKeys
  <1>7. /\ \A k, l \in Keys : Owned[k] \in Fds /\ Owned[k] = Owned[l] => k = l
        /\ ~Closed(f) <=> \E k \in Keys : Owned[k] = f
    BY DEF OwnerInv, OwnedOnce, Closed
  <1>8. CASE Closed(f)
    <2>1. all = {}
      BY <1>4, <1>5, <1>7, <1>8
    <2>2. QED
      BY <2>1, <1>8, FS_EmptySet
  <1>9. CASE ~Closed(f)
    <2>1. PICK k \in Keys : Owned[k] = f
      BY <1>7, <1>9
    <2>2. all = {k}
      BY <1>4, <1>5, <1>6, <1>7, <2>1
    <2>3. Cardinality({k}) = 1
      BY FS_Singleton
    <2>4. QED
      BY <2>2, <2>3, <1>9
  <1>10. QED
    BY <1>8, <1>9

\* Without shutdown commands every open descriptor has one owner, in every state.
LEMMA OwnerInvariant == Spec /\ Targets = {} => []OwnerInv
  <1>1. ASSUME Targets = {} PROVE OwnerInv /\ [Next]_vars => OwnerInv'
    BY <1>1, OwnerStep
  <1>2. ASSUME Targets = {} PROVE Spec => []OwnerInv
    BY <1>1, <1>2, OwnerInit, PTL DEF Spec
  <1>3. QED
    BY <1>2

\* Without shutdown commands no descriptor leaks and none is closed twice or
\* left in a slot after it has been closed, for any number of clients and any
\* lengths of the arrays (insert_new_client_into_arrays, poll_workers,
\* send_server_log, close_manager).
THEOREM DescriptorsOwnedOnce == Spec /\ Targets = {} => []FdsOwnedOnce
  BY OwnerInvariant, OwnersCounted, PTL

\* A step that ends an open connection.
LEMMA Disconnects ==
    ASSUME OwnerInv, NEW c \in Clients, conn[c] = "open", conn'[c] # "open", Next,
           Targets = {}
    PROVE  \/ Leave(c)
           \/ main.pc \in {"lock", "scan"} /\ sock[main.fd] = c
  <1>1. KernelOK
    BY Parts DEF OwnerInv, TableInv
  <1>2. ASSUME NEW f, Close(f)
        PROVE  f \in Fds /\ sock[f] = c /\ ~HasLeft(sock, conn, f)
    BY <1>1, <1>2, Constants DEF Close, KernelOK, kernel, HasLeft
  <1>3. CASE Main
    <2>1. TurnAway \/ NoSlot
      <3>1. ASSUME NEW d \in Clients, Accept(d) PROVE FALSE
        BY <1>1, <3>1 DEF Accept, KernelOK
      <3>2. QED
        BY <1>3, <3>1 DEF Main, LockTable, SlotUsed, SlotFree, StoreSize, PutFd, kernel
    <2>2. QED
      BY <1>2, <2>1 DEF TurnAway, NoSlot
  <1>4. CASE Poller
    <2>1. PollClose
      BY <1>4 DEF Poller, PollStart, PollEnd, PollLook, PollAlive, PollUse, PollDrop,
         PollStop, kernel
    <2>2. QED
      BY <1>2, <2>1 DEF PollClose, OwnerInv, PollLooks, DropsLeft
  <1>5. CASE LogsSender
    <2>1. SendClose
      BY <1>5 DEF LogsSender, SendStart, SendLook, SendLog, SendDrop, kernel
    <2>2. QED
      BY <1>2, <2>1 DEF SendClose, OwnerInv, LogsLooks, DropsLeft
  <1>6. CASE Manager
    <2>1. MgrClose
      BY <1>6 DEF Manager, MgrStart, MgrLook, MgrRecv, MgrDrop, MgrNotHere, MgrOther,
         MgrFound, MgrShut, MgrClear, MgrReply, kernel, OwnerInv, NoCommand
    <2>2. QED
      BY <1>2, <2>1 DEF MgrClose, OwnerInv, MgrLooks, DropsLeft
  <1>7. ASSUME NEW d \in Clients, Leave(d) PROVE Leave(c)
    BY <1>1, <1>7 DEF Leave, KernelOK
  <1>8. QED
    BY <1>3, <1>4, <1>5, <1>6, <1>7 DEF Next

\* Without shutdown commands only main disconnects a client that has not left,
\* and only before it has put it into a table: the poller, the logs sender and
\* the managers handler close nobody by mistake, through a descriptor that
\* accept has handed out again.
THEOREM NobodyElseDisconnected == Spec /\ Targets = {} => OnlyNamedAreDisconnected
  <1> DEFINE Fair(c) == conn[c] = "open" /\ conn'[c] # "open" =>
                 \/ Leave(c)
                 \/ main.pc \in {"lock", "scan"} /\ sock[main.fd] = c
                 \/ mgr.pc \in {"find", "shut"} /\ mgr.target = c
  <1>1. ASSUME Targets = {} PROVE OwnerInv /\ [Next]_vars => [\A c \in Clients : Fair(c)]_vars
    BY <1>1, Disconnects
  <1>2. ASSUME Targets = {} PROVE Spec => OnlyNamedAreDisconnected
    BY <1>1, <1>2, OwnerInvariant, PTL DEF Spec, OnlyNamedAreDisconnected
  <1>3. QED
    BY <1>2
=============================================================================
