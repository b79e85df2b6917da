---------------------------- MODULE ClientTable -----------------------------
(***************************************************************************)
(* The client arrays of the server of os_ihw3/mark-10 and the four threads *)
(* that use them: main accepts clients and puts them into the arrays, the  *)
(* poller and the logs sender drop the ones they find dead, the managers   *)
(* handler executes the command "shut down the client at this address".    *)
(* Between two steps of a thread lies one access to an array or a call     *)
(* into the kernel, which hands out the lowest free descriptor.            *)
(*                                                                         *)
(* The three worker arrays are served by the same code under a mutex each; *)
(* the table "worker" is any one of them.  A command names a client, whose *)
(* address ClientMetaInfo holds.  What travels over the sockets is not     *)
(* here: see PinPipeline for pins, ServerShutdown for the end.             *)
(***************************************************************************)
EXTENDS Naturals, FiniteSets

CONSTANTS
    ClientsOf,      \* ClientsOf[t]: the clients of type t
    MaxClients,     \* MaxClients[t]: MAX_NUMBER_OF_..., the length of its arrays
    Targets,        \* the clients that commands name
    MaxFd,          \* the descriptors are 1 .. MaxFd
    NoClient

Types == {"worker", "logs", "manager"}
Clients == UNION {ClientsOf[t] : t \in Types}
TypeOf(c) == CHOOSE t \in Types : c \in ClientsOf[t]
Fds == 1 .. MaxFd
NoFd == 0           \* the -1 of the code
Slots(t) == 1 .. MaxClients[t]

ASSUME TableAssumption ==
    /\ MaxClients \in [Types -> Nat \ {0}] /\ DOMAIN ClientsOf = Types
    /\ \A s, t \in Types : s # t => ClientsOf[s] \intersect ClientsOf[t] = {}
    /\ NoClient \notin Clients /\ Targets \subseteq Clients
    \* accept does not run out of descriptors
    /\ MaxFd \in Nat /\ MaxFd >= Cardinality(Clients)

VARIABLES
    fds, info, arr_size,    \* fds[t][i], info[t][i] and arr_size[t] of the Server
    lock,       \* lock[t]: the thread that holds the mutex of t, or "nobody"
    sock,       \* sock[f]: the client at the other end of f, NoClient when closed
    conn,       \* a client is "away", "open", or has "left" its open connection
    main, poll, logs, mgr,  \* the locals of the threads
    aborted     \* an assert has failed

table == <<fds, info, arr_size>>
kernel == <<sock, conn>>
vars == <<fds, info, arr_size, lock, sock, conn, main, poll, logs, mgr, aborted>>

\* The locals of the threads between two rounds of their loops.
MainIdle == [pc |-> "accept", t |-> "worker", i |-> 1, fd |-> NoFd, n |-> 0]
Idle == [pc |-> "idle", i |-> 1, fd |-> NoFd]
MgrIdle == [pc |-> "idle", i |-> 1, fd |-> NoFd, n |-> 0, t |-> "worker", k |-> 1,
            target |-> NoClient]

Init ==
    /\ fds = [t \in Types |-> [i \in Slots(t) |-> NoFd]]
    /\ info = [t \in Types |-> [i \in Slots(t) |-> NoClient]]
    /\ arr_size = [t \in Types |-> 0]
    /\ lock = [t \in Types |-> "nobody"]
    /\ sock = [f \in Fds |-> NoClient]
    /\ conn = [c \in Clients |-> "away"]
    /\ main = MainIdle /\ poll = Idle /\ logs = Idle /\ mgr = MgrIdle
    /\ aborted = FALSE

\* server_lock_..._mutex: the one for the managers unlocks, and never waits.
Lock(t, me) ==
    IF t = "manager" THEN UNCHANGED lock
    ELSE lock[t] = "nobody" /\ lock' = [lock EXCEPT ![t] = me]

Unlock(t) == lock' = [lock EXCEPT ![t] = "nobody"]

\* close(f): its client is disconnected.  Of no descriptor, or a closed one, EBADF.
Close(f) ==
    IF f \in Fds /\ sock[f] # NoClient
    THEN /\ sock' = [sock EXCEPT ![f] = NoClient]
         /\ conn' = [conn EXCEPT ![sock[f]] = "away"]
    ELSE UNCHANGED kernel

Closed(f) == sock[f] = NoClient
Left(f) == ~Closed(f) /\ conn[sock[f]] = "left"

Leave(c) ==
    /\ conn[c] = "open" /\ conn' = [conn EXCEPT ![c] = "left"]
    /\ UNCHANGED <<table, lock, sock, main, poll, logs, mgr, aborted>>

-----------------------------------------------------------------------------
(* main: server_accept_client, handle_new_client, insert_new_client_into_arrays *)

Accept(c) ==
    /\ main.pc = "accept" /\ conn[c] = "away"
    /\ \E f \in Fds :
          /\ Closed(f) /\ \A g \in Fds : Closed(g) => f <= g
          /\ sock' = [sock EXCEPT ![f] = c]
          /\ main' = [pc |-> "lock", t |-> TypeOf(c), i |-> 1, fd |-> f, n |-> 0]
    /\ conn' = [conn EXCEPT ![c] = "open"]
    /\ UNCHANGED <<table, lock, poll, logs, mgr, aborted>>

\* Its type does not arrive in time.
TurnAway ==
    /\ main.pc = "lock"
    /\ Close(main.fd) /\ main' = MainIdle
    /\ UNCHANGED <<table, lock, poll, logs, mgr, aborted>>

LockTable ==
    /\ main.pc = "lock" /\ Lock(main.t, "main")
    /\ main' = [main EXCEPT !.pc = "scan"]
    /\ UNCHANGED <<table, kernel, poll, logs, mgr, aborted>>

SlotUsed ==
    /\ main.pc = "scan" /\ main.i \in Slots(main.t) /\ fds[main.t][main.i] # NoFd
    /\ main' = [main EXCEPT !.i = @ + 1]
    /\ UNCHANGED <<table, lock, kernel, poll, logs, mgr, aborted>>

NoSlot ==
    /\ main.pc = "scan" /\ main.i \notin Slots(main.t)
    /\ Unlock(main.t) /\ Close(main.fd) /\ main' = MainIdle
    /\ UNCHANGED <<table, poll, logs, mgr, aborted>>

\* The assert, and the load of (*array_size)++.
SlotFree ==
    /\ main.pc = "scan" /\ main.i \in Slots(main.t) /\ fds[main.t][main.i] = NoFd
    /\ IF arr_size[main.t] < MaxClients[main.t]
       THEN /\ main' = [main EXCEPT !.pc = "store", !.n = arr_size[main.t]]
            /\ UNCHANGED aborted
       ELSE aborted' = TRUE /\ UNCHANGED main
    /\ UNCHANGED <<table, lock, kernel, poll, logs, mgr>>

\* Its store, and fill_client_metainfo.
StoreSize ==
    /\ main.pc = "store"
    /\ arr_size' = [arr_size EXCEPT ![main.t] = main.n + 1]
    /\ info' = [info EXCEPT ![main.t][main.i] = sock[main.fd]]
    /\ main' = [main EXCEPT !.pc = "put"]
    /\ UNCHANGED <<fds, lock, kernel, poll, logs, mgr, aborted>>

PutFd ==
    /\ main.pc = "put"
    /\ fds' = [fds EXCEPT ![main.t][main.i] = main.fd]
    /\ Unlock(main.t) /\ main' = MainIdle
    /\ UNCHANGED <<info, arr_size, kernel, poll, logs, mgr, aborted>>

Main ==
    \/ \E c \in Clients : Accept(c)
    \/ TurnAway \/ LockTable \/ SlotUsed \/ NoSlot \/ SlotFree \/ StoreSize \/ PutFd

-----------------------------------------------------------------------------
(* The poller: the loop of poll_workers and of send_pins_to_workers.       *)

NextWorker == poll' = [pc |-> "look", i |-> poll.i + 1, fd |-> NoFd]

PollStart ==
    /\ poll.pc = "idle" /\ arr_size["worker"] > 0 /\ Lock("worker", "poll")
    /\ poll' = [poll EXCEPT !.pc = "look", !.i = 1]
    /\ UNCHANGED <<table, kernel, main, logs, mgr, aborted>>

\* The loop ends after the last slot, at size 0, and when the ring of pins is
\* full or empty, which can be at any time.
PollEnd ==
    /\ poll.pc = "look"
    /\ Unlock("worker") /\ poll' = Idle
    /\ UNCHANGED <<table, kernel, main, logs, mgr, aborted>>

PollLook ==
    /\ poll.pc = "look" /\ poll.i \in Slots("worker") /\ arr_size["worker"] > 0
    /\ LET f == fds["worker"][poll.i] IN
         IF f = NoFd THEN NextWorker ELSE poll' = [poll EXCEPT !.pc = "alive", !.fd = f]
    /\ UNCHANGED <<table, lock, kernel, main, logs, mgr, aborted>>

\* Mutant: the answer of is_socket_alive is taken the wrong way round.
PollAliveInverted ==
    /\ poll.pc = "alive"
    /\ \/ Left(poll.fd) /\ poll' = [poll EXCEPT !.pc = "use"]
       \/ ~Left(poll.fd) /\ poll' = [poll EXCEPT !.pc = "drop"]
    /\ UNCHANGED <<table, lock, kernel, main, logs, mgr, aborted>>

\* is_socket_alive; a worker that has left may not have answered yet.
PollAlive ==
    /\ poll.pc = "alive"
    /\ \/ ~Closed(poll.fd) /\ poll' = [poll EXCEPT !.pc = "use"]
       \/ (Closed(poll.fd) \/ Left(poll.fd)) /\ poll' = [poll EXCEPT !.pc = "drop"]
    /\ UNCHANGED <<table, lock, kernel, main, logs, mgr, aborted>>

\* recv or send, and handle_socket_op_error; EBADF is an unknown error, and the
\* errno after a worker has left can be any.
PollUse ==
    /\ poll.pc = "use"
    /\ \/ ~Closed(poll.fd) /\ NextWorker
       \/ Left(poll.fd) /\ poll' = [poll EXCEPT !.pc = "drop"]
       \/ (Closed(poll.fd) \/ Left(poll.fd)) /\ poll' = [poll EXCEPT !.pc = "stop"]
    /\ UNCHANGED <<table, lock, kernel, main, logs, mgr, aborted>>

\* Mutant: the descriptor stays in its slot.
PollDropKeeps ==
    /\ poll.pc = "drop" /\ poll' = [poll EXCEPT !.pc = "close"]
    /\ UNCHANGED <<table, lock, kernel, main, logs, mgr, aborted>>

PollDrop ==
    /\ poll.pc = "drop"
    /\ fds' = [fds EXCEPT !["worker"][poll.i] = NoFd]
    /\ poll' = [poll EXCEPT !.pc = "close"]
    /\ UNCHANGED <<info, arr_size, lock, kernel, main, logs, mgr, aborted>>

PollClose ==
    /\ poll.pc = "close"
    /\ Close(poll.fd) /\ arr_size' = [arr_size EXCEPT !["worker"] = @ - 1]
    /\ NextWorker
    /\ UNCHANGED <<fds, info, lock, main, logs, mgr, aborted>>

\* An unknown error ends the thread: the mutex is released, the server stops.
PollStop ==
    /\ poll.pc = "stop"
    /\ Unlock("worker") /\ poll' = [poll EXCEPT !.pc = "stopped"]
    /\ UNCHANGED <<table, kernel, main, logs, mgr, aborted>>

Poller ==
    \/ PollStart \/ PollEnd \/ PollLook \/ PollAlive \/ PollUse \/ PollDrop
    \/ PollClose \/ PollStop

-----------------------------------------------------------------------------
(* The logs sender: send_server_log.                                       *)

NextCollector == logs' = [pc |-> "look", i |-> logs.i + 1, fd |-> NoFd]

\* A pass over an empty array does nothing, and is left out.
SendStart ==
    /\ logs.pc = "idle" /\ \E i \in Slots("logs") : fds["logs"][i] # NoFd
    /\ logs' = [logs EXCEPT !.pc = "look", !.i = 1]
    /\ UNCHANGED <<table, lock, kernel, main, poll, mgr, aborted>>

SendLook ==
    /\ logs.pc = "look"
    /\ LET f == fds["logs"][logs.i] IN
         IF logs.i \notin Slots("logs") THEN logs' = Idle
         ELSE IF f = NoFd THEN NextCollector
         ELSE logs' = [logs EXCEPT !.pc = "send", !.fd = f]
    /\ UNCHANGED <<table, lock, kernel, main, poll, mgr, aborted>>

\* send; the first one after the collector has left still succeeds.
SendLog ==
    /\ logs.pc = "send"
    /\ \/ NextCollector
       \/ Left(logs.fd) /\ logs' = [logs EXCEPT !.pc = "drop"]
    /\ UNCHANGED <<table, lock, kernel, main, poll, mgr, aborted>>

\* The slot is read again.  The size stays.
SendDrop ==
    /\ logs.pc = "drop"
    /\ fds' = [fds EXCEPT !["logs"][logs.i] = NoFd]
    /\ logs' = [logs EXCEPT !.pc = "close", !.fd = fds["logs"][logs.i]]
    /\ UNCHANGED <<info, arr_size, lock, kernel, main, poll, mgr, aborted>>

SendClose ==
    /\ logs.pc = "close" /\ Close(logs.fd) /\ NextCollector
    /\ UNCHANGED <<table, lock, main, poll, mgr, aborted>>

LogsSender == SendStart \/ SendLook \/ SendLog \/ SendDrop \/ SendClose

-----------------------------------------------------------------------------
(* The managers handler: nonblocking_poll_managers, close_manager,         *)
(* execute_command with find_and_shutdown, send_command_result_to_manager. *)

NextManager == mgr' = [MgrIdle EXCEPT !.pc = "look", !.i = mgr.i + 1]

MgrStart ==
    /\ mgr.pc = "idle" /\ arr_size["manager"] > 0
    /\ mgr' = [mgr EXCEPT !.pc = "look", !.i = 1]
    /\ UNCHANGED <<table, lock, kernel, main, poll, logs, aborted>>

MgrLook ==
    /\ mgr.pc = "look"
    /\ IF mgr.i \notin Slots("manager") \/ arr_size["manager"] = 0
       THEN mgr' = MgrIdle
       ELSE LET f == fds["manager"][mgr.i] IN
            IF f = NoFd THEN NextManager ELSE mgr' = [mgr EXCEPT !.pc = "recv", !.fd = f]
    /\ UNCHANGED <<table, lock, kernel, main, poll, logs, aborted>>

\* is_socket_alive and recv.  Only this thread closes managers.
MgrRecv ==
    /\ mgr.pc = "recv"
    /\ \/ NextManager
       \/ /\ ~Left(mgr.fd)
          /\ \E c \in Targets : mgr' = [MgrIdle EXCEPT !.pc = "find", !.target = c, !.i = mgr.i]
       \/ Left(mgr.fd) /\ \E l \in {"drop", "stopped"} : mgr' = [mgr EXCEPT !.pc = l]
    /\ UNCHANGED <<table, lock, kernel, main, poll, logs, aborted>>

\* close_manager: the slot, and the load of managers_arr_size--, ...
MgrDrop ==
    /\ mgr.pc = "drop"
    /\ fds' = [fds EXCEPT !["manager"][mgr.i] = NoFd]
    /\ mgr' = [mgr EXCEPT !.pc = "close", !.n = arr_size["manager"]]
    /\ UNCHANGED <<info, arr_size, lock, kernel, main, poll, logs, aborted>>

\* ... its store, and close.  After a command the polling starts anew.
MgrClose ==
    /\ mgr.pc = "close"
    /\ arr_size' = [arr_size EXCEPT !["manager"] = mgr.n - 1]
    /\ Close(mgr.fd) /\ IF mgr.target = NoClient THEN NextManager ELSE mgr' = MgrIdle
    /\ UNCHANGED <<fds, info, lock, main, poll, logs, aborted>>

After(t) == IF t = "worker" THEN "logs" ELSE "manager"

\* No client of this table has the address, or none of any table.
MgrNotHere ==
    /\ mgr.pc = "find" /\ mgr.k \notin Slots(mgr.t)
    /\ mgr' = IF mgr.t = "manager" THEN [mgr EXCEPT !.pc = "reply", !.t = "worker", !.k = 1]
              ELSE [mgr EXCEPT !.t = After(@), !.k = 1]
    /\ UNCHANGED <<table, lock, kernel, main, poll, logs, aborted>>

Found == fds[mgr.t][mgr.k] # NoFd /\ info[mgr.t][mgr.k] = mgr.target

MgrOther ==
    /\ mgr.pc = "find" /\ mgr.k \in Slots(mgr.t) /\ ~Found
    /\ mgr' = [mgr EXCEPT !.k = @ + 1]
    /\ UNCHANGED <<table, lock, kernel, main, poll, logs, aborted>>

\* send and shutdown: the client is told to stop, and does.
MgrFound ==
    /\ mgr.pc = "find" /\ mgr.k \in Slots(mgr.t) /\ Found
    /\ LET f == fds[mgr.t][mgr.k] IN
         conn' = IF Closed(f) THEN conn ELSE [conn EXCEPT ![sock[f]] = "left"]
    /\ mgr' = [mgr EXCEPT !.pc = "shut"]
    /\ UNCHANGED <<table, lock, sock, main, poll, logs, aborted>>

\* close(fds[i]), which reads the slot again
MgrShut ==
    /\ mgr.pc = "shut"
    /\ Close(fds[mgr.t][mgr.k]) /\ mgr' = [mgr EXCEPT !.pc = "clear"]
    /\ UNCHANGED <<table, lock, main, poll, logs, aborted>>

\* Mutant: the size is decremented here too.
MgrClearCounts ==
    /\ mgr.pc = "clear"
    /\ fds' = [fds EXCEPT ![mgr.t][mgr.k] = NoFd]
    /\ arr_size' = [arr_size EXCEPT ![mgr.t] = @ - 1]
    /\ mgr' = [mgr EXCEPT !.pc = "reply", !.t = "worker", !.k = 1]
    /\ UNCHANGED <<info, lock, kernel, main, poll, logs, aborted>>

\* fds[i] = -1.  The size stays.
MgrClear ==
    /\ mgr.pc = "clear"
    /\ fds' = [fds EXCEPT ![mgr.t][mgr.k] = NoFd]
    /\ mgr' = [mgr EXCEPT !.pc = "reply", !.t = "worker", !.k = 1]
    /\ UNCHANGED <<info, arr_size, lock, kernel, main, poll, logs, aborted>>

\* The slot of the manager is read again: it may have named itself.  An error
\* that is not one of a dead client ends the thread.
MgrReply ==
    /\ mgr.pc = "reply"
    /\ LET f == fds["manager"][mgr.i] IN
       \/ mgr' = MgrIdle
       \/ f # NoFd /\ Left(f)
          /\ \E l \in {"drop", "stopped"} : mgr' = [mgr EXCEPT !.pc = l, !.fd = f]
    /\ UNCHANGED <<table, lock, kernel, main, poll, logs, aborted>>

Manager ==
    \/ MgrStart \/ MgrLook \/ MgrRecv \/ MgrDrop \/ MgrClose
    \/ MgrNotHere \/ MgrOther \/ MgrFound \/ MgrShut \/ MgrClear \/ MgrReply

-----------------------------------------------------------------------------
Next ==
    /\ ~aborted
    /\ Main \/ Poller \/ LogsSender \/ Manager \/ \E c \in Clients : Leave(c)

Spec == Init /\ [][Next]_vars

-----------------------------------------------------------------------------
(* Properties.                                                             *)

MainPC == {"accept", "lock", "scan", "store", "put"}
PollPC == {"idle", "look", "alive", "use", "drop", "close", "stop", "stopped"}
LogsPC == {"idle", "look", "send", "drop", "close"}
MgrPC == {"idle", "look", "recv", "drop", "close", "find", "shut", "clear", "reply", "stopped"}

\* Tables hold descriptors, no size wraps around below 0, and the threads are
\* at one of their steps.
TypeOK ==
    /\ fds = [t \in Types |-> fds[t]] /\ info = [t \in Types |-> info[t]]
    /\ \A t \in Types :
          /\ fds[t] \in [Slots(t) -> Fds \union {NoFd}]
          /\ info[t] \in [Slots(t) -> ClientsOf[t] \union {NoClient}]
    /\ arr_size \in [Types -> Nat]
    /\ lock \in [Types -> {"nobody", "main", "poll"}]
    /\ sock \in [Fds -> Clients \union {NoClient}]
    /\ conn \in [Clients -> {"away", "open", "left"}]
    /\ main \in [pc : MainPC, t : Types, i : Nat, fd : Fds \union {NoFd}, n : Nat]
    /\ poll \in [pc : PollPC, i : Nat, fd : Fds \union {NoFd}]
    /\ logs \in [pc : LogsPC, i : Nat, fd : Fds \union {NoFd}]
    /\ mgr \in [pc : MgrPC, i : Nat, fd : Fds \union {NoFd}, n : Nat, t : Types,
                k : Nat, target : Clients \union {NoClient}]
    /\ aborted \in BOOLEAN

Used(t) == {i \in Slots(t) : fds[t][i] # NoFd}

\* The workers that are in their table are counted: the loops of the poller,
\* which stop at size 0, never pass one over.  Shutdown commands, which free
\* slots without the mutex, do not break this.
NoWorkerIgnored == arr_size["worker"] >= Cardinality(Used("worker"))

\* The threads that are between accept and the slot, or between the slot and
\* close, with descriptor f.
Holders(f) ==
    {<<x, 0>> : x \in {y \in {"main", "poller", "sender", "handler"} :
        \/ y = "main" /\ main.pc # "accept" /\ main.fd = f
        \/ y = "poller" /\ poll.pc = "close" /\ poll.fd = f
        \/ y = "sender" /\ logs.pc = "close" /\ logs.fd = f
        \/ y = "handler" /\ mgr.pc = "close" /\ mgr.fd = f}}

\* Without shutdown commands every open descriptor has one owner, a slot of the
\* right table or a thread, so that none leaks, and no closed one, which accept
\* could hand out again, is left in a slot or with a thread that will close it.
FdsOwnedOnce == \A f \in Fds :
    LET owners == {o \in UNION {{t} \X Slots(t) : t \in Types} : fds[o[1]][o[2]] = f}
    IN Cardinality(owners \union Holders(f)) = IF Closed(f) THEN 0 ELSE 1

\* A client that has not left is disconnected only on its way into a table, or
\* by the command that names it.
OnlyNamedAreDisconnected ==
    [][\A c \in Clients :
         conn[c] = "open" /\ conn'[c] # "open" =>
            \/ Leave(c)
            \/ main.pc \in {"lock", "scan"} /\ sock[main.fd] = c
            \/ mgr.pc \in {"find", "shut"} /\ mgr.target = c]_vars

\* insert_new_client_into_arrays asserts that a free slot means
\* *array_size < max_array_size.
FreeSlotMeansRoom == ~aborted
=============================================================================
