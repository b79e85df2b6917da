----------------------------- MODULE FirstServer -----------------------------
(***************************************************************************)
(* The TCP server of os_ihw3/mark-4-5 with its workers: main accepts them, *)
(* a second thread polls them, and Ctrl-C lets both leave their loops.     *)
(* There are no logs and no managers yet, no thread is cancelled, and no   *)
(* send has MSG_NOSIGNAL: SIGPIPE ends the server.  The workers are those  *)
(* of TcpClients; a ring is the number of its pins.                        *)
(***************************************************************************)
EXTENDS Integers, Sequences, FiniteSets

CONSTANTS
    Clients, NoClient,
    MaxWorkers,     \* of each kind
    QueueSize,      \* PINS_QUEUE_MAX_SIZE
    MaxPins,        \* that are made at all
    SocketBuffer    \* pins that are sent and not read

VARIABLES
    mark, type, pc, conn, inbox, outbox, given, told, taken, pin, quit,     \* TcpClients
    main,           \* the main thread
    newcomer, k,    \* handle_new_worker, send_shutdown_signal_to_all
    at, i, checked, \* the polling thread: its loop, the slot, is_socket_alive was asked
    errno,          \* of the polling thread: "none", "EAGAIN" or "dead", one of the others
    is_acceptor_running, is_poller_running, signalled,
    pending,        \* connections that nobody has accepted
    fds, size, q,   \* the arrays of workers; the rings before stages two and three
    peer,           \* a connection as the server sees it: "none", "open"; "fin": the client
                    \* has closed, "doomed": and something was sent to it, "epipe": and the
                    \* answer has come; "reset" by the client; "closed" by the server
    made

workers == <<mark, type, pc, conn, inbox, outbox, given, told, taken, pin, quit>>
polling == <<at, i, checked, errno>>
flags == <<is_acceptor_running, is_poller_running, signalled>>
tables == <<fds, size>>
vars == <<workers, main, newcomer, k, polling, flags, pending, tables, q, peer, made>>

Client == INSTANCE TcpClients WITH MaxMessages <- MaxPins

Stages == {"first", "second", "third"}
Slots == 1 .. MaxWorkers
Gone == {"ended", "killed"}

WorkersInit == mark = "4-5" /\ type \in [Clients -> Stages] /\ Client!Init
ServerInit ==
    /\ main = "create" /\ newcomer = NoClient /\ k = 1
    /\ at = "absent" /\ i = 0 /\ checked = FALSE /\ errno = "none"
    /\ is_acceptor_running = TRUE /\ is_poller_running = TRUE /\ signalled = FALSE
    /\ pending = {} /\ peer = [c \in Clients |-> "none"] /\ made = 0
    /\ fds = [s \in Stages |-> [slot \in Slots |-> NoClient]] /\ size = [s \in Stages |-> 0]
    /\ q = [s \in {"second", "third"} |-> 0]
Init == WorkersInit /\ ServerInit

-----------------------------------------------------------------------------
(* The workers.                                                            *)

\* One step of a worker.  Who ends closes the socket, with or without something unread.
Moves(c, Step) ==
    /\ Step
    /\ made' = IF Len(outbox'[c]) > Len(outbox[c]) /\ type[c] = "first" THEN made + 1 ELSE made
    /\ made' =< MaxPins
    /\ pending' = IF conn[c] = "none" /\ conn'[c] = "open" THEN pending \union {c} ELSE pending
    /\ peer' = [peer EXCEPT ![c] =
                  CASE conn[c] = "none" /\ conn'[c] = "open" -> "open"
                    [] Client!Ended(c)' /\ @ = "open" -> IF inbox'[c] # <<>> THEN "reset" ELSE "fin"
                    [] OTHER -> @]
    /\ UNCHANGED <<main, newcomer, k, polling, flags, tables, q>>

\* Nobody listens any more after the end.
WorkerGoesOn(c) == Moves(c, Client!Step(c) /\ (main \in Gone => conn'[c] # "open" \/ conn[c] = "open"))
WorkerMakes(c, crooked) == Moves(c, Client!Make(c, crooked))
WorkerIsInterrupted(c) == Moves(c, Client!Interrupt(c))

\* The answer to what was sent to a client that has closed.
ResetArrives(c) ==
    /\ peer[c] = "doomed" /\ peer' = [peer EXCEPT ![c] = "epipe"]
    /\ UNCHANGED <<workers, main, newcomer, k, polling, flags, pending, tables, q, made>>

-----------------------------------------------------------------------------
(* What the server does to connections.                                    *)

PeerBecomes(c, state) == peer' = [peer EXCEPT ![c] = state]

\* The process ends: all sockets are closed.
AllClose ==
    conn' = [c \in Clients |->
               CASE Client!Up(c) -> IF outbox[c] # <<>> THEN "reset" ELSE "fin"
                 [] ~Client!Up(c) /\ conn[c] = "fin" /\ outbox[c] # <<>> /\ ~Client!Ended(c) -> "dead"
                 [] OTHER -> conn[c]]

\* send to a client whose connection is reset already: SIGPIPE.
Dies ==
    /\ main' = "killed" /\ AllClose
    /\ UNCHANGED <<mark, type, pc, inbox, outbox, given, told, taken, pin, quit, newcomer, k,
                   polling, flags, pending, tables, q, peer, made>>

\* Mutant: the connection is not shut down.
TellAndGoOn(c, after) ==
    IF Client!Up(c)
    THEN /\ inbox' = [inbox EXCEPT ![c] = @ \o Client!Message("stop", 0)]
         /\ told' = [told EXCEPT ![c] = TRUE] /\ PeerBecomes(c, after)
         /\ UNCHANGED <<mark, type, pc, conn, outbox, given, taken, pin, quit>>
    ELSE UNCHANGED workers /\ PeerBecomes(c, IF peer[c] = "fin" THEN "doomed" ELSE peer[c])

\* send_shutdown_signal_to_one_impl; afterwards the peer is in this state.
SendShutdown(c, after) ==
    IF peer[c] = "open" THEN Client!Tell(c) /\ PeerBecomes(c, after)
    ELSE UNCHANGED workers /\ PeerBecomes(c, IF peer[c] = "fin" THEN "doomed" ELSE peer[c])

\* server_accept_worker: who cannot be taken is told to end.
Refuse(c) ==
    /\ IF peer[c] = "open" THEN Client!Tell(c) ELSE UNCHANGED workers
    /\ PeerBecomes(c, "closed") /\ main' = "test"

-----------------------------------------------------------------------------
(* The main thread.                                                        *)

\* Ctrl-C; accept is interrupted.
Signal ==
    /\ ~signalled /\ main \notin Gone
    /\ signalled' = TRUE /\ is_acceptor_running' = FALSE /\ is_poller_running' = FALSE
    /\ main' = IF main = "accept" THEN "test" ELSE main
    /\ UNCHANGED <<workers, newcomer, k, polling, pending, tables, q, peer, made>>

CreateThread ==
    /\ main = "create"
    /\ \/ main' = "test" /\ at' = "sleep"
       \/ main' = "deinit" /\ UNCHANGED at
    /\ UNCHANGED <<workers, newcomer, k, i, checked, errno, flags, pending, tables, q, peer, made>>

AcceptorTest ==
    /\ \/ main = "test" /\ main' = IF is_acceptor_running THEN "toaccept" ELSE "join"
       \/ main = "toaccept" /\ main' = "accept"
    /\ UNCHANGED <<workers, newcomer, k, polling, flags, pending, tables, q, peer, made>>

\* The type must have arrived within four attempts.
Accept(c) ==
    /\ main = "accept" /\ c \in pending /\ pending' = pending \ {c}
    /\ \/ main' = "insert" /\ newcomer' = c /\ UNCHANGED <<workers, peer>>
       \/ Refuse(c) /\ UNCHANGED newcomer
    /\ UNCHANGED <<k, polling, flags, tables, q, made>>

Gives == {"give second", "give third"}
StageOf(loop) == CASE loop = "first" -> "first"
                   [] loop \in {"give second", "poll second"} -> "second"
                   [] OTHER -> "third"

\* The polling thread holds the mutex of a stage.
Locked(s) == i # 0 /\ StageOf(at) = s

\* insert_new_worker_into_arrays, under the mutex.
Insert ==
    LET c == newcomer
        s == type[c]
        free == {slot \in Slots : fds[s][slot] = NoClient}
    IN  /\ main = "insert" /\ ~Locked(s) /\ newcomer' = NoClient
        /\ IF free # {}
           THEN /\ fds' = [fds EXCEPT ![s][CHOOSE slot \in free : \A x \in free : slot =< x] = c]
                /\ size' = [size EXCEPT ![s] = @ + 1]
                /\ main' = "test" /\ UNCHANGED <<workers, peer>>
           ELSE Refuse(c) /\ UNCHANGED tables
        /\ UNCHANGED <<k, polling, flags, pending, q, made>>

Join ==
    /\ main = "join" /\ at = "over" /\ main' = "tell" /\ k' = 1
    /\ UNCHANGED <<workers, newcomer, polling, flags, pending, tables, q, peer, made>>

\* Mutant: a client without an answer ends the loop.
TellNobodyElse ==
    /\ main = "tell" /\ main' = "sleep" /\ size' = [s \in Stages |-> 0]
    /\ UNCHANGED <<workers, newcomer, k, polling, flags, pending, fds, q, peer, made>>

\* send_shutdown_signal_to_all: slot after slot, the first workers first.
TellNext ==
    LET s == CASE k =< MaxWorkers -> "first" [] k > 2 * MaxWorkers -> "third" [] OTHER -> "second"
        c == fds[s][((k - 1) % MaxWorkers) + 1]
    IN  /\ main = "tell"
        /\ \/ /\ c # NoClient /\ peer[c] = "epipe" /\ Dies
           \/ /\ IF c = NoClient THEN UNCHANGED <<workers, peer>>
                 ELSE peer[c] # "epipe" /\ SendShutdown(c, "told")
              /\ k' = k + 1
              /\ IF k' > 3 * MaxWorkers THEN main' = "sleep" /\ size' = [x \in Stages |-> 0]
                                        ELSE UNCHANGED <<main, size>>
              /\ UNCHANGED <<newcomer, polling, flags, pending, fds, q, made>>

\* sleep, and deinit_server.
Deinit ==
    /\ \/ main = "sleep" /\ main' = "deinit" /\ UNCHANGED conn
       \/ main = "deinit" /\ main' = "ended" /\ AllClose
    /\ UNCHANGED <<mark, type, pc, inbox, outbox, given, told, taken, pin, quit, newcomer, k,
                   polling, flags, pending, tables, q, peer, made>>

Main == CreateThread \/ AcceptorTest \/ Insert \/ Join \/ TellNext \/ Deinit

-----------------------------------------------------------------------------
(* The polling thread.                                                     *)

\* The ring that a loop fills or empties.
Ring(loop) == IF loop \in {"first", "give second"} THEN "second" ELSE "third"
Full(s) == q[s] = QueueSize

\* After one loop the next: the second stage is polled under the same lock.
After == [l \in {"first", "give second", "poll second", "give third"} |->
            CASE l = "first" -> "give second" [] l = "give second" -> "poll second"
              [] l = "poll second" -> "give third" [] l = "give third" -> "sleep"]

Skipped ==
    \/ at = "first" /\ (size.first = 0 \/ Full("second"))
    \/ at = "give second" /\ (size.second = 0 \/ (Full("second") /\ q.third = 0))
    \/ at = "give third" /\ (size.third = 0 \/ q.third = 0)

\* poll_workers_on_the_..._stage.
EnterStage ==
    /\ main \notin Gone /\ i = 0 /\ at \in {"first", "give second", "give third"}
    /\ IF Skipped THEN /\ at' = (IF at = "give second" THEN "give third" ELSE After[at])
                       /\ UNCHANGED i
                  ELSE i' = 1 /\ UNCHANGED at
    /\ UNCHANGED <<workers, main, newcomer, k, checked, errno, flags, pending, tables, q, peer, made>>

NextSlot == i' = i + 1 /\ checked' = FALSE /\ UNCHANGED at
LeaveLoop ==
    /\ at' = After[at] /\ i' = (IF at = "give second" THEN 1 ELSE 0) /\ checked' = FALSE

\* return false: only the second stage does not look at it.
Fails ==
    /\ i' = 0 /\ checked' = FALSE
    /\ at' = IF at = "poll second" THEN "give third" ELSE "over"

\* Mutant: the size stays.
RemoveKeepsSize(c) ==
    LET s == StageOf(at) IN
    /\ fds' = [fds EXCEPT ![s][i] = NoClient] /\ UNCHANGED size
    /\ PeerBecomes(c, "closed") /\ NextSlot

Remove(c) ==
    LET s == StageOf(at) IN
    /\ fds' = [fds EXCEPT ![s][i] = NoClient] /\ size' = [size EXCEPT ![s] = @ - 1]
    /\ PeerBecomes(c, "closed") /\ NextSlot

\* The head of both loops, and is_socket_alive.
AtSlot ==
    LET s == StageOf(at)
        over == \/ i > MaxWorkers \/ size[s] = 0
                \/ IF at \in Gives THEN q[Ring(at)] = 0 ELSE Full(Ring(at))
        c == fds[s][i]
    IN  /\ main \notin Gone /\ i # 0 /\ ~checked
        /\ \/ over /\ LeaveLoop /\ UNCHANGED <<tables, peer>>
           \/ ~over /\ c = NoClient /\ NextSlot /\ UNCHANGED <<tables, peer>>
           \/ ~over /\ c # NoClient /\ peer[c] \in {"reset", "epipe"} /\ Remove(c)
           \/ /\ ~over /\ c # NoClient /\ peer[c] \notin {"reset", "epipe"} /\ checked' = TRUE
              /\ UNCHANGED <<at, i, tables, peer>>
        /\ UNCHANGED <<workers, main, newcomer, k, errno, flags, pending, q, made>>

\* Mutant: an empty socket is an unknown error.
EmptyIsUnknown(e) == CASE e = "dead" -> "DEAD_WORKER_SOCKET" [] OTHER -> "UNKNOWN_SOCKET_ERROR"

handle_nonblocking_error(e) ==
    CASE e = "EAGAIN" -> "EMPTY_WORKER_SOCKET"
      [] e = "dead" -> "DEAD_WORKER_SOCKET"
      [] OTHER -> "UNKNOWN_SOCKET_ERROR"

\* poll_workers: recv.  It sets errno for an error, but not for the end of the stream.
PollSlot ==
    LET c == fds[StageOf(at)][i] IN
    /\ main \notin Gone /\ checked /\ at \notin Gives
    /\ IF outbox[c] # <<>>
       THEN /\ outbox' = [outbox EXCEPT ![c] = Tail(@)] /\ q' = [q EXCEPT ![Ring(at)] = @ + 1]
            /\ NextSlot /\ UNCHANGED <<errno, tables, peer>>
       ELSE /\ errno' = CASE peer[c] = "open" -> "EAGAIN" [] peer[c] = "reset" -> "dead"
                          [] OTHER -> errno
            /\ LET result == handle_nonblocking_error(errno') IN
               \/ result = "EMPTY_WORKER_SOCKET" /\ NextSlot /\ UNCHANGED <<tables, peer>>
               \/ result = "DEAD_WORKER_SOCKET" /\ Remove(c)
               \/ result = "UNKNOWN_SOCKET_ERROR" /\ Fails /\ UNCHANGED <<tables, peer>>
            /\ UNCHANGED <<outbox, q>>
    /\ UNCHANGED <<mark, type, pc, conn, inbox, given, told, taken, pin, quit, main, newcomer,
                   k, flags, pending, made>>

\* send_pins_to_workers: the pin is taken out of the ring before it is sent.
GiveSlot ==
    LET c == fds[StageOf(at)][i] IN
    /\ main \notin Gone /\ checked /\ at \in Gives
    /\ \/ peer[c] = "epipe" /\ Dies
       \/ /\ peer[c] # "epipe" /\ q' = [q EXCEPT ![Ring(at)] = @ - 1]
          /\ \/ /\ peer[c] = "open" /\ Len(inbox[c]) < 2 * SocketBuffer /\ Client!ServerSends(c)
                /\ NextSlot /\ UNCHANGED <<errno, tables, peer>>
             \/ /\ peer[c] = "open" /\ Len(inbox[c]) >= 2 * SocketBuffer /\ errno' = "EAGAIN"
                /\ NextSlot /\ UNCHANGED <<workers, tables, peer>>
             \/ /\ peer[c] = "reset" /\ errno' = "dead" /\ Remove(c) /\ UNCHANGED workers
             \/ /\ peer[c] \in {"fin", "doomed"} /\ PeerBecomes(c, "doomed") /\ NextSlot
                /\ UNCHANGED <<workers, errno, tables>>
          /\ UNCHANGED <<main, newcomer, k, flags, pending, made>>

\* Mutant: the polling thread does not look at its flag.
PollsOn ==
    /\ main \notin Gone /\ at = "sleep" /\ at' = "first"
    /\ UNCHANGED <<workers, main, newcomer, k, i, checked, errno, flags, pending, tables, q,
                   peer, made>>

\* nanosleep, and the condition of the loop.
PollerTest ==
    /\ main \notin Gone /\ at = "sleep"
    /\ at' = IF is_poller_running THEN "first" ELSE "over"
    /\ UNCHANGED <<workers, main, newcomer, k, i, checked, errno, flags, pending, tables, q,
                   peer, made>>

Poller == EnterStage \/ AtSlot \/ PollSlot \/ GiveSlot \/ PollerTest

-----------------------------------------------------------------------------
Next ==
    \/ Signal \/ Main \/ Poller
    \/ \E c \in Clients :
          \/ Accept(c) \/ ResetArrives(c) \/ WorkerGoesOn(c) \/ WorkerIsInterrupted(c)
          \/ \E crooked \in BOOLEAN : WorkerMakes(c, crooked)

Spec == Init /\ [][Next]_vars

\* Both threads and the workers go on; the signal need not come.
FairSpec ==
    /\ Spec /\ WF_vars(Main) /\ WF_vars(Poller)
    /\ \A c \in Clients :
          /\ WF_vars(Accept(c)) /\ WF_vars(ResetArrives(c)) /\ WF_vars(WorkerGoesOn(c))
          /\ SF_vars(WorkerMakes(c, FALSE)) /\ SF_vars(WorkerGoesOn(c) /\ conn'[c] = "dead")

-----------------------------------------------------------------------------
(* Properties.                                                             *)

\* What the constants have to be.
ConstantsOK ==
    /\ NoClient \notin Clients /\ MaxWorkers \in Nat \ {0}
    /\ QueueSize \in Nat /\ MaxPins \in Nat /\ SocketBuffer \in Nat

\* The type of the state; the sizes are the numbers of the slots that are taken.
TypeOK ==
    /\ Client!TypeOK
    /\ main \in {"create", "test", "toaccept", "accept", "insert", "join", "tell", "sleep",
                 "deinit"} \union Gone
    /\ at \in {"absent", "first", "give second", "poll second", "give third", "sleep", "over"}
    /\ i \in 0 .. MaxWorkers + 1 /\ k \in 1 .. 3 * MaxWorkers + 1
    /\ checked \in BOOLEAN /\ errno \in {"none", "EAGAIN", "dead"}
    /\ \A flag \in {is_acceptor_running, is_poller_running, signalled} : flag \in BOOLEAN
    /\ newcomer \in Clients \union {NoClient} /\ pending \subseteq Clients
    /\ fds \in [Stages -> [Slots -> Clients \union {NoClient}]]
    /\ size \in [Stages -> 0 .. MaxWorkers] /\ q \in [{"second", "third"} -> 0 .. QueueSize]
    /\ peer \in [Clients -> {"none", "open", "fin", "doomed", "epipe", "reset", "told", "closed"}]
    /\ made \in 0 .. MaxPins
    /\ \A s \in Stages : main \notin {"sleep", "deinit", "ended"} =>
          size[s] = Cardinality({slot \in Slots : fds[s][slot] # NoClient})

\* Seen from its clients the server does what TcpClients lets a server do.
ImplementsServer == Client!Spec

\* TcpClients: what holds of the clients of any server holds of the workers of this one
\* (receive_pin, client_should_stop of mark-4-5 against send_shutdown_signal_to_one_impl).
ClientsAreRight == Client!ClientsAreRight

\* report.md:14 says that Ctrl-C is how the server ends.  The polling thread ends without
\* it only when a worker has left, and SIGPIPE comes only then, too.
EndsOnlyForLeavers ==
    (at = "over" /\ ~signalled) \/ main = "killed" => \E c \in Clients : Client!Ended(c)

\* send_shutdown_signal_to_all: when the sockets are closed, every worker in a slot was told
\* to end, or has gone before.
EveryoneIsTold ==
    main \in {"sleep", "deinit", "ended"} =>
        \A s \in Stages, slot \in Slots :
            LET c == fds[s][slot] IN c # NoClient => told[c] \/ Client!Ended(c)

\* What holds of the server, whatever the workers do (EndsOnlyForLeavers, EveryoneIsTold).
WorkersAreTold == TypeOK /\ EndsOnlyForLeavers /\ EveryoneIsTold

\* report.md:335 and 338: after Ctrl-C the server and all workers end.  It needs that main
\* does not enter accept when the signal has just been handled: then it waits for the next
\* worker.
CtrlCEndsAll ==
    signalled ~> \/ main \in Gone /\ \A c \in Clients : Client!Ended(c)
                 \/ main = "accept"
=============================================================================
