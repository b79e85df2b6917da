----------------------------- MODULE UdpFactory ------------------------------
(***************************************************************************)
(* os_ihw4: the pin factory over UDP broadcasts.  The server of all marks  *)
(* with its threads, its signals and its clients: three kinds of workers,  *)
(* logs collectors (marks 6-7, 8 and 10) and managers (mark 10).  "8"      *)
(* stands for marks 6-7 and 8, "4" for mark 4-5.  Everyone receives every  *)
(* datagram; one that a client drops wherever it looks at it is not put    *)
(* into its inbox, and neither are those that come back to their sender.   *)
(***************************************************************************)
EXTENDS Naturals, Sequences, FiniteSets

CONSTANTS
    First, Second, Third, Collectors, Managers,     \* the clients
    QueueSize,      \* SERVER_LOGS_QUEUE_MAX_SIZE
    MaxPins,        \* that are not crooked
    Asked,          \* kinds that the users of managers want to shut down
    MaxCommands,    \* of all managers
    MaxFaults       \* datagrams that one receiver misses, and calls that fail

Clients == First \union Second \union Third \union Collectors \union Managers
Workers == {"first", "second", "third"}
Kinds == Workers \union {"collector", "manager"}
Kind(c) ==
    CASE c \in First -> "first" [] c \in Second -> "second" [] c \in Third -> "third"
      [] c \in Collectors -> "collector" [] c \in Managers -> "manager"
Marks == {"4", "8", "10"}

ASSUME FactoryAssumption ==
    /\ IsFiniteSet(Clients) /\ Asked \subseteq Kinds
    \* a client is of one kind
    /\ Second \intersect First = {} /\ Third \intersect (First \union Second) = {}
    /\ Collectors \intersect (First \union Second \union Third) = {}
    /\ Managers \intersect (First \union Second \union Third \union Collectors) = {}
    /\ QueueSize \in Nat /\ MaxPins \in Nat /\ MaxCommands \in Nat /\ MaxFaults \in Nat

VARIABLES
    mark,
    main, poller, logger,   \* where the server's threads are
    running,                \* is_poller_running and is_logger_running
    recorded, cancelled,    \* threads in app_threads, threads that were cancelled
    missed,                 \* threads that stop_all_threads did not know of
    ctrlC,                  \* whether the user presses Ctrl-C: "never", "later" or "done"
    msg, todo, good,        \* poller: the message, the rest of its handler, its result
    size,                   \* of logs_queue
    pc, hold, inbox,        \* clients; hold is a pin or the number of a command
    toServer,               \* the server's socket
    made, commands,         \* pins and commands so far
    passed, sharpened, checked,     \* pins that were not crooked, that were sharpened ...
    told,                   \* kinds that have been told to shut down
    allowed, faults     \* how many faults there may be, and how many there were

setting == <<mark, allowed>>
threads == <<main, poller, logger, running, recorded, cancelled, missed, ctrlC>>
handler == <<msg, todo, good, size>>
clients == <<pc, hold>>
pins == <<made, passed, sharpened, checked>>
vars == <<setting, threads, handler, clients, inbox, toServer, pins, commands, told, faults>>

NoMessage == [type |-> "none", from |-> "server", to |-> "server", of |-> 0]

\* A mark has the clients of its directory; any of them take part.
Exists(c) == Kind(c) \in (CASE mark = "4" -> Workers [] mark = "8" -> Kinds \ {"manager"}
                            [] mark = "10" -> Kinds)

Init ==
    /\ mark \in Marks
    /\ main = "create poller" /\ poller = "off" /\ logger = "off"
    /\ running = TRUE /\ recorded = {} /\ cancelled = {} /\ missed = {}
    /\ ctrlC \in {"never", "later"}
    /\ msg = NoMessage /\ todo = <<>> /\ good = TRUE /\ size = 0
    /\ pc \in [Clients -> {"off", "absent"}] /\ \A c \in Clients : pc[c] = "off" => Exists(c)
    /\ hold = [c \in Clients |-> 0] /\ inbox = [c \in Clients |-> <<>>] /\ toServer = <<>>
    /\ made = 0 /\ commands = 0 /\ passed = {} /\ sharpened = {} /\ checked = {}
    /\ told = {} /\ faults = 0 /\ allowed \in 0 .. MaxFaults

-----------------------------------------------------------------------------
(* Datagrams.                                                              *)

Fault(n) == faults + n =< allowed /\ faults' = faults + n

\* What the server sends.
PinMessage(kind, pin) == [type |-> "pin", to |-> {kind}, of |-> pin]
ShutdownMessage(kinds) == [type |-> "shutdown", to |-> kinds, of |-> 0]
ResultMessage(command) == [type |-> "result", to |-> {"manager"}, of |-> command]
LogMessage == [type |-> "log", to |-> {"collector"}, of |-> 0]

ForMe(c, m) == Kind(c) \in m.to

\* Mutant: the shutdown of others is one's own.
TakesAnyShutdown(c, m) == m.type = "shutdown"

\* receive_data: only mark 10 looks for whom a shutdown is.
TakesShutdown(c, m) == m.type = "shutdown" /\ (ForMe(c, m) \/ mark # "10")

Bound(c) == pc[c] \notin {"off", "absent", "ended", "left", "failed"}

\* The server's sendto: every client that is bound gets m, or misses it.
Broadcast(m) ==
    LET hears == {c \in Clients : Bound(c) /\ (ForMe(c, m) \/ TakesShutdown(c, m))} IN
    \E lost \in SUBSET hears :
       /\ Fault(Cardinality(lost))
       /\ inbox' = [c \in Clients |->
                       IF c \in hears \ lost THEN Append(inbox[c], m) ELSE inbox[c]]
       /\ told' = IF m.type = "shutdown" THEN told \union m.to ELSE told

SendFails == Fault(1) /\ UNCHANGED <<inbox, told>>

\* A client's sendto, heard by the server as long as it has its socket.
SendToServer(m) ==
    \/ main # "done" /\ toServer' = Append(toServer, m) /\ UNCHANGED faults
    \/ main = "done" /\ UNCHANGED <<toServer, faults>>
    \/ Fault(1) /\ UNCHANGED toServer

-----------------------------------------------------------------------------
(* Threads of the server.                                                  *)

\* Mutant: the threads are not cancelled.
StopWithoutCancel == running' = FALSE /\ UNCHANGED <<cancelled, missed>>

\* stop_all_threads: the first caller cancels the threads that are recorded.
StopAllThreads ==
    /\ running' = FALSE
    /\ IF running
       THEN /\ cancelled' = recorded
            /\ missed' = {t \in {"poller", "logger"} \ recorded :
                             (IF t = "poller" THEN poller ELSE logger) \notin {"off", "done"}}
       ELSE UNCHANGED <<cancelled, missed>>

\* pthread_create, and then the note of the thread in app_threads.
CreatePoller ==
    /\ main = "create poller"
    /\ \/ main' = "record poller" /\ poller' = "test"
          /\ UNCHANGED <<running, cancelled, missed, faults>>
       \/ main' = "done" /\ StopAllThreads /\ Fault(1) /\ UNCHANGED poller
    /\ UNCHANGED <<setting, logger, recorded, ctrlC, handler, clients, inbox, toServer, pins,
                   commands, told>>

RecordPoller ==
    /\ main = "record poller" /\ recorded' = recorded \union {"poller"}
    /\ main' = IF mark = "4" THEN "join poller" ELSE "create logger"
    /\ UNCHANGED <<setting, poller, logger, running, cancelled, missed, ctrlC, handler, clients,
                   inbox, toServer, pins, commands, told, faults>>

\* Without a logger the process ends at once, and tells nobody.
CreateLogger ==
    /\ main = "create logger"
    /\ \/ main' = "record logger" /\ logger' = "test"
          /\ UNCHANGED <<running, cancelled, missed, faults>>
       \/ main' = "done" /\ StopAllThreads /\ Fault(1) /\ UNCHANGED logger
    /\ UNCHANGED <<setting, poller, recorded, ctrlC, handler, clients, inbox, toServer, pins,
                   commands, told>>

RecordLogger ==
    /\ main = "record logger" /\ recorded' = recorded \union {"logger"}
    /\ main' = "join poller"
    /\ UNCHANGED <<setting, poller, logger, running, cancelled, missed, ctrlC, handler, clients,
                   inbox, toServer, pins, commands, told, faults>>

Join ==
    /\ \/ main = "join poller" /\ poller = "done"
          /\ main' = IF mark = "4" THEN "shutdown" ELSE "join logger"
       \/ main = "join logger" /\ logger = "done" /\ main' = "shutdown"
    /\ UNCHANGED <<setting, poller, logger, running, recorded, cancelled, missed, ctrlC,
                   handler, clients, inbox, toServer, pins, commands, told, faults>>

\* Only mark 10 tells all kinds of clients.
ShutdownReceivers == IF mark = "10" THEN Kinds ELSE Workers

SendShutdownSignalToAll ==
    /\ main = "shutdown" /\ main' = "done"
    /\ \/ Broadcast(ShutdownMessage(ShutdownReceivers))
       \/ SendFails
    /\ UNCHANGED <<setting, poller, logger, running, recorded, cancelled, missed, ctrlC,
                   handler, clients, toServer, pins, commands>>

Main == CreatePoller \/ RecordPoller \/ CreateLogger \/ RecordLogger \/ Join
            \/ SendShutdownSignalToAll

\* The user interrupts the server; once, as the handler is installed for one signal.
CtrlC ==
    /\ main # "done" /\ ctrlC = "later" /\ ctrlC' = "done" /\ StopAllThreads
    /\ UNCHANGED <<setting, main, poller, logger, recorded, handler, clients, inbox,
                   toServer, pins,
                   commands, told, faults>>

-----------------------------------------------------------------------------
(* workers_poller.                                                         *)

PollerGoto(to) == poller' = to /\ UNCHANGED <<main, logger, running, recorded, cancelled,
                                              missed, ctrlC>>

\* The test of the loop, after the sleep.
TestPoller ==
    /\ poller = "test" /\ PollerGoto(IF running THEN "receive" ELSE "stop")
    /\ UNCHANGED <<setting, handler, clients, inbox, toServer, pins, commands, told, faults>>

\* Mutant: the result is sent a second time after the last log.
AnswersTwice(m) ==
    IF m.type = "command" THEN <<"log", "execute", "log", "result", "log", "result">>
    ELSE IF m.type = "new" THEN <<"log">> ELSE <<"log", "log", "transfer">>

\* What the handler of a message does; the logs of mark 4 are only printed.
Steps(m) ==
    CASE m.type = "pin" -> IF mark = "4" THEN <<"transfer">> ELSE <<"log", "log", "transfer">>
      [] m.type = "new" -> IF mark = "4" THEN <<>> ELSE <<"log">>
      [] m.type = "command" -> <<"log", "execute", "log", "result", "log">>

\* The handler goes on, or ends with a result.
AfterSteps(rest, ok) == IF rest # <<>> THEN "handle" ELSE IF ok THEN "test" ELSE "stop"

\* nonblocking_poll: recvfrom blocks, whatever it is called.
Receive ==
    /\ poller = "receive"
    /\ \/ /\ toServer # <<>> /\ toServer' = Tail(toServer)
          /\ PollerGoto(AfterSteps(Steps(Head(toServer)), TRUE))
          /\ msg' = Head(toServer) /\ todo' = Steps(Head(toServer)) /\ good' = TRUE
          /\ UNCHANGED faults
       \/ PollerGoto("stop") /\ Fault(1) /\ UNCHANGED <<msg, todo, good, toServer>>
    /\ UNCHANGED <<setting, size, clients, inbox, pins, commands, told>>

\* server_logs_queue_nonblocking_enqueue: there is no room, or the logger, which is taking
\* a log out, has the mutex.
MayRefuse == size = QueueSize \/ (logger = "dequeue" /\ size > 0)

\* Mutant: a pin whose log is refused stops the server.
LogMatters(m) == TRUE

\* The handler of a pin does not look at the result of handle_log.
NeedsLog(m) == m.type # "pin"

HandleLog ==
    /\ poller = "handle" /\ todo # <<>> /\ Head(todo) = "log" /\ todo' = Tail(todo)
    /\ \/ size < QueueSize /\ size' = size + 1 /\ UNCHANGED good
       \/ MayRefuse /\ good' = (good /\ ~NeedsLog(msg)) /\ UNCHANGED size
    /\ PollerGoto(AfterSteps(todo', good'))
    /\ UNCHANGED <<setting, msg, clients, inbox, toServer, pins, commands, told, faults>>

\* Mutant: the pins of the first stage go to the third.
StageSkipped(kind) == "third"

NextStage(kind) == IF kind = "first" THEN "second" ELSE "third"

\* A transfer that fails stops the server, a command that fails is answered.
HandleSend ==
    LET m == CASE Head(todo) = "transfer" -> PinMessage(NextStage(msg.from), msg.of)
               [] Head(todo) = "execute" -> ShutdownMessage({msg.to})
               [] Head(todo) = "result" -> ResultMessage(msg.of)
    IN
    /\ poller = "handle" /\ todo # <<>> /\ Head(todo) # "log"
    /\ todo' = Tail(todo)
    /\ \/ Broadcast(m) /\ UNCHANGED good
       \/ SendFails /\ good' = (good /\ Head(todo) = "execute")
    /\ PollerGoto(AfterSteps(todo', good'))
    /\ UNCHANGED <<setting, msg, size, clients, toServer, pins, commands>>

\* recvfrom, sendto, puts and nanosleep end a thread that was cancelled.
CancelPoller ==
    /\ "poller" \in cancelled /\ poller \in {"receive", "handle", "test"} /\ PollerGoto("done")
    /\ UNCHANGED <<setting, handler, clients, inbox, toServer, pins, commands, told, faults>>

StopPoller ==
    /\ poller = "stop" /\ poller' = "done" /\ StopAllThreads
    /\ UNCHANGED <<setting, main, logger, recorded, ctrlC, handler, clients, inbox, toServer,
                   pins, commands, told, faults>>

Poller ==
    /\ main # "done"
    /\ \/ TestPoller \/ Receive \/ HandleLog \/ HandleSend \/ CancelPoller
       \/ StopPoller

-----------------------------------------------------------------------------
(* logs_sender.                                                            *)

LoggerGoto(to) == logger' = to /\ UNCHANGED <<main, poller, running, recorded, cancelled,
                                              missed, ctrlC>>

TestLogger ==
    /\ logger = "test" /\ LoggerGoto(IF running THEN "dequeue" ELSE "stop")
    /\ UNCHANGED <<setting, handler, clients, inbox, toServer, pins, commands, told, faults>>

\* Mutant: the semaphore is not waited for.
DequeueAnyway ==
    /\ logger = "dequeue" /\ size' = size - 1 /\ LoggerGoto("send")
    /\ UNCHANGED <<setting, msg, todo, good, clients, inbox, toServer, pins, commands, told,
                   faults>>

\* server_logs_queue_dequeue, from sem_wait to the unlock.
DequeueLog ==
    /\ logger = "dequeue" /\ size > 0 /\ size' = size - 1 /\ LoggerGoto("send")
    /\ UNCHANGED <<setting, msg, todo, good, clients, inbox, toServer, pins, commands, told,
                   faults>>

SendServerLog ==
    /\ logger = "send"
    /\ \/ Broadcast(LogMessage) /\ LoggerGoto("test")
       \/ SendFails /\ LoggerGoto("stop")
    /\ UNCHANGED <<setting, handler, clients, toServer, pins, commands>>

CancelLogger ==
    /\ "logger" \in cancelled /\ logger \in {"dequeue", "send", "test"} /\ LoggerGoto("done")
    /\ UNCHANGED <<setting, handler, clients, inbox, toServer, pins, commands, told, faults>>

StopLogger ==
    /\ logger = "stop" /\ logger' = "done" /\ StopAllThreads
    /\ UNCHANGED <<setting, main, poller, recorded, ctrlC, handler, clients, inbox, toServer,
                   pins, commands, told, faults>>

Logger ==
    /\ main # "done"
    /\ TestLogger \/ DequeueLog \/ SendServerLog \/ CancelLogger \/ StopLogger

-----------------------------------------------------------------------------
(* Clients.                                                                *)

Goto(c, to) == pc' = [pc EXCEPT ![c] = to]
Message(c, type, of) == [type |-> type, from |-> Kind(c), to |-> "server", of |-> of]

\* init_client: from the bind on it hears the broadcasts, and it says that it is there.
Start(c) ==
    /\ pc[c] = "off"
    /\ \/ Goto(c, "loop") /\ SendToServer(Message(c, "new", 0))
       \/ Goto(c, "failed") /\ Fault(1) /\ UNCHANGED toServer
    /\ UNCHANGED <<setting, threads, handler, hold, inbox, pins, commands, told>>

\* Mutant: all messages are skipped.
SkippedAll(c) == <<>>

\* skip_messages_not_from_the_server
Skipped(c) ==
    LET mine == {i \in DOMAIN inbox[c] : ForMe(c, inbox[c][i])} IN
    IF mine = {} THEN <<>>
    ELSE SubSeq(inbox[c], CHOOSE i \in mine : \A j \in mine : i =< j, Len(inbox[c]))

\* What the loop of a client does next.
Activity(c) ==
    CASE Kind(c) = "first" -> "check" [] Kind(c) = "manager" -> "menu" [] OTHER -> "receive"

\* client_should_stop at the head of the loop and before a pin is sent: a shutdown counts
\* when it comes first.
ClientShouldStop(c) ==
    LET rest == Skipped(c) IN
    /\ pc[c] \in {"loop", "before send"}
    /\ inbox' = [inbox EXCEPT ![c] = rest]
    /\ Goto(c, IF rest # <<>> /\ Head(rest).type = "shutdown" THEN "ended"
               ELSE IF pc[c] = "before send" THEN "send"
               ELSE Activity(c))
    /\ UNCHANGED <<setting, threads, handler, hold, toServer, pins, commands, told, faults>>

\* receive_new_pin and check_pin_crookness
CheckPin(c) ==
    /\ pc[c] = "check"
    /\ \/ Goto(c, "loop") /\ UNCHANGED <<hold, made, passed>>
       \/ /\ made < MaxPins /\ made' = made + 1 /\ passed' = passed \union {made'}
          /\ hold' = [hold EXCEPT ![c] = made'] /\ Goto(c, "before send")
    /\ UNCHANGED <<setting, threads, handler, inbox, toServer, sharpened, checked, commands,
                   told, faults>>

SendPin(c) ==
    /\ pc[c] = "send"
    /\ \/ SendToServer(Message(c, "pin", hold[c])) /\ Goto(c, "loop")
       \/ Fault(1) /\ Goto(c, "failed") /\ UNCHANGED toServer
    /\ UNCHANGED <<setting, threads, handler, hold, inbox, pins, commands, told>>

\* start_runtime_loop of the clients: what is done with what was received.
SharpenPin(c, m) ==
    /\ Kind(c) = "second" /\ m.type = "pin" /\ Goto(c, "before send")
    /\ hold' = [hold EXCEPT ![c] = m.of] /\ sharpened' = sharpened \union {m.of}
    /\ UNCHANGED checked

CheckQuality(c, m) ==
    /\ Kind(c) = "third" /\ m.type = "pin" /\ Goto(c, "loop")
    /\ checked' = checked \union {m.of} /\ UNCHANGED <<hold, sharpened>>

PrintServerLog(c, m) ==
    /\ Kind(c) = "collector" /\ m.type = "log" /\ Goto(c, "loop")
    /\ UNCHANGED <<hold, sharpened, checked>>

HandleServerResponse(c, m) ==
    /\ Kind(c) = "manager" /\ m.type = "result" /\ Goto(c, "loop")
    /\ UNCHANGED <<hold, sharpened, checked>>

Expected(c) ==
    CASE Kind(c) = "collector" -> "log" [] Kind(c) = "manager" -> "result" [] OTHER -> "pin"

\* receive_data: blocks until what is expected comes; a shutdown makes it fail.
ReceiveData(c) ==
    LET m == Head(inbox[c]) IN
    /\ pc[c] = "receive" /\ inbox[c] # <<>>
    /\ inbox' = [inbox EXCEPT ![c] = Tail(@)]
    /\ IF TakesShutdown(c, m) \/ m.type # Expected(c) \/ ~ForMe(c, m)
       THEN /\ Goto(c, IF TakesShutdown(c, m) THEN "failed" ELSE "receive")
            /\ UNCHANGED <<hold, sharpened, checked>>
       ELSE \/ SharpenPin(c, m) \/ CheckQuality(c, m) \/ PrintServerLog(c, m)
            \/ HandleServerResponse(c, m)
    /\ UNCHANGED <<setting, threads, handler, toServer, made, passed, commands, told, faults>>

\* next_user_command: the user takes the time he needs.
UserExits(c) ==
    /\ pc[c] = "menu" /\ Goto(c, "left")
    /\ UNCHANGED <<setting, threads, handler, hold, inbox, toServer, pins, commands, told,
                   faults>>

UserCommands(c) ==
    /\ pc[c] = "menu" /\ commands < MaxCommands /\ commands' = commands + 1
    /\ \/ /\ \E kind \in Asked :
                SendToServer([Message(c, "command", commands') EXCEPT !.to = kind])
          /\ Goto(c, "receive") /\ hold' = [hold EXCEPT ![c] = commands']
       \/ Fault(1) /\ Goto(c, "failed") /\ UNCHANGED <<hold, toServer>>
    /\ UNCHANGED <<setting, threads, handler, inbox, pins, told>>

\* What a client does by itself.
Client(c) == ClientShouldStop(c) \/ CheckPin(c) \/ SendPin(c) \/ ReceiveData(c)

-----------------------------------------------------------------------------

Next ==
    \/ Main \/ CtrlC \/ Poller \/ Logger
    \/ \E c \in Clients : Start(c) \/ Client(c) \/ UserExits(c) \/ UserCommands(c)

\* The threads and the clients run; nobody has to start a client, type or press Ctrl-C.
Fairness ==
    /\ WF_vars(Main) /\ WF_vars(Poller) /\ WF_vars(Logger)
    /\ \A c \in Clients : WF_vars(Client(c))
Spec == Init /\ [][Next]_vars /\ Fairness

-----------------------------------------------------------------------------
(* Properties.                                                             *)

MainAt == {"create poller", "record poller", "create logger", "record logger",
           "join poller", "join logger", "shutdown", "done"}
PollerAt == {"off", "test", "receive", "handle", "stop", "done"}
LoggerAt == {"off", "test", "dequeue", "send", "stop", "done"}
ClientAt == {"off", "absent", "loop", "check", "before send", "send", "receive", "menu",
             "ended", "left", "failed"}

Numbers == 0 .. MaxPins + MaxCommands
FromServer == [type : {"pin", "shutdown", "result", "log"}, to : SUBSET Kinds, of : Numbers]
FromClients == [type : {"new", "pin"}, from : Kinds, to : {"server"}, of : Numbers]
                   \union [type : {"command"}, from : {"manager"}, to : Kinds, of : Numbers]

\* The type of the state; the queue of logs keeps to its size.
TypeOK ==
    /\ mark \in Marks /\ allowed \in 0 .. MaxFaults /\ faults \in 0 .. allowed
    /\ main \in MainAt /\ poller \in PollerAt /\ logger \in LoggerAt
    /\ running \in BOOLEAN /\ ctrlC \in {"never", "later", "done"}
    /\ recorded \union cancelled \union missed \subseteq {"poller", "logger"}
    /\ msg \in FromClients \union {NoMessage} /\ good \in BOOLEAN
    /\ todo \in Seq({"log", "transfer", "execute", "result"}) /\ size \in 0 .. QueueSize
    /\ pc \in [Clients -> ClientAt] /\ hold \in [Clients -> Numbers]
    /\ inbox \in [Clients -> Seq(FromServer)] /\ toServer \in Seq(FromClients)
    /\ made \in 0 .. MaxPins /\ commands \in 0 .. MaxCommands
    /\ passed \union sharpened \union checked \subseteq 1 .. made /\ told \subseteq Kinds

\* A pin is sharpened after it was checked, and its quality is checked after that, however
\* the broadcasts are doubled or lost (server_handle_pin_transferring, receive_pin).
StagesInOrder == checked \subseteq sharpened /\ sharpened \subseteq passed

\* Unless a call failed, a client of mark 10 ends only when its user or a shutdown for its
\* kind has ended it: a command for one kind does not stop the others (receive_data,
\* client_should_stop, execute_command).
OnlyTheToldEnd ==
    \A c \in Clients :
        mark = "10" /\ pc[c] \in {"ended", "failed"} /\ faults = 0 => Kind(c) \in told

\* A stage works on what the stage before it has sent, and a client ends only when its
\* kind was told to.
MessagesAreRight == StagesInOrder /\ OnlyTheToldEnd

\* A log that is refused never makes the server stop on a pin; without a failed call only
\* Ctrl-C, a new client or a command does (handle_log).
PinsSurviveFullQueue ==
    [][running /\ ~running' =>
          \/ ctrlC' = "done" \/ faults' > 0
          \/ poller = "stop" /\ msg.type \in {"new", "command"}]_vars

\* A manager that is alone reads the result of its own command, although results are
\* broadcast (send_command_result_to_managers, send_manager_command_to_server).
ResultIsOwn ==
    [][\A c \in Managers :
          pc[c] = "receive" /\ pc'[c] = "loop" /\ (\A d \in Managers \ {c} : pc[d] = "absent") =>
              Head(inbox[c]).of = hold[c]]_vars

\* A client ends that a shutdown for its kind has reached, unless a user keeps it waiting.
ShutdownIsHeeded ==
    \A c \in Clients \ Managers :
        (\E i \in DOMAIN inbox[c] : inbox[c][i].type = "shutdown" /\ ForMe(c, inbox[c][i])) ~>
            ~Bound(c)

\* Once one thread has stopped all, the server ends; the exception is a thread that was
\* created and not yet recorded at that moment (create_thread, stop_all_threads).
ServerEnds == ~running ~> (main = "done" \/ missed # {})

\* report.md: the server sends "all clients a special signal of its end"; then a logs
\* collector should end that the signal has reached.
CollectorEnds ==
    \A c \in Collectors :
        (\E i \in DOMAIN inbox[c] : inbox[c][i].type = "shutdown") ~> ~Bound(c)
=============================================================================
