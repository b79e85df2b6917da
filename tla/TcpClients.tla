----------------------------- MODULE TcpClients ------------------------------
(***************************************************************************)
(* The clients of os_ihw3 in all its marks ("6-7" stands for mark 8 too):  *)
(* how the three kinds of workers, the logs collector and the manager read *)
(* the stream from the server, and how they learn that it ends.            *)
(*                                                                         *)
(* The stream is counted in pairs of bytes.  A pin has two, a log more     *)
(* than client_should_stop looks at, and the shutdown message is longer    *)
(* than a pin but in mark 10, where it is shorter.  Messages are far below *)
(* the size of a segment and arrive as a whole; what has arrived stays     *)
(* readable after the connection has ended, as in Linux.                   *)
(***************************************************************************)
EXTENDS Integers, Sequences

CONSTANTS
    Clients,
    MaxMessages,    \* of the server to one client, and commands of a manager
    SocketBuffer    \* pins that are sent and not read

Ghost == 0          \* a pin that nobody has sent

VARIABLES
    mark, type,     \* of the programs, of each client
    pc,             \* of each client
    conn,           \* as the client sees it: "none", "open"; "fin": the server has closed;
                    \* "reset": an error is to be told; "dead": also sending fails
    inbox,          \* from the server: pairs of bytes
    outbox,         \* to the server: pins, or commands
    given, told,    \* the server's messages so far; was shutdown one?
    taken,          \* what the client took for messages
    pin,            \* the last of these, or the pin it has made
    quit            \* the user has left the manager, or ended the client

vars == <<mark, type, pc, conn, inbox, outbox, given, told, taken, pin, quit>>

Marks == {"4-5", "6-7", "10"}
Workers == {"first", "second", "third"}
TypesOf == [m \in Marks |-> CASE m = "4-5" -> Workers
                              [] m = "6-7" -> Workers \union {"collector"}
                              [] m = "10" -> Workers \union {"collector", "manager"}]

\* Mutant: mark 10 with the shutdown message of the marks before.
SizeWithOldStop(kind) == CASE kind = "log" -> 6 [] kind = "stop" -> 4 [] OTHER -> 2

Size(kind) ==
    CASE kind = "log" -> 6
      [] kind = "stop" -> IF mark = "10" THEN 1 ELSE 4
      [] OTHER -> 2     \* pins, results
Message(kind, id) == [k \in 1 .. Size(kind) |-> <<kind, id, k>>]

\* What the server sends to a client.
Kind(c) ==
    CASE type[c] = "collector" -> "log" [] type[c] = "manager" -> "result" [] OTHER -> "pin"

NET_BUFFER_SIZE == IF mark = "10" THEN Size("pin") ELSE Size("stop")

Init ==
    /\ mark \in Marks /\ type \in [Clients -> TypesOf[mark]]
    /\ pc = [c \in Clients |-> "start"] /\ conn = [c \in Clients |-> "none"]
    /\ inbox = [c \in Clients |-> <<>>] /\ outbox = [c \in Clients |-> <<>>]
    /\ given = [c \in Clients |-> 0] /\ told = [c \in Clients |-> FALSE]
    /\ taken = [c \in Clients |-> <<>>] /\ pin = [c \in Clients |-> Ghost]
    /\ quit = [c \in Clients |-> FALSE]

Goto(c, l) == pc' = [pc EXCEPT ![c] = l]
BecomesOf(c, state) == conn' = [conn EXCEPT ![c] = state]
Ended(c) == pc[c] \in {"ok", "failed", "killed"}
Up(c) == conn[c] = "open" /\ ~Ended(c)

programs == <<mark, type>>
server == <<inbox, given, told>>

-----------------------------------------------------------------------------
(* The server, as a client can see it.                                     *)

Sends(c, bytes) == inbox' = [inbox EXCEPT ![c] = @ \o bytes]

\* A pin, a log, or the result of a command: one for each.
ServerSends(c) ==
    /\ Up(c) /\ type[c] # "first" /\ given[c] < MaxMessages
    /\ type[c] = "manager" => outbox[c] # <<>>
    /\ outbox' = [outbox EXCEPT ![c] = IF type[c] = "manager" THEN Tail(@) ELSE @]
    /\ given' = [given EXCEPT ![c] = @ + 1] /\ Sends(c, Message(Kind(c), given'[c]))
    /\ UNCHANGED <<programs, pc, conn, told, taken, pin, quit>>

ServerTakesPin(c) ==
    /\ type[c] # "manager" /\ outbox[c] # <<>>
    /\ outbox' = [outbox EXCEPT ![c] = Tail(@)]
    /\ UNCHANGED <<programs, pc, conn, server, taken, pin, quit>>

\* send_shutdown_signal_to_one_impl.
Tell(c) ==
    /\ Up(c) /\ Sends(c, Message("stop", 0)) /\ told' = [told EXCEPT ![c] = TRUE]
    /\ BecomesOf(c, "fin")
    /\ UNCHANGED <<programs, pc, outbox, given, taken, pin, quit>>

\* Sockets are closed without a word, one or all of them at once; with pins that were not
\* read, or with what comes later, the connection is reset.
Close ==
    /\ conn' \in [Clients -> {"none", "open", "fin", "reset", "dead"}]
    /\ \A c \in Clients :
          \/ conn'[c] = conn[c]
          \/ Up(c) /\ conn'[c] \in {"fin", "reset"}
          \/ ~Ended(c) /\ conn[c] = "fin" /\ conn'[c] = "dead"
    /\ UNCHANGED <<programs, pc, outbox, server, taken, pin, quit>>

ServerNext(c) == ServerSends(c) \/ ServerTakesPin(c) \/ Tell(c)

-----------------------------------------------------------------------------
(* The clients.                                                            *)

\* init_client: it may find no server.
Connect(c) ==
    /\ pc[c] = "start"
    /\ \/ BecomesOf(c, "open") /\ Goto(c, "check")
       \/ Goto(c, "failed") /\ UNCHANGED conn
    /\ UNCHANGED <<programs, server, outbox, taken, pin, quit>>

First(bytes, n) == SubSeq(bytes, 1, IF Len(bytes) < n THEN Len(bytes) ELSE n)

is_shutdown_message(bytes) == bytes = Message("stop", 0)

\* Mutant: the shutdown message is found behind other messages, too.
StopIsSomewhere(c) ==
    \/ \E n \in 1 .. Len(inbox[c]) : SubSeq(inbox[c], n, Len(inbox[c])) = Message("stop", 0)
    \/ inbox[c] = <<>> /\ conn[c] = "reset"

\* client_should_stop: only what comes first can be seen, and a closed connection has nothing.
ShouldStop(c) ==
    \/ is_shutdown_message(First(inbox[c], NET_BUFFER_SIZE))
    \/ inbox[c] = <<>> /\ conn[c] = "reset"

\* recv and sendto tell an error once.
ErrorIsTold(c) ==
    conn' = [conn EXCEPT ![c] = IF @ = "reset" /\ inbox[c] = <<>> THEN "dead" ELSE @]

\* Mutant: nothing to read is an error like others.
AnyErrorStops(c) ==
    /\ pc[c] \in {"check", "recheck"} /\ ErrorIsTold(c)
    /\ Goto(c, CASE ShouldStop(c) \/ inbox[c] = <<>> -> "ok"
                 [] pc[c] = "recheck" -> "give"
                 [] type[c] = "first" -> "make"
                 [] type[c] = "manager" -> "menu"
                 [] OTHER -> "take")
    /\ UNCHANGED <<programs, server, outbox, taken, pin, quit>>

Check(c) ==
    /\ pc[c] \in {"check", "recheck"} /\ ErrorIsTold(c)
    /\ Goto(c, CASE ShouldStop(c) -> "ok"
                 [] ~ShouldStop(c) /\ pc[c] = "recheck" -> "give"
                 [] ~ShouldStop(c) /\ pc[c] = "check" ->
                      CASE type[c] = "first" -> "make"
                        [] type[c] = "manager" -> "menu"
                        [] OTHER -> "take")
    /\ UNCHANGED <<programs, server, outbox, taken, pin, quit>>

\* receive_new_pin and check_pin_crookness.
Make(c, crooked) ==
    /\ pc[c] = "make" /\ Goto(c, IF crooked THEN "check" ELSE "recheck")
    /\ pin' = [pin EXCEPT ![c] = 1]
    /\ UNCHANGED <<programs, conn, server, outbox, taken, quit>>

\* The number of the message that these bytes are.
ValueOf(c, bytes) ==
    IF \E id \in 1 .. given[c] : bytes = Message(Kind(c), id) THEN bytes[1][2] ELSE Ghost

\* recv gives no bytes at the end of the stream: receive_data asks again.
AsksAgain(c) == mark = "10" \/ type[c] = "collector"

\* Mutant: whatever is not the whole message is asked for again.
ShortAsksAgain(c, bytes) == AsksAgain(c)

ReceivesAgain(c, bytes) == AsksAgain(c) /\ bytes = <<>>

\* receive_pin, receive_server_log and the result of a command: a blocking recv.
Take(c) ==
    LET bytes == First(inbox[c], Size(Kind(c))) IN
    /\ pc[c] = "take" /\ (inbox[c] # <<>> \/ conn[c] # "open")
    /\ ErrorIsTold(c) /\ inbox' = [inbox EXCEPT ![c] = SubSeq(@, Len(bytes) + 1, Len(@))]
    /\ IF Len(bytes) = Size(Kind(c))
       THEN /\ Goto(c, IF type[c] = "second" THEN "recheck" ELSE "check")
            /\ pin' = [pin EXCEPT ![c] = ValueOf(c, bytes)]
            /\ taken' = [taken EXCEPT ![c] = Append(@, pin'[c])]
       ELSE /\ Goto(c, IF conn[c] # "reset" /\ ReceivesAgain(c, bytes) THEN "take" ELSE "failed")
            /\ UNCHANGED <<pin, taken>>
    /\ UNCHANGED <<programs, outbox, given, told, quit>>

\* sendto: what comes after the server has closed is answered with a reset, sooner or later.
SendTo(c, after) ==
    \/ /\ conn[c] = "open" /\ Len(outbox[c]) < SocketBuffer /\ Goto(c, after)
       /\ outbox' = [outbox EXCEPT ![c] = Append(@, pin[c])] /\ UNCHANGED conn
    \/ /\ conn[c] = "fin" /\ Goto(c, after) /\ UNCHANGED outbox
       /\ conn' \in {conn, [conn EXCEPT ![c] = "dead"]}
    \/ conn[c] = "reset" /\ Goto(c, "failed") /\ BecomesOf(c, "dead") /\ UNCHANGED outbox
    \/ /\ conn[c] = "dead" /\ UNCHANGED <<conn, outbox>>
       /\ Goto(c, IF mark = "4-5" THEN "killed" ELSE "failed")      \* SIGPIPE

\* Mutant: what sendto returns is not looked at.
GiveAnyway(c) ==
    /\ pc[c] = "give"
    /\ SendTo(c, "check") \/ (conn[c] = "dead" /\ Goto(c, "check") /\ UNCHANGED <<conn, outbox>>)
    /\ UNCHANGED <<programs, server, taken, pin, quit>>

\* send_not_croocked_pin, send_sharpened_pin.
Give(c) ==
    /\ pc[c] = "give" /\ SendTo(c, "check")
    /\ UNCHANGED <<programs, server, taken, pin, quit>>

\* next_user_command: the user asks for a command or leaves.
Menu(c) ==
    /\ pc[c] = "menu"
    /\ \/ given[c] < MaxMessages /\ Goto(c, "ask") /\ UNCHANGED quit
       \/ Goto(c, "ok") /\ quit' = [quit EXCEPT ![c] = TRUE]
    /\ UNCHANGED <<programs, conn, server, outbox, taken, pin>>

\* send_command_to_server; the result is waited for in Take.
Ask(c) ==
    /\ pc[c] = "ask" /\ SendTo(c, "take")
    /\ UNCHANGED <<programs, server, taken, pin, quit>>

\* Ctrl-C: no client handles the signal.
Interrupt(c) ==
    /\ ~Ended(c) /\ Goto(c, "killed") /\ quit' = [quit EXCEPT ![c] = TRUE]
    /\ UNCHANGED <<programs, conn, server, outbox, taken, pin>>

Step(c) == Connect(c) \/ Check(c) \/ Take(c) \/ Give(c) \/ Ask(c)
ClientNext(c) ==
    Step(c) \/ Menu(c) \/ Interrupt(c) \/ \E crooked \in BOOLEAN : Make(c, crooked)

Next == Close \/ \E c \in Clients : ServerNext(c) \/ ClientNext(c)

\* A client goes on, not every pin is crooked, and a reset comes through; nobody has to
\* use the menu, and the server may do what it likes.
Fairness(c) ==
    /\ WF_vars(Step(c)) /\ SF_vars(Make(c, FALSE))
    /\ SF_vars(Give(c) /\ conn'[c] = "dead")

Spec == Init /\ [][Next]_vars
FairSpec == Spec /\ \A c \in Clients : Fairness(c)

-----------------------------------------------------------------------------
(* Properties.                                                             *)

\* What the constants have to be.
ConstantsOK == MaxMessages \in Nat /\ SocketBuffer \in Nat

Bytes == {"pin", "log", "result", "stop"} \X Nat \X Nat

\* The type of the state; what has been sent and not read fits into the sockets.
TypeOK ==
    /\ mark \in Marks /\ type \in [Clients -> TypesOf[mark]]
    /\ pc \in [Clients -> {"start", "check", "make", "recheck", "take", "give", "menu", "ask",
                           "ok", "failed", "killed"}]
    /\ conn \in [Clients -> {"none", "open", "fin", "reset", "dead"}]
    /\ inbox \in [Clients -> Seq(Bytes)] /\ outbox \in [Clients -> Seq(Nat)]
    /\ \A c \in Clients :
          /\ Len(inbox[c]) =< MaxMessages * Size(Kind(c)) + Size("stop")
          /\ Len(outbox[c]) =< SocketBuffer
    /\ given \in [Clients -> 0 .. MaxMessages] /\ told \in [Clients -> BOOLEAN]
    /\ taken \in [Clients -> Seq(Nat)] /\ pin \in [Clients -> Nat] /\ quit \in [Clients -> BOOLEAN]

\* A client takes the messages of the server for what they are, in their order.  But
\* before mark 10 a worker that waits for a pin (receive_pin) takes the two halves of the
\* shutdown message for two pins; in mark 10 nobody does.
OnlyStopIsMistaken ==
    \A c \in Clients : \E real \in 0 .. Len(taken[c]) :
        /\ \A k \in 1 .. Len(taken[c]) : taken[c][k] = IF k =< real THEN k ELSE Ghost
        /\ real < Len(taken[c]) =>
              /\ mark # "10" /\ type[c] \in {"second", "third"} /\ told[c]
              /\ real = given[c] /\ Len(taken[c]) - real =< 2

\* client_should_stop looks at the first bytes only: who ends with success, without its
\* user, has worked on everything that was sent before the end.
NothingIsLeft ==
    \A c \in Clients : pc[c] = "ok" /\ ~quit[c] => Len(taken[c]) >= given[c]

\* Nobody ends while the server is there, but by its user or because it was never connected.
EndsForAReason ==
    \A c \in Clients : Ended(c) => quit[c] \/ conn[c] # "open"

\* receive_data of mark 10, and of every collector, turns for ever when the connection is
\* closed without the shutdown message.
Spins(c) ==
    pc[c] = "take" /\ inbox[c] = <<>> /\ conn[c] \in {"fin", "dead"} /\ AsksAgain(c)

\* Whom the server tells, it does not leave turning.
ToldNeverSpins == \A c \in Clients : told[c] => ~Spins(c)

\* What holds of every client, however the server behaves: before mark 10 the shutdown
\* message can be taken for pins, and nothing else; a client that ends well has worked on
\* all it was sent; nobody ends while the server is there; a client that was told to end
\* does not turn for ever (client_should_stop, receive_data).
ClientsAreRight ==
    TypeOK /\ OnlyStopIsMistaken /\ NothingIsLeft /\ EndsForAReason /\ ToldNeverSpins

\* When the connection has ended, the client ends: unless it turns in receive_data or its
\* user does not answer.
ClientsEnd ==
    \A c \in Clients :
        [](conn[c] \notin {"none", "open"} => <>(Ended(c) \/ Spins(c) \/ pc[c] = "menu"))
=============================================================================
