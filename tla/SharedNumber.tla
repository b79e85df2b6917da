---------------------------- MODULE SharedNumber ----------------------------
(***************************************************************************)
(* os_hw6 (System V shared memory) and os_hw7 (POSIX): client puts numbers *)
(* into one shared cell, server polls it and prints them.  Ctrl-C ends     *)
(* either, which tells the other: with SIGUSR1 (TERMINATE_USING_SIGNAL),   *)
(* for which they exchange their process ids through the cell first, or    *)
(* with a message in the cell.  A handler serves once (signal() of System  *)
(* V, by _XOPEN_SOURCE): the second signal of a kind kills.                *)
(***************************************************************************)
EXTENDS Naturals, Sequences

CONSTANTS
    Numbers,        \* how many numbers client makes up at most: 1, 2, ...
    MaxRetries      \* of a server that waits for client's last message

ServerPid == 101
ClientPid == 102

VARIABLES
    by_signal,          \* TERMINATE_USING_SIGNAL
    type, rand_num,     \* the cell
    sPc, s_running, client_id, retries, printed,    \* server
    cPc, c_running, server_pid, made, typed_last,   \* client; typed_last: the type it saw
    ctrl_c, usr1        \* who was interrupted by the user, and who was told with SIGUSR1

server == <<sPc, client_id, retries, printed>>
client == <<cPc, server_pid, made, typed_last>>
cell == <<type, rand_num>>
flags == <<s_running, c_running>>
vars == <<by_signal, cell, server, client, flags, ctrl_c, usr1>>

\* The memory is new: zeros, which is EMPTY_MESSAGE.
Init ==
    /\ by_signal \in BOOLEAN /\ type = "EMPTY_MESSAGE" /\ rand_num = 0
    /\ sPc = "start" /\ s_running = TRUE /\ client_id = 0 /\ retries = 0 /\ printed = <<>>
    /\ cPc = "start" /\ c_running = TRUE /\ server_pid = 0 /\ made = 0
    /\ typed_last = "EMPTY_MESSAGE" /\ ctrl_c = {} /\ usr1 = {}

ServerEnded == sPc \in {"done", "killed"}
ClientEnded == cPc \in {"done", "killed"}

\* kill(pid, SIGUSR1), which the handlers take as they take SIGINT.  0, which was read from
\* an empty cell, is the group of the one that asks.
Told(pid, asks) == IF pid = 0 THEN {asks} ELSE IF pid = ServerPid THEN {"server"} ELSE {"client"}

Kill(pid, asks) ==
    /\ usr1' = usr1 \union Told(pid, asks)
    /\ s_running' = (s_running /\ "server" \notin Told(pid, asks))
    /\ c_running' = (c_running /\ "client" \notin Told(pid, asks))
    /\ UNCHANGED ctrl_c

\* Where a process is that would go to a place and is told: the second time is its last.
After(p, place, pid, asks) ==
    IF p \in Told(pid, asks) \intersect usr1 /\ place # "done" THEN "killed" ELSE place

Interrupt ==
    /\ UNCHANGED <<by_signal, cell, client_id, retries, printed, server_pid, made, typed_last, usr1>>
    /\ \/ /\ ~ServerEnded /\ s_running' = FALSE /\ ctrl_c' = ctrl_c \union {"server"}
          /\ sPc' = (IF "server" \in ctrl_c THEN "killed" ELSE sPc)
          /\ UNCHANGED <<cPc, c_running>>
       \/ /\ ~ClientEnded /\ c_running' = FALSE /\ ctrl_c' = ctrl_c \union {"client"}
          /\ cPc' = (IF "client" \in ctrl_c THEN "killed" ELSE cPc)
          /\ UNCHANGED <<sPc, s_running>>

-----------------------------------------------------------------------------
(* server.                                                                 *)

SGoto(to) == sPc' = to
OfServer == UNCHANGED <<by_signal, client, ctrl_c, usr1>>

RunServer ==
    /\ sPc = "start" /\ type' = "EMPTY_MESSAGE" /\ SGoto(IF by_signal THEN "pid" ELSE "poll")
    /\ UNCHANGED <<rand_num, client_id, retries, printed, flags>> /\ OfServer

\* exchange_process_ids_with_client: send, wait, get.
SendServerPid ==
    /\ \/ sPc = "pid" /\ rand_num' = ServerPid /\ SGoto("pid_type") /\ UNCHANGED type
       \/ sPc = "pid_type" /\ type' = "SERVER_SENT_PROCESS_ID" /\ SGoto("wait_pid") /\ UNCHANGED rand_num
    /\ UNCHANGED <<client_id, retries, printed, flags>> /\ OfServer

GetClientPid ==
    /\ \/ /\ sPc = "wait_pid" /\ (~s_running \/ type = "CLIENT_SENT_PROCESS_ID")
          /\ client_id' = rand_num /\ SGoto("got_pid") /\ UNCHANGED type
       \/ /\ sPc = "got_pid" /\ type' = "SERVER_GOT_PROCESS_ID" /\ SGoto("poll")
          /\ UNCHANGED client_id
    /\ UNCHANGED <<rand_num, retries, printed, flags>> /\ OfServer

\* A number is printed, and then the cell is emptied.
PollCell ==
    /\ sPc = "poll"
    /\ \/ ~s_running /\ SGoto("tell_client") /\ UNCHANGED <<printed, s_running>>
       \/ /\ s_running /\ type = "NEW_NUMBER" /\ SGoto("empty")
          /\ printed' = Append(printed, rand_num) /\ UNCHANGED s_running
       \/ /\ s_running /\ type = "CLIENT_SHUTDOWN" /\ SGoto("remove")
          /\ s_running' = FALSE /\ UNCHANGED printed
    /\ UNCHANGED <<cell, client_id, retries, c_running>> /\ OfServer

EmptyCell ==
    /\ sPc = "empty" /\ type' = "EMPTY_MESSAGE" /\ SGoto("poll")
    /\ UNCHANGED <<rand_num, client_id, retries, printed, flags>> /\ OfServer

\* Mutant: client is told with a message that nobody reads.
TellClientSilently ==
    /\ sPc = "tell_client" /\ type' = "SERVER_SHUTDOWN"
    /\ SGoto(IF by_signal THEN "remove" ELSE "wait_client")
    /\ UNCHANGED <<rand_num, client_id, retries, printed, flags>> /\ OfServer

TellClient ==
    /\ sPc = "tell_client"
    /\ IF by_signal
       THEN /\ Kill(client_id, "server") /\ SGoto(After("server", "remove", client_id, "server"))
            /\ cPc' = After("client", cPc, client_id, "server") /\ UNCHANGED type
       ELSE type' = "SERVER_SHUTDOWN" /\ SGoto("wait_client") /\ UNCHANGED <<cPc, flags, ctrl_c, usr1>>
    /\ UNCHANGED <<by_signal, rand_num, client_id, retries, printed, server_pid, made, typed_last>>

WaitForClient ==
    /\ sPc = "wait_client"
    /\ IF type = "READY_TO_REMOVE_SEGMENT" \/ retries = MaxRetries
       THEN SGoto("remove") /\ UNCHANGED retries
       ELSE retries' = retries + 1 /\ UNCHANGED sPc
    /\ UNCHANGED <<cell, client_id, printed, flags>> /\ OfServer

\* The memory is removed; a client that has it keeps it.
RemoveSharedMemory ==
    /\ sPc = "remove" /\ SGoto("done")
    /\ UNCHANGED <<cell, client_id, retries, printed, flags>> /\ OfServer

Server ==
    \/ RunServer \/ SendServerPid \/ GetClientPid \/ PollCell \/ EmptyCell
    \/ TellClient \/ WaitForClient \/ RemoveSharedMemory

-----------------------------------------------------------------------------
(* client.                                                                 *)

CGoto(to) == cPc' = to
OfClient == UNCHANGED <<by_signal, server, ctrl_c, usr1>>

\* exchange_process_ids_with_server: wait, get, send, wait.
GetServerPid ==
    /\ \/ cPc = "start" /\ CGoto(IF by_signal THEN "wait_pid" ELSE "test") /\ UNCHANGED server_pid
       \/ /\ cPc = "wait_pid" /\ (~c_running \/ type = "SERVER_SENT_PROCESS_ID")
          /\ server_pid' = rand_num /\ CGoto("pid")
    /\ UNCHANGED <<cell, made, typed_last, flags>> /\ OfClient

SendClientPid ==
    /\ \/ cPc = "pid" /\ rand_num' = ClientPid /\ CGoto("pid_type") /\ UNCHANGED type
       \/ cPc = "pid_type" /\ type' = "CLIENT_SENT_PROCESS_ID" /\ CGoto("wait_got") /\ UNCHANGED rand_num
       \/ /\ cPc = "wait_got" /\ (~c_running \/ type = "SERVER_GOT_PROCESS_ID")
          /\ CGoto("test") /\ UNCHANGED cell
    /\ UNCHANGED <<server_pid, made, typed_last, flags>> /\ OfClient

TestCell ==
    /\ cPc = "test" /\ typed_last' = (IF c_running THEN type ELSE typed_last)
    /\ CGoto(IF ~c_running \/ type = "SERVER_SHUTDOWN" THEN "tell_server" ELSE "number")
    /\ UNCHANGED <<cell, server_pid, made, flags>> /\ OfClient

\* Mutant: the type is written before the number.
TypeBeforeNumber ==
    /\ \/ /\ cPc = "number" /\ made < Numbers /\ made' = made + 1
          /\ type' = "NEW_NUMBER" /\ CGoto("number_type") /\ UNCHANGED rand_num
       \/ cPc = "number_type" /\ rand_num' = made /\ CGoto("test") /\ UNCHANGED <<type, made>>
       \/ cPc = "number" /\ CGoto("test") /\ UNCHANGED <<cell, made>>
    /\ UNCHANGED <<server_pid, typed_last, flags>> /\ OfClient

\* Every two seconds there is a number, whatever is in the cell.
SendNumber ==
    /\ \/ /\ cPc = "number" /\ made < Numbers /\ made' = made + 1
          /\ rand_num' = made' /\ CGoto("number_type") /\ UNCHANGED type
       \/ cPc = "number_type" /\ type' = "NEW_NUMBER" /\ CGoto("test") /\ UNCHANGED <<rand_num, made>>
       \/ cPc = "number" /\ CGoto("test") /\ UNCHANGED <<cell, made>>
    /\ UNCHANGED <<server_pid, typed_last, flags>> /\ OfClient

TellServer ==
    /\ cPc = "tell_server"
    /\ IF typed_last # "SERVER_SHUTDOWN" /\ by_signal
       THEN /\ Kill(server_pid, "client") /\ CGoto(After("client", "done", server_pid, "client"))
            /\ sPc' = After("server", sPc, server_pid, "client") /\ UNCHANGED type
       ELSE /\ type' = (IF typed_last = "SERVER_SHUTDOWN" THEN "READY_TO_REMOVE_SEGMENT"
                        ELSE "CLIENT_SHUTDOWN")
            /\ CGoto("done") /\ UNCHANGED <<sPc, flags, ctrl_c, usr1>>
    /\ UNCHANGED <<by_signal, rand_num, client_id, retries, printed, server_pid, made, typed_last>>

Client == GetServerPid \/ SendClientPid \/ TestCell \/ SendNumber \/ TellServer

Next == Server \/ Client \/ Interrupt

\* Both are scheduled; nobody has to press Ctrl-C.
Spec == Init /\ [][Next]_vars /\ WF_vars(Server) /\ WF_vars(Client)

-----------------------------------------------------------------------------
(* Properties.                                                             *)

Types == {"EMPTY_MESSAGE", "NEW_NUMBER", "SERVER_SHUTDOWN", "CLIENT_SHUTDOWN",
          "READY_TO_REMOVE_SEGMENT", "SERVER_SENT_PROCESS_ID", "CLIENT_SENT_PROCESS_ID",
          "SERVER_GOT_PROCESS_ID"}

\* The type of the state (message_t and the two programs).
TypeOK ==
    /\ type \in Types /\ typed_last \in Types
    /\ rand_num \in (0 .. Numbers) \union {ServerPid, ClientPid}
    /\ client_id \in {0, ServerPid, ClientPid} /\ made \in 0 .. Numbers
    /\ server_pid \in {0, ServerPid, ClientPid} /\ retries \in 0 .. MaxRetries

\* What is printed are numbers of client in their order, never a process id; one can be
\* missing or come twice when client is quicker than server (run_server, run_client).
NumbersInOrder ==
    /\ \A i \in DOMAIN printed : printed[i] \in 1 .. made
    /\ \A i, j \in DOMAIN printed : i < j => printed[i] <= printed[j]

\* Both know each other when they have begun to exchange numbers, unless they were
\* interrupted before (exchange_process_ids_with_client, exchange_process_ids_with_server).
PidsAreKnown ==
    by_signal /\ ctrl_c = {} =>
        /\ sPc \notin {"start", "pid", "pid_type", "wait_pid"} => client_id = ClientPid
        /\ cPc \notin {"start", "wait_pid"} => server_pid = ServerPid

\* Who is to end after Ctrl-C.  By signal both, when they know each other, but for one that
\* is not told because the other was killed before (a second Ctrl-C).  By message server in any
\* case (MAX_RETRIES), and client unless its next number overwrites the message (run_server,
\* run_client).
EndIsDue ==
    IF by_signal THEN client_id = ClientPid /\ server_pid = ServerPid /\ ctrl_c # {}
    ELSE "server" \in ctrl_c

BothEnded ==
    IF by_signal
    THEN /\ ServerEnded \/ (cPc = "killed" /\ "server" \notin usr1)
         /\ ClientEnded \/ (sPc = "killed" /\ "client" \notin usr1)
    ELSE ServerEnded /\ (ClientEnded \/ type # "SERVER_SHUTDOWN")

BothEnd == EndIsDue ~> BothEnded
=============================================================================
