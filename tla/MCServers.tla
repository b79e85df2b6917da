------------------------------ MODULE MCServers ------------------------------
\* The end of the server of os_ihw3/mark-10, the server of mark-4-5 with its workers, and a
\* client of any mark with any server: program is the one that runs, the variables of the
\* others stay as they are.
EXTENDS Servers

CONSTANTS c1, c2, c3

VARIABLE program

ASSUME ConstantsAreRight == ConstantsOK /\ Client!ConstantsOK /\ Shutdown!ConstantsOK

all == <<program, vars, shutdown>>
server == <<main, newcomer, k, polling, flags, pending, tables, q, peer, made>>

\* The workers of the first server: two, or one of each stage.
Two == [c \in Clients |-> IF c = c2 THEN "second" ELSE "first"]
Three == [Two EXCEPT ![c3] = "third"]

MCInit ==
    /\ program \in {"shutdown", "first server", "client"}
    /\ Client!Init /\ ServerInit /\ Shutdown!Init
    /\ program # "client" => mark = "4-5"
    /\ CASE program = "shutdown" -> type = Two
         [] program = "first server" -> type \in {Two, Three}
         [] program = "client" -> type = [Two EXCEPT ![c1] = type[c1]]

\* Of two workers the second may be refused or interrupted; a third one has found no server
\* before.
TwoStages ==
    /\ type = Two /\ pc'[c3] = "failed" /\ quit'[c1] = quit[c1]
    /\ main = "accept" => peer'[c1] = peer[c1]

\* Three workers wait for the server and are taken before the work begins; all goes well, and
\* the signal comes when the pin is with the third.
Connected == \A c \in Clients : conn[c] # "none"
Arrived == pending = {} /\ newcomer = NoClient /\ Connected
ThreeStages ==
    /\ type = Three /\ quit' = quit
    /\ \A c \in Clients :
          /\ pc[c] = "start" => pc'[c] # "failed"
          /\ pc[c] = "make" => pc'[c] # "check"
          /\ pc'[c] # pc[c] /\ ~Arrived => pc[c] = "start"
    /\ main = "create" => main' \in {"create", "test"} /\ (main' = "test" => Connected)
    /\ main = "accept" => peer' = peer
    /\ given[c3] = 0 => ~signalled'
    /\ ~Arrived => at' \in {"absent", "sleep"}

\* The steps of each.  The first server is sent one pin; the only client of "client" is c1.
ShutdownRuns(A) == program = "shutdown" /\ A /\ UNCHANGED <<program, vars>>
FirstRuns(A) ==
    /\ program = "first server" /\ UNCHANGED <<program, shutdown>>
    /\ A /\ made' =< 1 /\ (TwoStages \/ ThreeStages)
ClientRuns(A) == program = "client" /\ A /\ UNCHANGED <<program, server, shutdown>>

MCNext ==
    \/ ShutdownRuns(Shutdown!Next)
    \/ FirstRuns(Next)
    \/ ClientRuns(Client!Close \/ Client!ServerNext(c1) \/ Client!ClientNext(c1))

\* The fairness of each, for the behaviours in which it runs.  As one program runs, a
\* disjunction of steps of two of them is fair to each.
MCSpec ==
    /\ MCInit /\ [][MCNext]_all
    /\ WF_all(ShutdownRuns(Shutdown!Main) \/ FirstRuns(Main) \/ ClientRuns(Client!Step(c1)))
    /\ WF_all(ShutdownRuns(Shutdown!Poller) \/ FirstRuns(Poller))
    /\ WF_all(\/ ShutdownRuns(Shutdown!ManagersHandler)
              \/ \E c \in Clients : FirstRuns(Accept(c)))
    /\ WF_all(\/ ShutdownRuns(Shutdown!Stopping("main"))
              \/ \E c \in Clients : FirstRuns(ResetArrives(c)))
    /\ WF_all(ShutdownRuns(Shutdown!Stopping("signal")) \/ FirstRuns(WorkerGoesOn(c1)))
    /\ WF_all(ShutdownRuns(Shutdown!Stopping("poller")) \/ FirstRuns(WorkerGoesOn(c2)))
    /\ WF_all(ShutdownRuns(Shutdown!Stopping("logs")) \/ FirstRuns(WorkerGoesOn(c3)))
    /\ WF_all(ShutdownRuns(Shutdown!Stopping("handler")))
    /\ WF_all(ShutdownRuns(Shutdown!LogsSender))
    /\ SF_all(FirstRuns(WorkerMakes(c1, FALSE)) \/ ClientRuns(Client!Make(c1, FALSE)))
    /\ SF_all(\/ FirstRuns(WorkerGoesOn(c1) /\ conn'[c1] = "dead")
              \/ ClientRuns(Client!Give(c1) /\ conn'[c1] = "dead"))

\* ServerShutdown: whoever stops the threads, the server ends, save for three reasons.
\* FirstServer: after Ctrl-C server and workers end.  TcpClients: a client whose connection
\* has ended ends, or turns, or waits for its user.
ProgramsEnd ==
    /\ program = "shutdown" => Shutdown!StoppedServerEnds
    /\ program = "first server" => CtrlCEndsAll
    /\ program = "client" => Client!ClientsEnd
=============================================================================
