-------------------------- MODULE UdpFactoryProofs ---------------------------
(***************************************************************************)
(* Proofs about UdpFactory, for all sets of clients, sizes of the queue of *)
(* logs and numbers of pins, commands and faults: the variables keep their *)
(* types, a stage works on what the stage before it has sent and a client  *)
(* ends only when it was told to, a log that is refused does not stop the  *)
(* server, and a manager that is alone reads the result of its command.    *)
(***************************************************************************)
EXTENDS UdpFactory, WellFoundedInduction, FiniteSetTheorems, SequenceTheorems, TLAPS

\* The pins that workers of a kind may send.
Ready(kind) == CASE kind = "first" -> passed [] kind = "second" -> sharpened [] OTHER -> {}

\* What is on its way from one stage to the next was done by the first of them:
\* in the server's socket, in its hands, in the inbox of a worker ...
PinsAsked == \A i \in DOMAIN toServer :
    toServer[i].type = "pin" => toServer[i].of \in Ready(toServer[i].from)
PinHandled == msg.type = "pin" => msg.of \in Ready(msg.from)
PinsSent == \A c \in Clients : \A i \in DOMAIN inbox[c] :
    inbox[c][i].type = "pin" => inbox[c][i].of \in IF Kind(c) = "second" THEN passed ELSE sharpened

\* ... and with a worker that is about to send it.
PinsHeld == \A c \in Clients :
    pc[c] \in {"before send", "send"} => hold[c] \in Ready(Kind(c))

\* Only workers of the first stage make pins, only managers have a menu.
Roles == \A c \in Clients :
    /\ pc[c] = "check" => Kind(c) = "first"
    /\ pc[c] = "menu" => Kind(c) = "manager"

\* A shutdown in an inbox was sent, and in mark 10 it is for its reader.
ShutdownsSent == \A c \in Clients : \A i \in DOMAIN inbox[c] :
    inbox[c][i].type = "shutdown" =>
        inbox[c][i].to \subseteq told /\ (mark = "10" => ForMe(c, inbox[c][i]))

\* What the poller still has to do belongs to its message.
TodoRight ==
    /\ main = "create poller" => poller = "off"
    /\ poller \in {"off", "test", "receive"} => todo = <<>>
    /\ poller = "handle" => msg \in FromClients
    /\ \A i \in DOMAIN todo :
          /\ todo[i] = "transfer" => msg.type = "pin"
          /\ todo[i] \in {"execute", "result"} => msg.type = "command"

\* Why a thread is about to stop the others, when no call has failed.
StopReasons == faults = 0 =>
    /\ ~good => msg.type \in {"new", "command"}
    /\ poller = "stop" /\ running => msg.type \in {"new", "command"}
    /\ logger = "stop" => ~running

OnTheWay ==
    /\ StagesInOrder /\ OnlyTheToldEnd
    /\ PinsAsked /\ PinHandled /\ PinsSent /\ PinsHeld
    /\ Roles /\ ShutdownsSent

FactoryInv == TypeOK /\ OnTheWay /\ TodoRight /\ StopReasons

\* A sequence of messages has none, or at most one, of a type; all of a type are
\* about one command.
NoneOf(s, ty) == \A i \in DOMAIN s : s[i].type # ty
OnceOf(s, ty) == \A i, j \in DOMAIN s : s[i].type = ty /\ s[j].type = ty => i = j
AllOf(s, ty, n) == \A i \in DOMAIN s : s[i].type = ty => s[i].of = n

NoAnswer == \A i \in DOMAIN todo : todo[i] # "result"
OneAnswer == \A i, j \in DOMAIN todo : todo[i] = "result" /\ todo[j] = "result" => i = j

Alone(c) == \A d \in Managers \ {c} : pc[d] = "absent"

\* The command of a manager is in one place at most, with the server, in its
\* hands or on its way back, while the manager waits for the result; it is the
\* last command of the manager.
OneCommand(c) ==
    /\ OnceOf(toServer, "command") /\ OneAnswer /\ OnceOf(inbox[c], "result")
    /\ NoneOf(toServer, "command") \/ (NoAnswer /\ NoneOf(inbox[c], "result"))
    /\ NoAnswer \/ NoneOf(inbox[c], "result")
    /\ pc[c] \notin {"receive", "ended", "failed"} =>
          NoneOf(toServer, "command") /\ NoAnswer /\ NoneOf(inbox[c], "result")
    /\ AllOf(toServer, "command", hold[c]) /\ AllOf(inbox[c], "result", hold[c])
    /\ NoAnswer \/ msg.of = hold[c]

OneInFlight == \A c \in Managers : Alone(c) => OneCommand(c)

-----------------------------------------------------------------------------
(* Sequences of messages, and what a call into the kernel does.            *)

\* Every client has a kind; managers are those of kind manager.
LEMMA KindTypes ==
    \A c \in Clients : Kind(c) \in Kinds /\ (Kind(c) = "manager" <=> c \in Managers)
  BY FactoryAssumption DEF Clients, Kind, Kinds, Workers

\* Elements of what is left of a sequence are elements of it.
Suffix(s, t) == \E n \in Nat : \A i \in DOMAIN t : i + n \in DOMAIN s /\ t[i] = s[i + n]

\* The rest of a sequence that is not empty.
LEMMA TailIsSuffix ==
    ASSUME NEW S, NEW s \in Seq(S), s # <<>>
    PROVE  /\ Tail(s) \in Seq(S) /\ Head(s) \in S /\ Suffix(s, Tail(s))
           /\ Head(s) = s[1] /\ 1 \in DOMAIN s
           /\ DOMAIN Tail(s) = 1 .. Len(s) - 1
           /\ \A i \in DOMAIN Tail(s) : i + 1 \in DOMAIN s /\ Tail(s)[i] = s[i + 1]
  <1>1. /\ Tail(s) \in Seq(S) /\ Head(s) \in S /\ Head(s) = s[1] /\ 1 \in DOMAIN s
        /\ Len(s) \in Nat /\ Len(Tail(s)) = Len(s) - 1
        /\ \A i \in DOMAIN Tail(s) : i + 1 \in DOMAIN s /\ Tail(s)[i] = s[i + 1]
    OBVIOUS
  <1>2. QED
    BY <1>1 DEF Suffix

\* The elements of a sequence with one more at its end.
LEMMA AppendElements ==
    ASSUME NEW S, NEW s \in Seq(S), NEW e \in S
    PROVE  /\ Append(s, e) \in Seq(S) /\ Len(s) \in Nat /\ DOMAIN s = 1 .. Len(s)
           /\ DOMAIN Append(s, e) = 1 .. Len(s) + 1
           /\ \A i \in DOMAIN Append(s, e) :
                 \/ i \in DOMAIN s /\ Append(s, e)[i] = s[i]
                 \/ i = Len(s) + 1 /\ Append(s, e)[i] = e
  OBVIOUS

\* A set of natural numbers that is not empty has a least element.
LEMMA LeastNumber ==
    ASSUME NEW S, S \subseteq Nat, S # {}
    PROVE  \E i \in S : \A j \in S : i =< j
  <1> DEFINE less == {p \in Nat \X Nat : p[1] < p[2]}
  <1>1. IsWellFoundedOn(less, Nat)
    BY NatLessThanWellFounded DEF OpToRel
  <1>2. PICK i \in S : \A j \in S : <<j, i>> \notin less
    <2> HIDE DEF less
    <2>1. QED
      BY <1>1, WFMin
  <1>3. ASSUME NEW j \in S PROVE i =< j
    <2>1. <<j, i>> \in Nat \X Nat /\ <<j, i>> \notin less
      BY <1>2
    <2>2. ~(j < i)
      BY <2>1
    <2>3. QED
      BY <2>2
  <1>4. QED
    BY <1>3

\* skip_messages_not_from_the_server leaves the end of the inbox, from the first
\* message that is for the client.
LEMMA SkippedIsSuffix ==
    ASSUME TypeOK, NEW c \in Clients
    PROVE  /\ Skipped(c) \in Seq(FromServer) /\ Suffix(inbox[c], Skipped(c))
           /\ Skipped(c) # <<>> => ForMe(c, Head(Skipped(c)))
  <1> DEFINE mine == {i \in DOMAIN inbox[c] : ForMe(c, inbox[c][i])}
             k == CHOOSE i \in mine : \A j \in mine : i =< j
  <1>1. inbox[c] \in Seq(FromServer)
    BY DEF TypeOK
  <1>2. CASE mine = {}
    <2>1. Skipped(c) = <<>>
      BY <1>2 DEF Skipped
    <2>2. QED
      BY <2>1 DEF Suffix
  <1>3. CASE mine # {}
    <2>1. mine \subseteq Nat
      BY <1>1
    <2>2. k \in mine
      <3>1. \E i \in mine : \A j \in mine : i =< j
        BY <1>3, <2>1, LeastNumber
      <3>2. QED
        BY <3>1
    <2>3. Skipped(c) = SubSeq(inbox[c], k, Len(inbox[c]))
      BY <1>3 DEF Skipped
    <2>4. k \in 1 .. Len(inbox[c]) /\ ForMe(c, inbox[c][k])
      BY <1>1, <2>2
    <2> HIDE DEF k
    <2>5. /\ Skipped(c) \in Seq(FromServer) /\ Len(Skipped(c)) = Len(inbox[c]) - k + 1
          /\ \A i \in 1 .. Len(inbox[c]) - k + 1 : Skipped(c)[i] = inbox[c][i + (k - 1)]
      BY <1>1, <2>3, <2>4
    <2>6. Suffix(inbox[c], Skipped(c))
      <3>1. \A i \in DOMAIN Skipped(c) :
                i + (k - 1) \in DOMAIN inbox[c] /\ Skipped(c)[i] = inbox[c][i + (k - 1)]
        BY <1>1, <2>4, <2>5
      <3>2. k - 1 \in Nat
        BY <1>1, <2>4
      <3>3. QED
        BY <3>1, <3>2 DEF Suffix
    <2>7. Head(Skipped(c)) = inbox[c][k]
      BY <1>1, <2>4, <2>5
    <2>8. QED
      BY <2>4, <2>5, <2>6, <2>7
  <1>4. QED
    BY <1>2, <1>3

\* A broadcast is put into the inboxes of clients that look at it, or is missed.
LEMMA Heard ==
    ASSUME TypeOK, NEW m \in FromServer, Broadcast(m)
    PROVE  /\ inbox' \in [Clients -> Seq(FromServer)] /\ told' \subseteq Kinds
           /\ told \subseteq told' /\ (m.type = "shutdown" => m.to \subseteq told')
           /\ faults' \in 0 .. allowed /\ faults =< faults'
           /\ \A c \in Clients :
                 \/ inbox'[c] = inbox[c]
                 \/ /\ inbox'[c] = Append(inbox[c], m)
                    /\ Bound(c) /\ (ForMe(c, m) \/ TakesShutdown(c, m))
  <1> DEFINE hears == {c \in Clients : Bound(c) /\ (ForMe(c, m) \/ TakesShutdown(c, m))}
  <1>1. PICK lost \in SUBSET hears :
           /\ Fault(Cardinality(lost))
           /\ inbox' = [c \in Clients |->
                           IF c \in hears \ lost THEN Append(inbox[c], m) ELSE inbox[c]]
           /\ told' = IF m.type = "shutdown" THEN told \union m.to ELSE told
    BY DEF Broadcast
  <1>2. Cardinality(lost) \in Nat
    BY FactoryAssumption, FS_Subset, FS_CardinalityType
  <1>3. faults' \in 0 .. allowed /\ faults =< faults'
    BY <1>1, <1>2 DEF Fault, TypeOK
  <1>4. m.to \subseteq Kinds /\ told \subseteq Kinds
    BY DEF TypeOK, FromServer
  <1>5. \A c \in Clients : inbox[c] \in Seq(FromServer) /\ Append(inbox[c], m) \in Seq(FromServer)
    BY DEF TypeOK
  <1>6. QED
    BY <1>1, <1>3, <1>4, <1>5

\* A sendto that fails is a fault and reaches nobody.
LEMMA Unheard ==
    ASSUME TypeOK, SendFails
    PROVE  UNCHANGED <<inbox, told>> /\ faults' \in 0 .. allowed /\ faults' > 0 /\ faults =< faults'
  BY DEF SendFails, Fault, TypeOK

\* What a client sends is put into the server's socket, or is missed.
LEMMA ServerHears ==
    ASSUME TypeOK, NEW m \in FromClients, SendToServer(m)
    PROVE  /\ toServer' \in Seq(FromClients) /\ faults' \in 0 .. allowed /\ faults =< faults'
           /\ toServer' \in {toServer, Append(toServer, m)}
  <1>1. toServer' = toServer \/ toServer' = Append(toServer, m)
    BY DEF SendToServer
  <1>2. toServer \in Seq(FromClients)
    BY DEF TypeOK
  <1>3. faults' \in 0 .. allowed /\ faults =< faults'
    <2>1. faults' = faults \/ Fault(1)
      BY DEF SendToServer
    <2>2. QED
      BY <2>1 DEF Fault, TypeOK
  <1>4. QED
    BY <1>1, <1>2, <1>3

\* A fault is one that is allowed.
LEMMA FaultTypes == ASSUME TypeOK, Fault(1) PROVE faults' \in 0 .. allowed /\ faults' > faults
  BY DEF Fault, TypeOK

-----------------------------------------------------------------------------
(* Types.                                                                  *)

\* The types hold at the start.
LEMMA InitTypes == Init => TypeOK
  <1> SUFFICES ASSUME Init PROVE TypeOK
    OBVIOUS
  <1>1. allowed \in 0 .. MaxFaults /\ faults = 0 /\ made = 0 /\ commands = 0 /\ size = 0
    BY DEF Init
  <1>2. /\ made \in 0 .. MaxPins /\ commands \in 0 .. MaxCommands /\ size \in 0 .. QueueSize
        /\ faults \in 0 .. allowed
    BY <1>1, FactoryAssumption
  <1>3. pc \in [Clients -> ClientAt]
    <2>1. pc \in [Clients -> {"off", "absent"}]
      BY DEF Init
    <2>2. QED
      BY <2>1 DEF ClientAt
  <1>4. hold \in [Clients -> Numbers]
    <2>1. hold = [c \in Clients |-> 0]
      BY DEF Init
    <2>2. QED
      BY <2>1, FactoryAssumption DEF Numbers
  <1>5. inbox \in [Clients -> Seq(FromServer)]
    <2>1. inbox = [c \in Clients |-> <<>>]
      BY DEF Init
    <2>2. <<>> \in Seq(FromServer)
      OBVIOUS
    <2>3. QED
      BY <2>1, <2>2, Zenon
  <1>6. toServer \in Seq(FromClients) /\ todo \in Seq({"log", "transfer", "execute", "result"})
    <2>1. toServer = <<>> /\ todo = <<>>
      BY DEF Init
    <2>2. QED
      BY <2>1
  <1>7. /\ mark \in Marks /\ main = "create poller" /\ poller = "off" /\ logger = "off"
        /\ running = TRUE /\ ctrlC \in {"never", "later"}
        /\ recorded = {} /\ cancelled = {} /\ missed = {} /\ told = {}
        /\ msg = NoMessage /\ good = TRUE /\ passed = {} /\ sharpened = {} /\ checked = {}
    BY DEF Init
  <1>8. QED
    BY <1>1, <1>2, <1>3, <1>4, <1>5, <1>6, <1>7 DEF TypeOK, MainAt, PollerAt, LoggerAt

\* The steps of main and of the signal handler keep the types ...
LEMMA MainTypes == ASSUME TypeOK, Main \/ CtrlC PROVE TypeOK'
  <1>1. CASE CreatePoller
    BY <1>1, FaultTypes DEF CreatePoller, StopAllThreads, TypeOK, MainAt, PollerAt,
       setting, handler, clients, pins
  <1>2. CASE CreateLogger
    BY <1>2, FaultTypes DEF CreateLogger, StopAllThreads, TypeOK, MainAt, LoggerAt,
       setting, handler, clients, pins
  <1>3. CASE RecordPoller \/ RecordLogger \/ Join
    BY <1>3 DEF RecordPoller, RecordLogger, Join, TypeOK, MainAt, setting, handler, clients, pins
  <1>4. CASE SendShutdownSignalToAll
    <2>1. ShutdownMessage(ShutdownReceivers) \in FromServer
      BY FactoryAssumption
         DEF ShutdownMessage, ShutdownReceivers, FromServer, Kinds, Workers, Numbers
    <2>2. /\ inbox' \in [Clients -> Seq(FromServer)] /\ told' \subseteq Kinds
          /\ faults' \in 0 .. allowed
      BY <1>4, <2>1, Heard, Unheard DEF SendShutdownSignalToAll, TypeOK
    <2>3. QED
      BY <1>4, <2>2 DEF SendShutdownSignalToAll, TypeOK, MainAt, setting, handler, clients, pins
  <1>5. CASE CtrlC
    BY <1>5 DEF CtrlC, StopAllThreads, TypeOK, setting, handler, clients, pins
  <1>6. QED
    BY <1>1, <1>2, <1>3, <1>4, <1>5 DEF Main

\* What the handler of a message has to do is a sequence of its steps.
LEMMA StepsTypes ==
    ASSUME NEW m \in FromClients
    PROVE  Steps(m) \in Seq({"log", "transfer", "execute", "result"})
  <1>1. m.type \in {"new", "pin", "command"}
    BY DEF FromClients
  <1> DEFINE S == {"log", "transfer", "execute", "result"}
  <1>2. <<>> \in Seq(S) /\ <<"log">> \in Seq(S) /\ <<"transfer">> \in Seq(S)
    OBVIOUS
  <1>3. <<"log", "log", "transfer">> \in Seq(S)
    OBVIOUS
  <1>4. <<"log", "execute", "log", "result", "log">> \in Seq(S)
    OBVIOUS
  <1> HIDE DEF S
  <1>5. \/ Steps(m) \in {<<>>, <<"log">>, <<"transfer">>, <<"log", "log", "transfer">>}
        \/ Steps(m) = <<"log", "execute", "log", "result", "log">>
    BY <1>1, Zenon DEF Steps
  <1>6. Steps(m) \in Seq(S)
    BY <1>2, <1>3, <1>4, <1>5
  <1>7. QED
    BY <1>6 DEF S

\* What the poller and the logs sender broadcast.
LEMMA SentTypes ==
    ASSUME TypeOK, TodoRight, poller = "handle", todo # <<>>
    PROVE  /\ Head(todo) = "transfer" => PinMessage(NextStage(msg.from), msg.of) \in FromServer
           /\ Head(todo) = "execute" => ShutdownMessage({msg.to}) \in FromServer
           /\ Head(todo) = "result" => ResultMessage(msg.of) \in FromServer
           /\ LogMessage \in FromServer
  <1>1. msg \in FromClients /\ Head(todo) = todo[1] /\ 1 \in DOMAIN todo
    BY TailIsSuffix DEF TypeOK, TodoRight
  <1>2. msg.of \in Numbers /\ (msg.type = "command" => msg.to \in Kinds) /\ 0 \in Numbers
    BY <1>1, FactoryAssumption DEF FromClients, Numbers
  <1>3. NextStage(msg.from) \in Kinds /\ "manager" \in Kinds /\ "collector" \in Kinds
    BY DEF NextStage, Kinds, Workers
  <1>4. Head(todo) = "execute" => msg.type = "command"
    BY <1>1 DEF TodoRight
  <1>5. QED
    BY <1>2, <1>3, <1>4
       DEF PinMessage, ShutdownMessage, ResultMessage, LogMessage, FromServer

\* ... the poller's ...
LEMMA PollerTypes == ASSUME TypeOK, TodoRight, Poller PROVE TypeOK'
  <1>1. CASE TestPoller \/ CancelPoller
    BY <1>1 DEF TestPoller, CancelPoller, PollerGoto, TypeOK, PollerAt, setting, handler,
       clients, pins
  <1>2. CASE StopPoller
    BY <1>2 DEF StopPoller, StopAllThreads, TypeOK, PollerAt, setting, handler, clients, pins
  <1>3. CASE Receive
    <2>1. /\ msg' \in FromClients \union {NoMessage} /\ good' \in BOOLEAN
          /\ todo' \in Seq({"log", "transfer", "execute", "result"})
          /\ toServer' \in Seq(FromClients) /\ poller' \in PollerAt /\ faults' \in 0 .. allowed
      <3>1. CASE toServer # <<>> /\ toServer' = Tail(toServer) /\ msg' = Head(toServer)
                 /\ todo' = Steps(Head(toServer)) /\ good' = TRUE
                 /\ PollerGoto(AfterSteps(Steps(Head(toServer)), TRUE)) /\ UNCHANGED faults
        <4>1. toServer \in Seq(FromClients)
          BY DEF TypeOK
        <4>2. Head(toServer) \in FromClients /\ Tail(toServer) \in Seq(FromClients)
          BY <3>1, <4>1, TailIsSuffix
        <4>3. QED
          BY <3>1, <4>2, StepsTypes DEF PollerGoto, AfterSteps, PollerAt, TypeOK
      <3>2. CASE PollerGoto("stop") /\ Fault(1) /\ UNCHANGED <<msg, todo, good, toServer>>
        BY <3>2, FaultTypes DEF PollerGoto, PollerAt, TypeOK
      <3>3. QED
        BY <1>3, <3>1, <3>2 DEF Receive
    <2>2. QED
      BY <1>3, <2>1 DEF Receive, PollerGoto, TypeOK, setting, clients, pins
  <1>4. CASE HandleLog \/ HandleSend
    <2>1. todo' \in Seq({"log", "transfer", "execute", "result"})
      <3>1. todo # <<>> /\ todo' = Tail(todo)
        BY <1>4, Zenon DEF HandleLog, HandleSend
      <3>2. todo \in Seq({"log", "transfer", "execute", "result"})
        BY DEF TypeOK
      <3>3. QED
        BY <3>1, <3>2, TailIsSuffix
    <2>2. good' \in BOOLEAN
      <3>1. good \in BOOLEAN
        BY DEF TypeOK
      <3>2. CASE HandleLog
        BY <3>1, <3>2, Zenon DEF HandleLog
      <3>3. CASE HandleSend
        BY <3>1, <3>3, Zenon DEF HandleSend
      <3>4. QED
        BY <1>4, <3>2, <3>3
    <2>3. poller' \in PollerAt
      BY <1>4 DEF HandleLog, HandleSend, PollerGoto, AfterSteps, PollerAt
    <2>4. CASE HandleLog
      <3>1. size' \in 0 .. QueueSize
        BY <2>4, FactoryAssumption DEF HandleLog, TypeOK
      <3>2. QED
        BY <2>1, <2>2, <2>3, <2>4, <3>1
           DEF HandleLog, PollerGoto, TypeOK, setting, clients, pins
    <2>5. CASE HandleSend
      <3>1. PICK m \in FromServer : Broadcast(m) \/ SendFails
        <4>1. Head(todo) \in {"transfer", "execute", "result"}
          BY <2>5, TailIsSuffix DEF HandleSend, TypeOK
        <4>2. QED
          BY <2>5, <4>1, SentTypes DEF HandleSend
      <3>2. /\ inbox' \in [Clients -> Seq(FromServer)] /\ told' \subseteq Kinds
            /\ faults' \in 0 .. allowed
        BY <3>1, Heard, Unheard DEF TypeOK
      <3>3. QED
        BY <2>1, <2>2, <2>3, <2>5, <3>2
           DEF HandleSend, PollerGoto, TypeOK, setting, clients, pins
    <2>6. QED
      BY <1>4, <2>4, <2>5
  <1>5. QED
    BY <1>1, <1>2, <1>3, <1>4 DEF Poller

\* ... the logger's ...
LEMMA LoggerTypes == ASSUME TypeOK, Logger PROVE TypeOK'
  <1>1. CASE TestLogger \/ CancelLogger
    BY <1>1 DEF TestLogger, CancelLogger, LoggerGoto, TypeOK, LoggerAt, setting, handler,
       clients, pins
  <1>2. CASE StopLogger
    BY <1>2 DEF StopLogger, StopAllThreads, TypeOK, LoggerAt, setting, handler, clients, pins
  <1>3. CASE DequeueLog
    <2>1. size' \in 0 .. QueueSize
      BY <1>3, FactoryAssumption DEF DequeueLog, TypeOK
    <2>2. QED
      BY <1>3, <2>1 DEF DequeueLog, LoggerGoto, TypeOK, LoggerAt, setting, clients, pins
  <1>4. CASE SendServerLog
    <2>1. LogMessage \in FromServer
      BY FactoryAssumption DEF LogMessage, FromServer, Kinds, Numbers
    <2>2. /\ inbox' \in [Clients -> Seq(FromServer)] /\ told' \subseteq Kinds
          /\ faults' \in 0 .. allowed
      BY <1>4, <2>1, Heard, Unheard DEF SendServerLog, TypeOK
    <2>3. QED
      BY <1>4, <2>2 DEF SendServerLog, LoggerGoto, TypeOK, LoggerAt, setting, handler, clients, pins
  <1>5. QED
    BY <1>1, <1>2, <1>3, <1>4 DEF Logger

\* What a client sends.
LEMMA MessageTypes ==
    ASSUME TypeOK, NEW c \in Clients
    PROVE  /\ Message(c, "new", 0) \in FromClients
           /\ Message(c, "pin", hold[c]) \in FromClients
           /\ \A n \in Numbers : \A kind \in Kinds : Kind(c) = "manager" =>
                 [Message(c, "command", n) EXCEPT !.to = kind] \in FromClients
  <1>1. Kind(c) \in Kinds
    BY KindTypes
  <1>2. hold[c] \in Numbers /\ 0 \in Numbers
    BY FactoryAssumption DEF TypeOK, Numbers
  <1>3. QED
    BY <1>1, <1>2 DEF Message, FromClients

\* ... and the clients' steps do.
LEMMA ClientTypes ==
    ASSUME TypeOK, PinsSent, Roles, StagesInOrder, NEW c \in Clients,
           Start(c) \/ Client(c) \/ UserExits(c) \/ UserCommands(c)
    PROVE  TypeOK'
  <1>1. CASE Start(c)
    <2>1. /\ toServer' \in Seq(FromClients) /\ faults' \in 0 .. allowed
          /\ pc' \in [Clients -> ClientAt]
      BY <1>1, MessageTypes, ServerHears, FaultTypes DEF Start, Goto, TypeOK, ClientAt
    <2>2. QED
      BY <1>1, <2>1 DEF Start, TypeOK, setting, threads, handler, pins
  <1>2. CASE ClientShouldStop(c)
    <2>1. inbox' \in [Clients -> Seq(FromServer)]
      BY <1>2, SkippedIsSuffix DEF ClientShouldStop, TypeOK
    <2>2. pc' \in [Clients -> ClientAt]
      BY <1>2 DEF ClientShouldStop, Goto, Activity, TypeOK, ClientAt
    <2>3. QED
      BY <1>2, <2>1, <2>2 DEF ClientShouldStop, TypeOK, setting, threads, handler, pins
  <1>3. CASE CheckPin(c)
    <2>1. CASE UNCHANGED <<hold, made, passed>>
      BY <1>3, <2>1 DEF CheckPin, Goto, TypeOK, ClientAt, setting, threads, handler
    <2>2. CASE /\ made < MaxPins /\ made' = made + 1 /\ passed' = passed \union {made'}
               /\ hold' = [hold EXCEPT ![c] = made'] /\ Goto(c, "before send")
      <3>1. made' \in 0 .. MaxPins /\ made' \in Numbers /\ made' \in 1 .. made'
        <4>1. made < MaxPins /\ made' = made + 1 /\ made \in 0 .. MaxPins
          BY <2>2 DEF TypeOK
        <4>2. MaxPins \in Nat /\ MaxCommands \in Nat
          BY FactoryAssumption
        <4>3. QED
          BY <4>1, <4>2 DEF Numbers
      <3>2. passed \union sharpened \union checked \subseteq 1 .. made'
        <4>1. made \in 0 .. MaxPins /\ made' = made + 1
          BY <2>2 DEF TypeOK
        <4>2. passed \union sharpened \union checked \subseteq 1 .. made
          BY DEF TypeOK
        <4>3. 1 .. made \subseteq 1 .. made'
          BY <4>1
        <4>4. QED
          BY <4>2, <4>3
      <3>3. hold' \in [Clients -> Numbers] /\ pc' \in [Clients -> ClientAt]
        BY <2>2, <3>1 DEF Goto, TypeOK, ClientAt
      <3>4. passed' \union sharpened' \union checked' \subseteq 1 .. made'
        BY <1>3, <2>2, <3>1, <3>2 DEF CheckPin
      <3>5. QED
        BY <1>3, <3>1, <3>3, <3>4 DEF CheckPin, TypeOK, setting, threads, handler
    <2>3. QED
      BY <1>3, <2>1, <2>2 DEF CheckPin
  <1>4. CASE SendPin(c)
    <2>1. /\ toServer' \in Seq(FromClients) /\ faults' \in 0 .. allowed
          /\ pc' \in [Clients -> ClientAt]
      BY <1>4, MessageTypes, ServerHears, FaultTypes DEF SendPin, Goto, TypeOK, ClientAt
    <2>2. QED
      BY <1>4, <2>1 DEF SendPin, TypeOK, setting, threads, handler, pins
  <1>5. CASE ReceiveData(c)
    <2>1. /\ Head(inbox[c]) \in FromServer /\ inbox' \in [Clients -> Seq(FromServer)]
          /\ Head(inbox[c]) = inbox[c][1] /\ 1 \in DOMAIN inbox[c]
      BY <1>5, TailIsSuffix DEF ReceiveData, TypeOK
    <2>2. pc' \in [Clients -> ClientAt]
      BY <1>5 DEF ReceiveData, SharpenPin, CheckQuality, PrintServerLog, HandleServerResponse,
         Goto, TypeOK, ClientAt
    <2>3. hold' \in [Clients -> Numbers]
      BY <1>5, <2>1 DEF ReceiveData, SharpenPin, CheckQuality, PrintServerLog,
         HandleServerResponse, TypeOK, FromServer
    <2>4. sharpened' \union checked' \subseteq 1 .. made
      <3>1. Head(inbox[c]).type = "pin" => Head(inbox[c]).of \in 1 .. made
        BY <2>1 DEF PinsSent, TypeOK, StagesInOrder
      <3>2. /\ sharpened' \in {sharpened, sharpened \union {Head(inbox[c]).of}}
            /\ checked' \in {checked, checked \union {Head(inbox[c]).of}}
            /\ \/ sharpened' = sharpened /\ checked' = checked
               \/ Head(inbox[c]).type = "pin"
        BY <1>5 DEF ReceiveData, SharpenPin, CheckQuality, PrintServerLog, HandleServerResponse
      <3>3. QED
        BY <3>1, <3>2 DEF TypeOK
    <2>5. QED
      BY <1>5, <2>1, <2>2, <2>3, <2>4 DEF ReceiveData, TypeOK, setting, threads, handler
  <1>6. CASE UserExits(c)
    BY <1>6 DEF UserExits, Goto, TypeOK, ClientAt, setting, threads, handler, pins
  <1>7. CASE UserCommands(c)
    <2>1. commands' \in 0 .. MaxCommands /\ commands' \in Numbers
      BY <1>7, FactoryAssumption DEF UserCommands, TypeOK, Numbers
    <2>2. Kind(c) = "manager"
      BY <1>7 DEF UserCommands, Roles
    <2>3. toServer' \in Seq(FromClients) /\ faults' \in 0 .. allowed
      <3>1. CASE \E kind \in Asked :
                    SendToServer([Message(c, "command", commands') EXCEPT !.to = kind])
        <4>1. PICK kind \in Asked :
                      SendToServer([Message(c, "command", commands') EXCEPT !.to = kind])
          BY <3>1
        <4>2. [Message(c, "command", commands') EXCEPT !.to = kind] \in FromClients
          BY <2>1, <2>2, MessageTypes, FactoryAssumption
        <4>3. QED
          BY <4>1, <4>2, ServerHears
      <3>2. CASE Fault(1) /\ UNCHANGED toServer
        BY <3>2, FaultTypes DEF TypeOK
      <3>3. QED
        BY <1>7, <3>1, <3>2 DEF UserCommands
    <2>4. pc' \in [Clients -> ClientAt] /\ hold' \in [Clients -> Numbers]
      BY ZenonT(60), <1>7, <2>1 DEF UserCommands, Goto, TypeOK, ClientAt
    <2>5. QED
      BY <1>7, <2>1, <2>3, <2>4 DEF UserCommands, TypeOK, setting, threads, handler, pins
  <1>8. QED
    BY <1>1, <1>2, <1>3, <1>4, <1>5, <1>6, <1>7 DEF Client

\* Every step keeps the types.
LEMMA TypesStep == FactoryInv /\ [Next]_vars => TypeOK'
  <1> SUFFICES ASSUME FactoryInv, [Next]_vars PROVE TypeOK'
    OBVIOUS
  <1> USE DEF FactoryInv, OnTheWay
  <1>1. CASE Main \/ CtrlC
    BY <1>1, MainTypes
  <1>2. CASE Poller
    BY <1>2, PollerTypes
  <1>3. CASE Logger
    BY <1>3, LoggerTypes
  <1>4. ASSUME NEW c \in Clients, Start(c) \/ Client(c) \/ UserExits(c) \/ UserCommands(c)
        PROVE  TypeOK'
    BY <1>4, ClientTypes
  <1>5. CASE UNCHANGED vars
    BY <1>5 DEF vars, setting, threads, handler, clients, pins, TypeOK
  <1>6. QED
    BY <1>1, <1>2, <1>3, <1>4, <1>5 DEF Next

-----------------------------------------------------------------------------
(* Messages and pins, by what a step does.                                 *)

\* A step that sends and receives nothing.
LEMMA QuietSteps ==
    ASSUME TypeOK, OnTheWay, TypeOK', faults =< faults',
           UNCHANGED <<inbox, toServer, pc, hold, passed, sharpened, checked, mark, told, msg>>
    PROVE  OnTheWay'
  <1>1. faults' = 0 => faults = 0
    BY DEF TypeOK
  <1>2. StagesInOrder' /\ OnlyTheToldEnd'
    BY <1>1 DEF OnTheWay, StagesInOrder, OnlyTheToldEnd
  <1>3. PinsAsked' /\ PinHandled' /\ PinsSent' /\ PinsHeld'
    BY DEF OnTheWay, PinsAsked, PinHandled, PinsSent, PinsHeld, Ready
  <1>4. Roles' /\ ShutdownsSent'
    BY DEF OnTheWay, Roles, ShutdownsSent, ForMe
  <1>5. QED
    BY <1>2, <1>3, <1>4 DEF OnTheWay

\* A broadcast of pins that the stage before has sent.
LEMMA SendSteps ==
    ASSUME TypeOK, OnTheWay, TypeOK', NEW m \in FromServer, Broadcast(m) \/ SendFails,
           \A c \in Clients : m.type = "pin" /\ ForMe(c, m) =>
               m.of \in IF Kind(c) = "second" THEN passed ELSE sharpened,
           UNCHANGED <<toServer, pc, hold, passed, sharpened, checked, mark, msg>>
    PROVE  OnTheWay'
  <1>1. /\ told \subseteq told' /\ (inbox' = inbox \/ (m.type = "shutdown" => m.to \subseteq told'))
        /\ faults =< faults'
        /\ \A c \in Clients :
              \/ inbox'[c] = inbox[c]
              \/ inbox'[c] = Append(inbox[c], m) /\ (ForMe(c, m) \/ TakesShutdown(c, m))
    BY Heard, Unheard
  <1>2. faults' = 0 => faults = 0
    BY <1>1 DEF TypeOK
  <1>3. StagesInOrder' /\ OnlyTheToldEnd'
    BY <1>1, <1>2 DEF OnTheWay, StagesInOrder, OnlyTheToldEnd
  <1>4. PinsAsked' /\ PinHandled' /\ PinsHeld' /\ Roles'
    BY DEF OnTheWay, PinsAsked, PinHandled, PinsHeld, Ready, Roles
  <1>5. ASSUME NEW c \in Clients, NEW i \in DOMAIN inbox'[c]
        PROVE  \/ i \in DOMAIN inbox[c] /\ inbox'[c][i] = inbox[c][i]
               \/ inbox'[c][i] = m /\ (ForMe(c, m) \/ TakesShutdown(c, m))
                  /\ inbox'[c] # inbox[c]
    <2>1. CASE inbox'[c] = inbox[c]
      BY <2>1
    <2>2. CASE inbox'[c] # inbox[c]
      <3>1. inbox'[c] = Append(inbox[c], m) /\ (ForMe(c, m) \/ TakesShutdown(c, m))
        BY <1>1, <2>2
      <3>2. inbox[c] \in Seq(FromServer)
        BY DEF TypeOK
      <3>3. QED
        BY <2>2, <3>1, <3>2, AppendElements
    <2>3. QED
      BY <2>1, <2>2
  <1>6. PinsSent'
    <2>1. ASSUME NEW c \in Clients, NEW i \in DOMAIN inbox'[c], inbox'[c][i].type = "pin"
          PROVE  inbox'[c][i].of \in IF Kind(c) = "second" THEN passed ELSE sharpened
      BY <1>5, <2>1 DEF OnTheWay, PinsSent, TakesShutdown
    <2>2. QED
      BY <2>1 DEF PinsSent
  <1>7. ShutdownsSent'
    <2>1. ASSUME NEW c \in Clients, NEW i \in DOMAIN inbox'[c], inbox'[c][i].type = "shutdown"
          PROVE  inbox'[c][i].to \subseteq told' /\ (mark = "10" => ForMe(c, inbox'[c][i]))
      BY <1>1, <1>5, <2>1 DEF OnTheWay, ShutdownsSent, TakesShutdown
    <2>2. QED
      BY <2>1 DEF ShutdownsSent, ForMe
  <1>8. QED
    BY <1>3, <1>4, <1>6, <1>7 DEF OnTheWay

\* main sends a shutdown to those it has told to shut down ...
LEMMA MainOnTheWay == ASSUME TypeOK, TypeOK', OnTheWay, Main \/ CtrlC PROVE OnTheWay'
  <1>1. CASE CreatePoller \/ RecordPoller \/ CreateLogger \/ RecordLogger \/ Join \/ CtrlC
    <2>1. faults =< faults'
      <3>1. UNCHANGED faults \/ Fault(1)
        BY <1>1 DEF CreatePoller, RecordPoller, CreateLogger, RecordLogger, Join, CtrlC
      <3>2. QED
        BY <3>1, FaultTypes DEF TypeOK
    <2>2. UNCHANGED <<inbox, toServer, pc, hold, passed, sharpened, checked, mark, told, msg>>
      BY <1>1 DEF CreatePoller, RecordPoller, CreateLogger, RecordLogger, Join, CtrlC,
         setting, handler, clients, pins
    <2>3. QED
      BY <2>1, <2>2, QuietSteps
  <1>2. CASE SendShutdownSignalToAll
    <2>1. ShutdownMessage(ShutdownReceivers) \in FromServer
          /\ ShutdownMessage(ShutdownReceivers).type # "pin"
      BY FactoryAssumption
         DEF ShutdownMessage, ShutdownReceivers, FromServer, Kinds, Workers, Numbers
    <2>2. QED
      BY <1>2, <2>1, SendSteps DEF SendShutdownSignalToAll, setting, handler, clients, pins
  <1>3. QED
    BY <1>1, <1>2 DEF Main

\* ... the logger sends logs only ...
LEMMA LoggerOnTheWay == ASSUME TypeOK, TypeOK', OnTheWay, Logger PROVE OnTheWay'
  <1>1. CASE TestLogger \/ DequeueLog \/ CancelLogger \/ StopLogger
    <2>1. /\ UNCHANGED <<inbox, toServer, pc, hold, passed, sharpened, checked, mark, told, msg>>
          /\ faults' = faults
      BY <1>1 DEF TestLogger, DequeueLog, CancelLogger, StopLogger, setting, handler, clients, pins
    <2>2. QED
      BY <2>1, QuietSteps DEF TypeOK
  <1>2. CASE SendServerLog
    <2>1. LogMessage \in FromServer /\ LogMessage.type # "pin"
      BY FactoryAssumption DEF LogMessage, FromServer, Kinds, Numbers
    <2>2. QED
      BY <1>2, <2>1, SendSteps DEF SendServerLog, setting, handler, clients, pins
  <1>3. QED
    BY <1>1, <1>2 DEF Logger

\* ... the poller hands on what it has received ...
LEMMA PollerOnTheWay ==
    ASSUME TypeOK, TypeOK', OnTheWay, TodoRight, Poller PROVE OnTheWay'
  <1>1. CASE TestPoller \/ HandleLog \/ CancelPoller \/ StopPoller
    <2>1. /\ UNCHANGED <<inbox, toServer, pc, hold, passed, sharpened, checked, mark, told, msg>>
          /\ faults' = faults
      BY <1>1 DEF TestPoller, HandleLog, CancelPoller, StopPoller, setting, handler, clients, pins
    <2>2. QED
      BY <2>1, QuietSteps DEF TypeOK
  <1>2. CASE Receive
    <2>1. UNCHANGED <<inbox, pc, hold, passed, sharpened, checked, mark, told>>
      BY <1>2 DEF Receive, setting, clients, pins
    <2>2. CASE toServer # <<>> /\ toServer' = Tail(toServer) /\ msg' = Head(toServer)
               /\ UNCHANGED faults
      <3>1. toServer \in Seq(FromClients)
        BY DEF TypeOK
      <3>2. /\ Head(toServer) = toServer[1] /\ 1 \in DOMAIN toServer
            /\ \A i \in DOMAIN toServer' :
                  i + 1 \in DOMAIN toServer /\ toServer'[i] = toServer[i + 1]
        BY <2>2, <3>1, TailIsSuffix
      <3>3. PinHandled'
        BY <2>1, <2>2, <3>2 DEF OnTheWay, PinsAsked, PinHandled, Ready
      <3>4. PinsAsked'
        BY <2>1, <3>2 DEF OnTheWay, PinsAsked, Ready
      <3>5. StagesInOrder' /\ OnlyTheToldEnd'
        BY <2>1, <2>2 DEF OnTheWay, StagesInOrder, OnlyTheToldEnd
      <3>6. PinsSent' /\ PinsHeld' /\ Roles' /\ ShutdownsSent'
        BY <2>1 DEF OnTheWay, PinsSent, PinsHeld, Ready, Roles, ShutdownsSent, ForMe
      <3>7. QED
        BY <3>3, <3>4, <3>5, <3>6 DEF OnTheWay
    <2>3. CASE Fault(1) /\ UNCHANGED <<msg, todo, good, toServer>>
      BY <2>1, <2>3, QuietSteps, FaultTypes DEF TypeOK
    <2>4. QED
      BY <1>2, <2>2, <2>3 DEF Receive
  <1>3. CASE HandleSend
    <2>1. Head(todo) \in {"transfer", "execute", "result"} /\ poller = "handle" /\ todo # <<>>
          /\ Head(todo) = todo[1] /\ 1 \in DOMAIN todo
      BY <1>3, TailIsSuffix DEF HandleSend, TypeOK
    <2>2. UNCHANGED <<toServer, pc, hold, passed, sharpened, checked, mark, msg>>
      BY <1>3 DEF HandleSend, setting, clients, pins
    <2>3. CASE Head(todo) = "transfer"
      <3>1. Broadcast(PinMessage(NextStage(msg.from), msg.of)) \/ SendFails
        BY <1>3, <2>3 DEF HandleSend
      <3>2. PinMessage(NextStage(msg.from), msg.of) \in FromServer
        BY <2>1, <2>3, SentTypes
      <3>3. msg.type = "pin" /\ msg.of \in Ready(msg.from)
        BY <2>1, <2>3 DEF TodoRight, OnTheWay, PinHandled
      <3>4. ASSUME NEW c \in Clients, ForMe(c, PinMessage(NextStage(msg.from), msg.of))
            PROVE  msg.of \in IF Kind(c) = "second" THEN passed ELSE sharpened
        <4>1. Kind(c) = NextStage(msg.from)
          BY <3>4 DEF ForMe, PinMessage
        <4>2. QED
          BY <3>3, <4>1 DEF NextStage, Ready
      <3>5. PinMessage(NextStage(msg.from), msg.of).of = msg.of
        BY DEF PinMessage
      <3>6. QED
        BY <2>2, <3>1, <3>2, <3>4, <3>5, SendSteps
    <2>4. CASE Head(todo) = "execute"
      <3>1. /\ Broadcast(ShutdownMessage({msg.to})) \/ SendFails
            /\ ShutdownMessage({msg.to}) \in FromServer /\ ShutdownMessage({msg.to}).type # "pin"
        BY <1>3, <2>1, <2>4, SentTypes DEF HandleSend, ShutdownMessage
      <3>2. QED
        BY <2>2, <3>1, SendSteps
    <2>5. CASE Head(todo) = "result"
      <3>1. /\ Broadcast(ResultMessage(msg.of)) \/ SendFails
            /\ ResultMessage(msg.of) \in FromServer /\ ResultMessage(msg.of).type # "pin"
        BY <1>3, <2>1, <2>5, SentTypes DEF HandleSend, ResultMessage
      <3>2. QED
        BY <2>2, <3>1, SendSteps
    <2>6. QED
      BY <2>1, <2>3, <2>4, <2>5
  <1>4. QED
    BY <1>1, <1>2, <1>3 DEF Poller

\* ... what a client sends is ready for the next stage ...
LEMMA PinsAskedStay ==
    ASSUME TypeOK, PinsAsked, NEW m \in FromClients, SendToServer(m),
           m.type = "pin" => m.of \in Ready(m.from), UNCHANGED <<passed, sharpened>>
    PROVE  PinsAsked'
  <1>1. toServer \in Seq(FromClients) /\ toServer' \in {toServer, Append(toServer, m)}
    BY ServerHears DEF TypeOK
  <1>2. ASSUME NEW i \in DOMAIN toServer', toServer'[i].type = "pin"
        PROVE  toServer'[i].of \in Ready(toServer'[i].from)
    <2>1. toServer'[i] = m \/ (i \in DOMAIN toServer /\ toServer'[i] = toServer[i])
      BY <1>1, AppendElements
    <2>2. QED
      BY <1>2, <2>1 DEF PinsAsked
  <1>3. QED
    BY <1>2 DEF PinsAsked, Ready

\* More pins have passed a stage.
LEMMA PinsGrow ==
    ASSUME PinsAsked, PinHandled, UNCHANGED <<toServer, msg>>,
           passed \subseteq passed', sharpened \subseteq sharpened'
    PROVE  PinsAsked' /\ PinHandled'
  <1>1. \A kind : Ready(kind) \subseteq Ready(kind)'
    BY DEF Ready
  <1>2. QED
    BY <1>1 DEF PinsAsked, PinHandled

\* ... and what it makes of a pin, or of a shutdown, is right.
LEMMA ClientOnTheWay ==
    ASSUME TypeOK, TypeOK', OnTheWay, NEW c \in Clients,
           Start(c) \/ Client(c) \/ UserExits(c) \/ UserCommands(c)
    PROVE  OnTheWay'
  <1>0. UNCHANGED <<mark, msg, told>>
    BY DEF Start, Client, ClientShouldStop, CheckPin, SendPin, ReceiveData, UserExits,
       UserCommands, setting, handler
  <1>1. \A d \in Clients : d # c => pc'[d] = pc[d] /\ hold'[d] = hold[d]
    BY DEF Start, Client, ClientShouldStop, CheckPin, SendPin, ReceiveData, SharpenPin,
       CheckQuality, PrintServerLog, HandleServerResponse, UserExits, UserCommands, Goto, TypeOK
  \* A client that sends, or only waits.
  <1>2. ASSUME UNCHANGED <<inbox, hold, passed, sharpened, checked>>,
               faults =< faults', PinsAsked',
               pc'[c] \in {"loop", "receive", "left", "failed"},
               pc'[c] = "failed" => faults' > 0
        PROVE  OnTheWay'
    <2>1. StagesInOrder' /\ PinHandled' /\ PinsSent' /\ ShutdownsSent'
      BY <1>0, <1>2 DEF OnTheWay, StagesInOrder, PinHandled, PinsSent, ShutdownsSent, Ready, ForMe
    <2>2. faults' = 0 => faults = 0 /\ pc'[c] # "failed"
      BY <1>2 DEF TypeOK
    <2>3. OnlyTheToldEnd'
      BY <1>0, <1>1, <1>2, <2>2 DEF OnTheWay, OnlyTheToldEnd
    <2>4. PinsHeld' /\ Roles'
      BY <1>1, <1>2 DEF OnTheWay, PinsHeld, Roles, Ready
    <2>5. QED
      BY <1>2, <2>1, <2>3, <2>4 DEF OnTheWay
  <1>3. CASE Start(c)
    <2>1. /\ UNCHANGED <<inbox, hold, passed, sharpened, checked>>
          /\ \/ pc'[c] = "loop" /\ SendToServer(Message(c, "new", 0))
             \/ pc'[c] = "failed" /\ Fault(1) /\ UNCHANGED toServer
      BY <1>3 DEF Start, Goto, TypeOK, pins
    <2>2. CASE pc'[c] = "loop" /\ SendToServer(Message(c, "new", 0))
      <3>1. Message(c, "new", 0) \in FromClients /\ Message(c, "new", 0).type # "pin"
        BY MessageTypes DEF Message
      <3>2. PinsAsked' /\ faults =< faults'
        BY <2>1, <2>2, <3>1, PinsAskedStay, ServerHears DEF OnTheWay
      <3>3. QED
        BY <1>2, <2>1, <2>2, <3>2
    <2>3. CASE pc'[c] = "failed" /\ Fault(1) /\ UNCHANGED toServer
      <3>1. PinsAsked' /\ faults =< faults' /\ faults' > 0
        BY <2>1, <2>3, FaultTypes DEF OnTheWay, PinsAsked, Ready, TypeOK
      <3>2. QED
        BY <1>2, <2>1, <2>3, <3>1
    <2>4. QED
      BY <2>1, <2>2, <2>3
  <1>4. CASE SendPin(c)
    <2>1. /\ UNCHANGED <<inbox, hold, passed, sharpened, checked>> /\ pc[c] = "send"
          /\ \/ pc'[c] = "loop" /\ SendToServer(Message(c, "pin", hold[c]))
             \/ pc'[c] = "failed" /\ Fault(1) /\ UNCHANGED toServer
      BY <1>4 DEF SendPin, Goto, TypeOK, pins
    <2>2. CASE pc'[c] = "loop" /\ SendToServer(Message(c, "pin", hold[c]))
      <3>1. /\ Message(c, "pin", hold[c]) \in FromClients
            /\ Message(c, "pin", hold[c]).of \in Ready(Message(c, "pin", hold[c]).from)
        BY <2>1, MessageTypes DEF Message, OnTheWay, PinsHeld
      <3>2. PinsAsked' /\ faults =< faults'
        BY <2>1, <2>2, <3>1, PinsAskedStay, ServerHears DEF OnTheWay
      <3>3. QED
        BY <1>2, <2>1, <2>2, <3>2
    <2>3. CASE pc'[c] = "failed" /\ Fault(1) /\ UNCHANGED toServer
      <3>1. PinsAsked' /\ faults =< faults' /\ faults' > 0
        BY <2>1, <2>3, FaultTypes DEF OnTheWay, PinsAsked, Ready, TypeOK
      <3>2. QED
        BY <1>2, <2>1, <2>3, <3>1
    <2>4. QED
      BY <2>1, <2>2, <2>3
  <1>5. CASE UserExits(c)
    <2>1. /\ UNCHANGED <<inbox, hold, passed, sharpened, checked, toServer, faults>>
          /\ pc'[c] = "left"
      BY <1>5 DEF UserExits, Goto, TypeOK, pins
    <2>2. PinsAsked'
      BY <2>1 DEF OnTheWay, PinsAsked, Ready
    <2>3. QED
      BY <1>2, <2>1, <2>2 DEF TypeOK
  <1>6. CASE UserCommands(c)
    <2>1. /\ UNCHANGED <<inbox, passed, sharpened, checked>> /\ pc[c] = "menu"
          /\ pc'[c] \in {"receive", "failed"}
      BY <1>6 DEF UserCommands, Goto, TypeOK, pins
    <2>2. PinsAsked' /\ faults =< faults' /\ (pc'[c] = "failed" => faults' > 0)
      <3>1. CASE pc'[c] = "receive" /\ \E kind \in Asked :
                    SendToServer([Message(c, "command", commands') EXCEPT !.to = kind])
        <4>1. PICK kind \in Asked :
                      SendToServer([Message(c, "command", commands') EXCEPT !.to = kind])
          BY <3>1
        <4>2. commands' \in Numbers /\ Kind(c) = "manager" /\ kind \in Kinds
          BY <2>1, FactoryAssumption DEF OnTheWay, Roles, TypeOK, Numbers
        <4>3. /\ [Message(c, "command", commands') EXCEPT !.to = kind] \in FromClients
              /\ [Message(c, "command", commands') EXCEPT !.to = kind].type # "pin"
          BY <4>2, MessageTypes DEF Message
        <4>4. QED
          BY <2>1, <3>1, <4>1, <4>3, PinsAskedStay, ServerHears DEF OnTheWay
      <3>2. CASE Fault(1) /\ UNCHANGED toServer
        BY <2>1, <3>2, FaultTypes DEF OnTheWay, PinsAsked, Ready, TypeOK
      <3>3. QED
        BY <1>6, <3>1, <3>2 DEF UserCommands, Goto, TypeOK
    <2>3. StagesInOrder' /\ PinHandled' /\ PinsSent' /\ ShutdownsSent'
      BY <1>0, <2>1 DEF OnTheWay, StagesInOrder, PinHandled, PinsSent, ShutdownsSent, Ready, ForMe
    <2>4. faults' = 0 => faults = 0 /\ pc'[c] # "failed"
      BY <2>2 DEF TypeOK
    <2>5. OnlyTheToldEnd' /\ PinsHeld' /\ Roles'
      BY <1>0, <1>1, <2>1, <2>4 DEF OnTheWay, OnlyTheToldEnd, PinsHeld, Roles, Ready
    <2>6. QED
      BY <2>2, <2>3, <2>5 DEF OnTheWay
  <1>7. CASE CheckPin(c)
    <2>1. /\ UNCHANGED <<inbox, toServer, faults, sharpened, checked>> /\ pc[c] = "check"
          /\ passed \subseteq passed'
          /\ \/ pc'[c] = "loop"
             \/ pc'[c] = "before send" /\ hold'[c] \in passed'
      BY <1>7 DEF CheckPin, Goto, TypeOK
    <2>2. PinsAsked' /\ PinHandled'
      BY <1>0, <2>1, PinsGrow DEF OnTheWay
    <2>3. StagesInOrder' /\ PinsSent' /\ ShutdownsSent' /\ OnlyTheToldEnd' /\ Roles'
      BY <1>0, <1>1, <2>1 DEF OnTheWay, StagesInOrder, PinsSent, ShutdownsSent, ForMe,
         OnlyTheToldEnd, Roles
    <2>4. Kind(c) = "first" /\ \A kind : Ready(kind) \subseteq Ready(kind)'
      BY <2>1 DEF OnTheWay, Roles, Ready
    <2>5. PinsHeld'
      BY <1>1, <2>1, <2>4 DEF OnTheWay, PinsHeld, Ready
    <2>6. QED
      BY <2>2, <2>3, <2>5 DEF OnTheWay
  \* The inboxes of c lose their first messages.
  <1>8. ASSUME Suffix(inbox[c], inbox'[c]), \A d \in Clients \ {c} : inbox'[d] = inbox[d],
               sharpened \subseteq sharpened', UNCHANGED passed
        PROVE  PinsSent' /\ ShutdownsSent'
    <2>1. \A i \in DOMAIN inbox'[c] : \E j \in DOMAIN inbox[c] : inbox'[c][i] = inbox[c][j]
      BY <1>8 DEF Suffix
    <2>2. ASSUME NEW d \in Clients, NEW i \in DOMAIN inbox'[d]
          PROVE  \E j \in DOMAIN inbox[d] : inbox'[d][i] = inbox[d][j]
      BY <1>8, <2>1
    <2>3. PinsSent'
      BY <1>8, <2>2 DEF OnTheWay, PinsSent
    <2>4. ShutdownsSent'
      BY <1>0, <2>2 DEF OnTheWay, ShutdownsSent, ForMe
    <2>5. QED
      BY <2>3, <2>4
  <1>9. CASE ClientShouldStop(c)
    <2>1. /\ UNCHANGED <<toServer, hold, passed, sharpened, checked, faults>>
          /\ inbox'[c] = Skipped(c) /\ \A d \in Clients \ {c} : inbox'[d] = inbox[d]
          /\ pc[c] \in {"loop", "before send"}
          /\ pc'[c] = IF Skipped(c) # <<>> /\ Head(Skipped(c)).type = "shutdown" THEN "ended"
                      ELSE IF pc[c] = "before send" THEN "send" ELSE Activity(c)
      BY <1>9 DEF ClientShouldStop, Goto, TypeOK, pins
    <2>2. PinsSent' /\ ShutdownsSent'
      BY <1>8, <2>1, SkippedIsSuffix
    <2>3. StagesInOrder' /\ PinsAsked' /\ PinHandled'
      BY <1>0, <2>1 DEF OnTheWay, StagesInOrder, PinsAsked, PinHandled, Ready
    <2>4. pc'[c] \in {"send", "ended"} \/ pc'[c] = Activity(c)
      BY <2>1
    <2>5. pc'[c] = "send" => pc[c] = "before send"
      BY <2>1 DEF Activity
    <2>6. PinsHeld'
      BY <1>1, <2>1, <2>4, <2>5 DEF OnTheWay, PinsHeld, Ready, Activity
    <2>7. Roles'
      BY <1>1, <2>4 DEF OnTheWay, Roles, Activity
    <2>8. OnlyTheToldEnd'
      <3>1. ASSUME pc'[c] = "ended" PROVE mark = "10" => Kind(c) \in told
        <4>1. Skipped(c) # <<>> /\ Head(Skipped(c)).type = "shutdown"
          BY <2>1, <3>1 DEF Activity
        <4>2. Skipped(c) \in Seq(FromServer) /\ Suffix(inbox[c], Skipped(c))
          BY SkippedIsSuffix
        <4>3. Head(Skipped(c)) = Skipped(c)[1] /\ 1 \in DOMAIN Skipped(c)
          BY <4>1, <4>2, TailIsSuffix
        <4>4. PICK j \in DOMAIN inbox[c] : Head(Skipped(c)) = inbox[c][j]
          BY <4>2, <4>3 DEF Suffix
        <4>5. QED
          BY <4>1, <4>4 DEF OnTheWay, ShutdownsSent, ForMe
      <3>2. pc'[c] # "failed"
        BY <2>4 DEF Activity
      <3>3. QED
        BY <1>0, <1>1, <2>1, <3>1, <3>2 DEF OnTheWay, OnlyTheToldEnd
    <2>9. QED
      BY <2>2, <2>3, <2>6, <2>7, <2>8 DEF OnTheWay
  <1>10. CASE ReceiveData(c)
    <2> DEFINE m == Head(inbox[c])
    <2>1. inbox[c] \in Seq(FromServer) /\ inbox[c] # <<>> /\ inbox'[c] = Tail(inbox[c])
          /\ \A d \in Clients \ {c} : inbox'[d] = inbox[d]
      BY <1>10 DEF ReceiveData, TypeOK
    <2>2. m = inbox[c][1] /\ 1 \in DOMAIN inbox[c] /\ Suffix(inbox[c], inbox'[c])
      BY <2>1, TailIsSuffix
    <2>3. m.type = "shutdown" => m.to \subseteq told /\ (mark = "10" => ForMe(c, m))
      BY <2>2 DEF OnTheWay, ShutdownsSent
    <2>4. m.type = "pin" => m.of \in IF Kind(c) = "second" THEN passed ELSE sharpened
      BY <2>2 DEF OnTheWay, PinsSent
    <2> HIDE DEF m
    <2>5. /\ UNCHANGED <<toServer, passed, faults>>
          /\ sharpened \subseteq sharpened' /\ checked \subseteq checked'
      BY <1>10 DEF ReceiveData, SharpenPin, CheckQuality, PrintServerLog, HandleServerResponse
    <2>6. \/ /\ pc'[c] = "failed" /\ TakesShutdown(c, m)
             /\ UNCHANGED <<hold, sharpened, checked>>
          \/ pc'[c] \in {"receive", "loop"} /\ UNCHANGED <<hold, sharpened, checked>>
          \/ /\ Kind(c) = "second" /\ m.type = "pin" /\ pc'[c] = "before send" /\ hold'[c] = m.of
             /\ sharpened' = sharpened \union {m.of} /\ UNCHANGED checked
          \/ /\ Kind(c) = "third" /\ m.type = "pin" /\ pc'[c] = "loop" /\ UNCHANGED sharpened
             /\ checked' = checked \union {m.of}
      BY <1>10 DEF ReceiveData, SharpenPin, CheckQuality, PrintServerLog, HandleServerResponse,
         Goto, TypeOK, m
    <2>7. PinsSent' /\ ShutdownsSent'
      BY <1>8, <2>1, <2>2, <2>5
    <2>8. PinsAsked' /\ PinHandled'
      BY <1>0, <2>5, PinsGrow DEF OnTheWay
    <2>9. StagesInOrder'
      BY <2>4, <2>5, <2>6 DEF OnTheWay, StagesInOrder
    <2>10. Roles'
      BY <1>1, <2>6 DEF OnTheWay, Roles
    <2>11. PinsHeld'
      <3>1. \A kind : Ready(kind) \subseteq Ready(kind)'
        BY <2>5 DEF Ready
      <3>2. pc'[c] \in {"before send", "send"} => hold'[c] \in Ready(Kind(c))'
        BY <2>6 DEF Ready
      <3>3. QED
        BY <1>1, <3>1, <3>2 DEF OnTheWay, PinsHeld
    <2>12. OnlyTheToldEnd'
      <3>1. pc'[c] \in {"ended", "failed"} => (mark = "10" => Kind(c) \in told)
        BY <2>3, <2>6 DEF TakesShutdown, ForMe
      <3>2. QED
        BY <1>0, <1>1, <2>5, <3>1 DEF OnTheWay, OnlyTheToldEnd
    <2>13. QED
      BY <2>7, <2>8, <2>9, <2>10, <2>11, <2>12 DEF OnTheWay
  <1>11. QED
    BY <1>3, <1>4, <1>5, <1>6, <1>7, <1>9, <1>10 DEF Client

-----------------------------------------------------------------------------
(* The steps of the handlers, and what stops a thread.                     *)

\* Only a pin is transferred, only a command is executed and answered, once.
LEMMA StepsRight ==
    ASSUME NEW m \in FromClients
    PROVE  /\ Steps(m) \in Seq({"log", "transfer", "execute", "result"})
           /\ \A i \in DOMAIN Steps(m) :
                 /\ Steps(m)[i] = "transfer" => m.type = "pin"
                 /\ Steps(m)[i] \in {"execute", "result"} => m.type = "command"
           /\ \A i, j \in DOMAIN Steps(m) :
                 Steps(m)[i] = "result" /\ Steps(m)[j] = "result" => i = j
  <1>1. m.type \in {"new", "pin", "command"}
    BY DEF FromClients
  <1>2. CASE m.type = "new"
    <2>1. Steps(m) = IF mark = "4" THEN <<>> ELSE <<"log">>
      BY <1>2, Zenon DEF Steps
    <2>2. QED
      BY <1>2, <2>1, StepsTypes
  <1>3. CASE m.type = "pin"
    <2>1. Steps(m) = IF mark = "4" THEN <<"transfer">> ELSE <<"log", "log", "transfer">>
      BY <1>3, Zenon DEF Steps
    <2>2. QED
      BY <1>3, <2>1, StepsTypes
  <1>4. CASE m.type = "command"
    <2>1. Steps(m) = <<"log", "execute", "log", "result", "log">>
      BY <1>4, Zenon DEF Steps
    <2>2. QED
      BY <1>4, <2>1, StepsTypes
  <1>5. QED
    BY <1>1, <1>2, <1>3, <1>4

\* The poller keeps to the steps of its message, and stops for a reason.
LEMMA PollerRight ==
    ASSUME TypeOK, TypeOK', TodoRight, StopReasons, Poller
    PROVE  TodoRight' /\ StopReasons'
  <1>0. faults =< faults' /\ (faults' = 0 => faults = 0) /\ faults' \in Nat
    <2>1. UNCHANGED faults \/ Fault(1) \/ \E m \in FromServer : Broadcast(m)
      <3>1. CASE HandleSend
        <4>1. Head(todo) \in {"transfer", "execute", "result"} /\ poller = "handle" /\ todo # <<>>
          BY <3>1, TailIsSuffix DEF HandleSend, TypeOK
        <4>2. QED
          BY <3>1, <4>1, SentTypes DEF HandleSend, SendFails
      <3>2. QED
        BY <3>1 DEF Poller, TestPoller, Receive, HandleLog, CancelPoller, StopPoller
    <2>2. QED
      BY <2>1, Heard, FaultTypes DEF TypeOK
  <1>1. poller # "off" /\ main' = main
    BY DEF Poller, TestPoller, Receive, HandleLog, HandleSend, CancelPoller, StopPoller,
       PollerGoto
  <1>2. CASE TestPoller
    BY <1>0, <1>2, <1>1 DEF TestPoller, PollerGoto, handler, TodoRight, StopReasons
  <1>3. CASE CancelPoller
    BY <1>0, <1>3, <1>1 DEF CancelPoller, PollerGoto, handler, TodoRight, StopReasons
  <1>4. CASE StopPoller
    BY <1>0, <1>4, <1>1 DEF StopPoller, StopAllThreads, handler, TodoRight, StopReasons
  <1>5. CASE Receive
    <2>1. UNCHANGED <<running, logger>> /\ poller = "receive"
      BY <1>5 DEF Receive, PollerGoto
    <2>2. CASE toServer # <<>> /\ msg' = Head(toServer) /\ todo' = Steps(Head(toServer))
               /\ good' = TRUE /\ poller' = AfterSteps(Steps(Head(toServer)), TRUE)
      <3>1. msg' \in FromClients
        BY <2>2, TailIsSuffix DEF TypeOK
      <3>2. poller' = IF todo' = <<>> THEN "test" ELSE "handle"
        BY <2>2 DEF AfterSteps
      <3>3. \A i \in DOMAIN todo' :
                 /\ todo'[i] = "transfer" => msg'.type = "pin"
                 /\ todo'[i] \in {"execute", "result"} => msg'.type = "command"
        BY <2>2, <3>1, StepsRight
      <3>4. TodoRight'
        BY <1>1, <3>1, <3>2, <3>3 DEF TodoRight
      <3>5. StopReasons'
        BY <1>0, <2>1, <2>2, <3>2 DEF StopReasons
      <3>6. QED
        BY <3>4, <3>5
    <2>3. CASE poller' = "stop" /\ Fault(1) /\ UNCHANGED <<msg, todo, good>>
      <3>1. faults' > 0
        BY <2>3, FaultTypes DEF TypeOK
      <3>2. StopReasons'
        BY <3>1 DEF StopReasons
      <3>3. TodoRight'
        BY <1>1, <2>3 DEF TodoRight
      <3>4. QED
        BY <3>2, <3>3
    <2>4. QED
      BY <1>5, <2>2, <2>3 DEF Receive, PollerGoto
  <1>6. CASE HandleLog \/ HandleSend
    <2>1. /\ UNCHANGED <<running, logger, msg>> /\ poller = "handle" /\ todo # <<>>
          /\ todo' = Tail(todo) /\ poller' = AfterSteps(todo', good')
      BY <1>6, Zenon DEF HandleLog, HandleSend, PollerGoto
    <2>2. \A i \in DOMAIN todo' : i + 1 \in DOMAIN todo /\ todo'[i] = todo[i + 1]
      BY <2>1, TailIsSuffix DEF TypeOK
    <2>3. TodoRight'
      <3>1. poller' \in {"off", "test", "receive"} => todo' = <<>>
        BY <2>1, Zenon DEF AfterSteps
      <3>2. QED
        BY <1>1, <2>1, <2>2, <3>1 DEF TodoRight
    <2>4. StopReasons'
      <3>1. msg \in FromClients
        BY <2>1 DEF TodoRight
      <3>2. msg.type \in {"new", "pin", "command"}
        BY <3>1 DEF FromClients
      <3>3. faults' = 0 /\ ~good' => msg.type \in {"new", "command"}
        <4>1. CASE HandleLog
          <5>1. ~good' => ~good \/ msg.type # "pin"
            BY <4>1, Zenon DEF HandleLog, NeedsLog
          <5>2. QED
            BY <1>0, <3>2, <5>1 DEF StopReasons
        <4>2. CASE HandleSend
          <5>1. good' = good \/ SendFails
            BY <4>2 DEF HandleSend
          <5>2. QED
            BY <1>0, <5>1, Unheard DEF StopReasons
        <4>3. QED
          BY <1>6, <4>1, <4>2
      <3>4. poller' = "stop" => ~good'
        BY <2>1, Zenon DEF AfterSteps
      <3>5. QED
        BY <1>0, <2>1, <3>3, <3>4 DEF StopReasons
    <2>5. QED
      BY <2>3, <2>4
  <1>7. QED
    BY <1>2, <1>3, <1>4, <1>5, <1>6 DEF Poller

\* main, the signal handler and the logger leave the poller's message alone.
LEMMA ThreadsRight ==
    ASSUME TypeOK, TypeOK', TodoRight, StopReasons, Main \/ CtrlC \/ Logger
    PROVE  TodoRight' /\ StopReasons'
  <1>0. faults =< faults' /\ (faults' = 0 => faults = 0) /\ faults' \in Nat
    <2>1. UNCHANGED faults \/ Fault(1) \/ \E m \in FromServer : Broadcast(m)
      <3>1. ShutdownMessage(ShutdownReceivers) \in FromServer /\ LogMessage \in FromServer
        BY FactoryAssumption
           DEF ShutdownMessage, ShutdownReceivers, LogMessage, FromServer, Kinds, Workers, Numbers
      <3>2. QED
        BY <3>1 DEF Main, CreatePoller, RecordPoller, CreateLogger, RecordLogger, Join, CtrlC,
           SendShutdownSignalToAll, Logger, TestLogger, DequeueLog, SendServerLog, CancelLogger,
           StopLogger, SendFails
    <2>2. QED
      BY <2>1, Heard, FaultTypes DEF TypeOK
  <1>1. UNCHANGED <<msg, todo, good>>
    BY DEF Main, CreatePoller, RecordPoller, CreateLogger, RecordLogger, Join, CtrlC,
       SendShutdownSignalToAll, Logger, TestLogger, DequeueLog, SendServerLog, CancelLogger,
       StopLogger, handler
  <1>2. /\ \/ poller' = poller /\ (main' = "create poller" => main = "create poller")
           \/ poller' = "test" /\ todo = <<>> /\ main' # "create poller"
        /\ running' = running \/ ~running'
    <2>1. CASE CreatePoller
      BY <2>1 DEF CreatePoller, StopAllThreads, TodoRight
    <2>2. QED
      BY <2>1 DEF Main, RecordPoller, CreateLogger, RecordLogger, Join, CtrlC, StopAllThreads,
         SendShutdownSignalToAll, Logger, TestLogger, DequeueLog, SendServerLog, CancelLogger,
         StopLogger, LoggerGoto
  <1>3. faults' = 0 /\ logger' = "stop" => ~running' \/ (logger = "stop" /\ running' = running)
    <2>1. CASE SendServerLog
      <3>1. logger' = "stop" => SendFails
        BY <2>1 DEF SendServerLog, LoggerGoto
      <3>2. QED
        BY <3>1, Unheard
    <2>2. CASE CreateLogger
      BY <2>2 DEF CreateLogger, StopAllThreads
    <2>3. QED
      BY <2>1, <2>2 DEF Main, CreatePoller, RecordPoller, RecordLogger, Join, CtrlC, StopAllThreads,
         SendShutdownSignalToAll, Logger, TestLogger, DequeueLog, CancelLogger, StopLogger, LoggerGoto
  <1>4. TodoRight'
    BY <1>1, <1>2 DEF TodoRight
  <1>5. StopReasons'
    BY <1>0, <1>1, <1>2, <1>3 DEF StopReasons
  <1>6. QED
    BY <1>4, <1>5

\* Clients change nothing in the threads of the server.
LEMMA ClientsLeaveThreads ==
    ASSUME TypeOK, TypeOK', TodoRight, StopReasons, NEW c \in Clients,
           Start(c) \/ Client(c) \/ UserExits(c) \/ UserCommands(c)
    PROVE  TodoRight' /\ StopReasons'
  <1>1. UNCHANGED <<threads, handler>>
    BY DEF Start, Client, ClientShouldStop, CheckPin, SendPin, ReceiveData, UserExits, UserCommands
  <1>2. faults' = 0 => faults = 0
    <2>1. UNCHANGED faults \/ Fault(1) \/ \E m \in FromClients : SendToServer(m)
      <3>1. CASE UserCommands(c)
        <4>1. faults' = faults \/ Fault(1)
          BY <3>1 DEF UserCommands, SendToServer
        <4>2. QED
          BY <4>1
      <3>2. QED
        BY <3>1, MessageTypes DEF Start, Client, ClientShouldStop, CheckPin, SendPin, ReceiveData,
           UserExits
    <2>2. QED
      BY <2>1, ServerHears, FaultTypes DEF TypeOK
  <1>3. QED
    BY <1>1, <1>2 DEF threads, handler, TodoRight, StopReasons

-----------------------------------------------------------------------------
(* The invariant and the theorems.                                         *)

\* The invariant holds at the start.
LEMMA FactoryInit == Init => FactoryInv
  <1> SUFFICES ASSUME Init PROVE FactoryInv
    OBVIOUS
  <1>0. main = "create poller"
    BY DEF Init
  <1>1. toServer = <<>> /\ todo = <<>> /\ msg = NoMessage
    BY DEF Init
  <1>2. \A c \in Clients : inbox[c] = <<>> /\ pc[c] \in {"off", "absent"}
    BY DEF Init
  <1>3. checked = {} /\ sharpened = {} /\ good = TRUE /\ poller = "off" /\ logger = "off"
    BY DEF Init
  <1>4. PinsAsked /\ PinHandled /\ PinsSent /\ PinsHeld
    <2>1. PinsAsked
      BY <1>1 DEF PinsAsked
    <2>2. PinHandled
      BY <1>1 DEF PinHandled, NoMessage
    <2>3. PinsSent /\ PinsHeld
      <3>1. \A c \in Clients : DOMAIN inbox[c] = {}
        BY <1>2
      <3>2. PinsSent
        BY <3>1 DEF PinsSent
      <3>3. PinsHeld
        BY <1>2 DEF PinsHeld
      <3>4. QED
        BY <3>2, <3>3
    <2>4. QED
      BY <2>1, <2>2, <2>3
  <1>5. Roles /\ ShutdownsSent /\ StagesInOrder /\ OnlyTheToldEnd
    <2>1. Roles /\ OnlyTheToldEnd
      BY <1>2 DEF Roles, OnlyTheToldEnd
    <2>2. ShutdownsSent
      <3>1. \A c \in Clients : DOMAIN inbox[c] = {}
        BY <1>2
      <3>2. QED
        BY <3>1 DEF ShutdownsSent
    <2>3. StagesInOrder
      BY <1>3 DEF StagesInOrder
    <2>4. QED
      BY <2>1, <2>2, <2>3
  <1>6. TodoRight /\ StopReasons
    <2>1. DOMAIN todo = {}
      BY <1>1
    <2>2. TodoRight
      BY <1>0, <1>1, <1>3, <2>1 DEF TodoRight
    <2>3. StopReasons
      BY <1>3 DEF StopReasons
    <2>4. QED
      BY <2>2, <2>3
  <1>7. QED
    BY <1>4, <1>5, <1>6, InitTypes DEF FactoryInv, OnTheWay

\* Every step keeps the invariant.
LEMMA FactoryStep == FactoryInv /\ [Next]_vars => FactoryInv'
  <1> SUFFICES ASSUME FactoryInv, [Next]_vars PROVE FactoryInv'
    OBVIOUS
  <1>1. TypeOK' /\ TypeOK /\ OnTheWay /\ TodoRight /\ StopReasons
    BY TypesStep DEF FactoryInv
  <1>2. CASE Main \/ CtrlC
    BY <1>1, <1>2, MainOnTheWay, ThreadsRight DEF FactoryInv
  <1>3. CASE Poller
    BY <1>1, <1>3, PollerOnTheWay, PollerRight DEF FactoryInv
  <1>4. CASE Logger
    BY <1>1, <1>4, LoggerOnTheWay, ThreadsRight DEF FactoryInv
  <1>5. ASSUME NEW c \in Clients, Start(c) \/ Client(c) \/ UserExits(c) \/ UserCommands(c)
        PROVE  FactoryInv'
    BY <1>1, <1>5, ClientOnTheWay, ClientsLeaveThreads DEF FactoryInv
  <1>6. CASE UNCHANGED vars
    <2>1. /\ UNCHANGED <<inbox, toServer, pc, hold, passed, sharpened, checked, mark, told, msg>>
          /\ UNCHANGED <<faults, main, poller, logger, todo, good, running>>
      BY <1>6 DEF vars, setting, threads, handler, clients, pins
    <2>2. OnTheWay'
      BY <1>1, <2>1, QuietSteps DEF TypeOK
    <2>3. TodoRight' /\ StopReasons'
      BY <1>1, <2>1 DEF TodoRight, StopReasons
    <2>4. QED
      BY <1>1, <2>2, <2>3 DEF FactoryInv
  <1>7. QED
    BY <1>2, <1>3, <1>4, <1>5, <1>6 DEF Next

\* The invariant holds in every state.
LEMMA FactoryInvariant == Spec => []FactoryInv
  BY FactoryInit, FactoryStep, PTL DEF Spec

\* The queue of logs keeps to its size and messages to their formats, whoever takes
\* part and whatever is lost (server_logs_queue_nonblocking_enqueue, receive_data).
THEOREM TypeCorrect == Spec => []TypeOK
  <1>1. FactoryInv => TypeOK
    BY DEF FactoryInv
  <1>2. QED
    BY <1>1, FactoryInvariant, PTL

\* With any number of workers of a stage, so that pins are doubled, and with any losses, a
\* stage works on pins of the stage before; a client of mark 10 ends only when its kind was
\* told to or a call failed (server_handle_pin_transferring, receive_data).
THEOREM MessagesRight == Spec => []MessagesAreRight
  <1>1. FactoryInv => MessagesAreRight
    BY DEF FactoryInv, OnTheWay, MessagesAreRight
  <1>2. QED
    BY <1>1, FactoryInvariant, PTL

\* Who makes running false.
LEMMA WhoStops ==
    ASSUME FactoryInv, FactoryInv', Next, running, ~running'
    PROVE  \/ ctrlC' = "done" \/ faults' > 0
           \/ poller = "stop" /\ msg.type \in {"new", "command"}
  <1>1. TypeOK /\ TypeOK' /\ StopReasons /\ faults' \in Nat
    BY DEF FactoryInv, TypeOK
  <1>2. CASE Main \/ CtrlC
    <2>1. CtrlC \/ Fault(1)
      BY <1>2 DEF Main, CreatePoller, RecordPoller, CreateLogger, RecordLogger, Join,
         SendShutdownSignalToAll
    <2>2. CASE CtrlC
      BY <2>2 DEF CtrlC
    <2>3. CASE Fault(1)
      BY <1>1, <2>3, FaultTypes DEF TypeOK
    <2>4. QED
      BY <2>1, <2>2, <2>3
  <1>3. CASE Poller
    <2>1. StopPoller
      BY <1>3 DEF Poller, TestPoller, Receive, HandleLog, HandleSend, CancelPoller, PollerGoto
    <2>2. poller = "stop" /\ UNCHANGED faults
      BY <2>1 DEF StopPoller
    <2>3. QED
      BY <1>1, <2>2 DEF StopReasons
  <1>4. CASE Logger
    <2>1. StopLogger
      BY <1>4 DEF Logger, TestLogger, DequeueLog, SendServerLog, CancelLogger, LoggerGoto
    <2>2. logger = "stop" /\ UNCHANGED faults
      BY <2>1 DEF StopLogger
    <2>3. QED
      BY <1>1, <2>2 DEF StopReasons
  <1>5. ASSUME NEW c \in Clients, Start(c) \/ Client(c) \/ UserExits(c) \/ UserCommands(c)
        PROVE  FALSE
    BY <1>5 DEF Start, Client, ClientShouldStop, CheckPin, SendPin, ReceiveData, UserExits,
       UserCommands, threads
  <1>6. QED
    BY <1>2, <1>3, <1>4, <1>5 DEF Next

\* For any size of the queue of logs: a log of a pin that does not fit never stops the
\* server (handle_log, server_handle_pin_transferring).
THEOREM FullQueueIsSurvived == Spec => PinsSurviveFullQueue
  <1>1. FactoryInv /\ FactoryInv' /\ [Next]_vars =>
            [running /\ ~running' =>
                \/ ctrlC' = "done" \/ faults' > 0
                \/ poller = "stop" /\ msg.type \in {"new", "command"}]_vars
    BY WhoStops
  <1>2. QED
    BY <1>1, FactoryInvariant, PTL DEF Spec, PinsSurviveFullQueue

-----------------------------------------------------------------------------
(* The command of a manager that is alone.                                 *)

\* A sequence with one more message, which is of another type or the only one ...
LEMMA AppendOf ==
    ASSUME NEW S, NEW s \in Seq(S), NEW e \in S, NEW ty, NEW n
    PROVE  /\ e.type # ty =>
                 /\ NoneOf(s, ty) => NoneOf(Append(s, e), ty)
                 /\ OnceOf(s, ty) => OnceOf(Append(s, e), ty)
                 /\ AllOf(s, ty, n) => AllOf(Append(s, e), ty, n)
           /\ e.type = ty /\ e.of = n /\ NoneOf(s, ty) =>
                 OnceOf(Append(s, e), ty) /\ AllOf(Append(s, e), ty, n)
  BY AppendElements DEF NoneOf, OnceOf, AllOf

\* ... what is left of a sequence ...
LEMMA SuffixOf ==
    ASSUME NEW s, NEW t, Suffix(s, t), DOMAIN t \subseteq Nat, NEW ty, NEW n
    PROVE  /\ NoneOf(s, ty) => NoneOf(t, ty)
           /\ OnceOf(s, ty) => OnceOf(t, ty)
           /\ AllOf(s, ty, n) => AllOf(t, ty, n)
  <1>1. PICK k \in Nat : \A i \in DOMAIN t : i + k \in DOMAIN s /\ t[i] = s[i + k]
    BY DEF Suffix
  <1>2. NoneOf(s, ty) => NoneOf(t, ty)
    BY <1>1 DEF NoneOf
  <1>3. AllOf(s, ty, n) => AllOf(t, ty, n)
    BY <1>1 DEF AllOf
  <1>4. ASSUME OnceOf(s, ty), NEW i \in DOMAIN t, NEW j \in DOMAIN t, t[i].type = ty, t[j].type = ty
        PROVE  i = j
    <2>1. i + k = j + k
      BY <1>1, <1>4 DEF OnceOf
    <2>2. i \in Nat /\ j \in Nat
      OBVIOUS
    <2>3. QED
      BY <2>1, <2>2
  <1>5. QED
    BY <1>2, <1>3, <1>4 DEF OnceOf

\* ... and a sequence without its first message.
LEMMA TailOf ==
    ASSUME NEW S, NEW s \in Seq(S), s # <<>>, NEW ty, NEW n
    PROVE  /\ NoneOf(s, ty) => NoneOf(Tail(s), ty)
           /\ OnceOf(s, ty) => OnceOf(Tail(s), ty)
           /\ AllOf(s, ty, n) => AllOf(Tail(s), ty, n)
           /\ OnceOf(s, ty) /\ Head(s).type = ty => NoneOf(Tail(s), ty)
  <1>1. Suffix(s, Tail(s)) /\ DOMAIN Tail(s) \subseteq Nat
    BY TailIsSuffix
  <1>2. /\ Head(s) = s[1] /\ 1 \in DOMAIN s /\ DOMAIN Tail(s) \subseteq Nat \ {0}
        /\ \A i \in DOMAIN Tail(s) : i + 1 \in DOMAIN s /\ Tail(s)[i] = s[i + 1]
    BY TailIsSuffix
  <1>3. ASSUME OnceOf(s, ty), Head(s).type = ty PROVE NoneOf(Tail(s), ty)
    <2>1. ASSUME NEW i \in DOMAIN Tail(s), Tail(s)[i].type = ty PROVE FALSE
      <3>1. i + 1 = 1
        BY <1>2, <1>3, <2>1 DEF OnceOf
      <3>2. QED
        BY <1>2, <3>1
    <2>2. QED
      BY <2>1 DEF NoneOf
  <1>4. QED
    BY <1>1, <1>3, SuffixOf

\* A client that does not take part never does.
LEMMA AbsentStays ==
    ASSUME TypeOK, [Next]_vars, NEW d \in Clients
    PROVE  pc'[d] = "absent" => pc[d] = "absent"
  <1>1. CASE UNCHANGED pc
    BY <1>1
  <1>2. ASSUME NEW c \in Clients, Start(c) \/ Client(c) \/ UserExits(c) \/ UserCommands(c)
        PROVE  \A e \in Clients : pc'[e] = pc[e] \/ pc'[e] # "absent"
    BY <1>2 DEF Start, Client, ClientShouldStop, CheckPin, SendPin, ReceiveData, SharpenPin,
       CheckQuality, PrintServerLog, HandleServerResponse, UserExits, UserCommands, Goto,
       Activity, TypeOK
  <1>3. CASE Main \/ CtrlC \/ Poller \/ Logger
    <2>1. UNCHANGED pc
      BY <1>3 DEF Main, CreatePoller, RecordPoller, CreateLogger, RecordLogger, Join, CtrlC,
         SendShutdownSignalToAll, Logger, TestLogger, DequeueLog, SendServerLog, CancelLogger,
         StopLogger, Poller, TestPoller, Receive, HandleLog, HandleSend, CancelPoller, StopPoller,
         clients
    <2>2. QED
      BY <2>1
  <1>4. QED
    BY <1>1, <1>2, <1>3 DEF Next, vars, clients

\* What is broadcast that is no result leaves the command where it is.
LEMMA OthersHeard ==
    ASSUME TypeOK, NEW c \in Managers, OneCommand(c), NEW m \in FromServer, m.type # "result",
           Broadcast(m) \/ SendFails
    PROVE  /\ NoneOf(inbox[c], "result") => NoneOf(inbox'[c], "result")
           /\ OnceOf(inbox'[c], "result") /\ AllOf(inbox'[c], "result", hold[c])
  <1>1. c \in Clients /\ inbox[c] \in Seq(FromServer)
    BY DEF Clients, TypeOK
  <1>2. inbox'[c] = inbox[c] \/ inbox'[c] = Append(inbox[c], m)
    BY <1>1, Heard, Unheard
  <1>3. QED
    BY <1>1, <1>2, AppendOf DEF OneCommand

\* main, the signal handler and the logger send no results.
LEMMA ThreadsInFlight ==
    ASSUME FactoryInv, NEW c \in Managers, OneCommand(c), Main \/ CtrlC \/ Logger
    PROVE  OneCommand(c)'
  <1>1. UNCHANGED <<toServer, todo, msg, pc, hold>>
    BY DEF Main, CreatePoller, RecordPoller, CreateLogger, RecordLogger, Join, CtrlC,
       SendShutdownSignalToAll, Logger, TestLogger, DequeueLog, SendServerLog, CancelLogger,
       StopLogger, handler, clients
  <1>2. UNCHANGED inbox \/ \E m \in FromServer : m.type # "result" /\ (Broadcast(m) \/ SendFails)
    <2>1. /\ ShutdownMessage(ShutdownReceivers) \in FromServer
          /\ ShutdownMessage(ShutdownReceivers).type # "result"
          /\ LogMessage \in FromServer /\ LogMessage.type # "result"
      BY FactoryAssumption
         DEF ShutdownMessage, ShutdownReceivers, LogMessage, FromServer, Kinds, Workers, Numbers
    <2>2. QED
      BY <2>1 DEF Main, CreatePoller, RecordPoller, CreateLogger, RecordLogger, Join, CtrlC,
         SendShutdownSignalToAll, Logger, TestLogger, DequeueLog, SendServerLog, CancelLogger,
         StopLogger
  <1>3. /\ NoneOf(inbox[c], "result") => NoneOf(inbox'[c], "result")
        /\ OnceOf(inbox'[c], "result") /\ AllOf(inbox'[c], "result", hold[c])
    BY <1>2, OthersHeard DEF FactoryInv, OneCommand
  <1>4. NoAnswer' = NoAnswer /\ OneAnswer' = OneAnswer
    BY <1>1 DEF NoAnswer, OneAnswer
  <1>5. QED
    BY <1>1, <1>3, <1>4 DEF OneCommand

\* The poller takes the command out of the socket and answers it once.
LEMMA PollerInFlight ==
    ASSUME FactoryInv, NEW c \in Managers, OneCommand(c), Poller
    PROVE  OneCommand(c)'
  <1>0. /\ TypeOK /\ TodoRight /\ c \in Clients
        /\ inbox[c] \in Seq(FromServer) /\ toServer \in Seq(FromClients)
        /\ todo \in Seq({"log", "transfer", "execute", "result"})
    BY DEF FactoryInv, Clients, TypeOK
  <1>1. UNCHANGED <<pc, hold>>
    BY DEF Poller, TestPoller, Receive, HandleLog, HandleSend, CancelPoller, StopPoller, clients
  <1>2. CASE UNCHANGED <<toServer, todo, msg, inbox>>
    <2>1. NoAnswer' = NoAnswer /\ OneAnswer' = OneAnswer
      BY <1>2 DEF NoAnswer, OneAnswer
    <2>2. QED
      BY <1>1, <1>2, <2>1 DEF OneCommand
  <1>3. CASE Receive /\ ~UNCHANGED <<toServer, todo, msg, inbox>>
    <2>1. /\ toServer # <<>> /\ toServer' = Tail(toServer) /\ UNCHANGED inbox
          /\ msg' = Head(toServer) /\ todo' = Steps(msg') /\ poller = "receive"
      BY <1>3 DEF Receive
    <2>2. NoAnswer
      <3>1. poller = "receive"
        BY <2>1
      <3>2. todo = <<>>
        BY <1>0, <3>1 DEF TodoRight
      <3>3. QED
        BY <3>2 DEF NoAnswer
    <2>3. msg' \in FromClients /\ msg' = toServer[1] /\ 1 \in DOMAIN toServer
      BY <1>0, <2>1, TailIsSuffix
    <2>4. OneAnswer' /\ (~NoAnswer' => msg'.type = "command")
      BY <2>1, <2>3, StepsRight DEF OneAnswer, NoAnswer
    <2>5. /\ NoneOf(toServer, "command") => NoneOf(toServer', "command")
          /\ OnceOf(toServer', "command") /\ AllOf(toServer', "command", hold[c])
          /\ msg'.type = "command" => NoneOf(toServer', "command")
      BY <1>0, <2>1, TailOf DEF OneCommand
    <2>6. msg'.type = "command" => msg'.of = hold[c] /\ ~NoneOf(toServer, "command")
      BY <2>3 DEF OneCommand, AllOf, NoneOf
    <2>7. QED
      BY <1>1, <2>1, <2>2, <2>4, <2>5, <2>6 DEF OneCommand
  <1>4. CASE HandleLog \/ HandleSend
    <2>1. /\ UNCHANGED <<toServer, msg>> /\ todo # <<>> /\ todo' = Tail(todo) /\ poller = "handle"
      BY <1>4, Zenon DEF HandleLog, HandleSend
    <2>2. /\ \A i \in DOMAIN todo' : i + 1 \in DOMAIN todo /\ todo'[i] = todo[i + 1]
          /\ DOMAIN todo' \subseteq Nat \ {0} /\ Head(todo) = todo[1] /\ 1 \in DOMAIN todo
      BY <1>0, <2>1, TailIsSuffix
    <2>3. /\ NoAnswer => NoAnswer' /\ Head(todo) # "result"
          /\ OneAnswer' /\ (Head(todo) = "result" => NoAnswer')
      <3>1. NoAnswer => NoAnswer' /\ Head(todo) # "result"
        BY <2>2 DEF NoAnswer
      <3>2. ASSUME NEW i \in DOMAIN todo', NEW j \in DOMAIN todo',
                   todo'[i] = "result", todo'[j] = "result"
            PROVE  i = j
        <4>1. i + 1 = j + 1
          BY <2>2, <3>2 DEF OneCommand, OneAnswer
        <4>2. QED
          BY <2>2, <4>1
      <3>3. ASSUME Head(todo) = "result", NEW i \in DOMAIN todo', todo'[i] = "result"
            PROVE  FALSE
        <4>1. i + 1 = 1
          BY <2>2, <3>3 DEF OneCommand, OneAnswer
        <4>2. QED
          BY <2>2, <4>1
      <3>4. QED
        BY <3>1, <3>2, <3>3 DEF OneAnswer, NoAnswer
    <2>4. CASE UNCHANGED inbox
      BY <1>1, <2>1, <2>3, <2>4 DEF OneCommand
    <2>5. ASSUME NEW m \in FromServer, m.type # "result", Broadcast(m) \/ SendFails
          PROVE  OneCommand(c)'
      <3>1. /\ NoneOf(inbox[c], "result") => NoneOf(inbox'[c], "result")
            /\ OnceOf(inbox'[c], "result") /\ AllOf(inbox'[c], "result", hold[c])
        BY <1>0, <2>5, OthersHeard
      <3>2. QED
        BY <1>1, <2>1, <2>3, <3>1 DEF OneCommand
    <2>6. CASE Head(todo) = "result" /\ Broadcast(ResultMessage(msg.of))
      <3>1. ~NoAnswer
        BY <2>2, <2>6 DEF NoAnswer
      <3>2. /\ NoneOf(toServer, "command") /\ NoneOf(inbox[c], "result") /\ msg.of = hold[c]
            /\ pc[c] \in {"receive", "ended", "failed"}
        BY <3>1 DEF OneCommand
      <3>3. ResultMessage(msg.of) \in FromServer
        BY <1>0, <2>1, <2>6, SentTypes
      <3>4. inbox'[c] = inbox[c] \/ inbox'[c] = Append(inbox[c], ResultMessage(msg.of))
        BY <1>0, <2>6, <3>3, Heard
      <3>5. ResultMessage(msg.of).type = "result" /\ ResultMessage(msg.of).of = hold[c]
        BY <3>2 DEF ResultMessage
      <3>6. OnceOf(inbox'[c], "result") /\ AllOf(inbox'[c], "result", hold[c])
        BY <1>0, <3>2, <3>3, <3>4, <3>5, AppendOf DEF OneCommand
      <3>7. QED
        BY <1>1, <2>1, <2>3, <2>6, <3>2, <3>6 DEF OneCommand
    <2>7. QED
      <3>1. CASE HandleLog
        BY <2>4, <3>1 DEF HandleLog
      <3>2. CASE HandleSend
        <4>1. Head(todo) \in {"transfer", "execute", "result"}
          BY <1>0, <2>1, <2>2, <3>2 DEF HandleSend
        <4>2. CASE Head(todo) = "transfer"
          <5>1. /\ PinMessage(NextStage(msg.from), msg.of) \in FromServer
                /\ PinMessage(NextStage(msg.from), msg.of).type # "result"
                /\ Broadcast(PinMessage(NextStage(msg.from), msg.of)) \/ SendFails
            BY <1>0, <2>1, <3>2, <4>2, SentTypes DEF HandleSend, PinMessage
          <5>2. QED
            BY <2>5, <5>1
        <4>3. CASE Head(todo) = "execute"
          <5>1. /\ ShutdownMessage({msg.to}) \in FromServer
                /\ ShutdownMessage({msg.to}).type # "result"
                /\ Broadcast(ShutdownMessage({msg.to})) \/ SendFails
            BY <1>0, <2>1, <3>2, <4>3, SentTypes DEF HandleSend, ShutdownMessage
          <5>2. QED
            BY <2>5, <5>1
        <4>4. CASE Head(todo) = "result"
          <5>1. Broadcast(ResultMessage(msg.of)) \/ SendFails
            BY <3>2, <4>4 DEF HandleSend
          <5>2. QED
            BY <2>4, <2>6, <4>4, <5>1 DEF SendFails
        <4>5. QED
          BY <4>1, <4>2, <4>3, <4>4
      <3>3. QED
        BY <1>4, <3>1, <3>2
  <1>5. QED
    BY <1>2, <1>3, <1>4 DEF Poller, TestPoller, CancelPoller, StopPoller, handler

\* What any client puts into the server's socket is no command, unless it is a manager.
LEMMA ClientAsks ==
    ASSUME TypeOK, NEW c \in Managers, OneCommand(c), NEW m \in FromClients, m.type # "command",
           toServer' = toServer \/ SendToServer(m)
    PROVE  /\ NoneOf(toServer, "command") => NoneOf(toServer', "command")
           /\ OnceOf(toServer', "command") /\ AllOf(toServer', "command", hold[c])
  <1>1. toServer \in Seq(FromClients) /\ (toServer' = toServer \/ toServer' = Append(toServer, m))
    BY DEF TypeOK, SendToServer
  <1>2. QED
    BY <1>1, AppendOf DEF OneCommand

\* Another client does not touch the command of the manager.
LEMMA OtherInFlight ==
    ASSUME FactoryInv, NEW c \in Managers, Alone(c), OneCommand(c), NEW d \in Clients, d # c,
           Start(d) \/ Client(d) \/ UserExits(d) \/ UserCommands(d)
    PROVE  OneCommand(c)'
  <1>0. TypeOK /\ Roles /\ c \in Clients
    BY DEF FactoryInv, OnTheWay, Clients
  <1>1. pc[d] # "absent"
    BY DEF Start, Client, ClientShouldStop, CheckPin, SendPin, ReceiveData, UserExits, UserCommands
  <1>2. ~UserCommands(d)
    BY <1>0, <1>1, KindTypes DEF UserCommands, Roles, Alone
  <1>3. UNCHANGED <<todo, msg>> /\ pc'[c] = pc[c] /\ hold'[c] = hold[c] /\ inbox'[c] = inbox[c]
    <2>1. UNCHANGED handler
      BY <1>2 DEF Start, Client, ClientShouldStop, CheckPin, SendPin, ReceiveData, UserExits
    <2>2. pc'[c] = pc[c]
      BY <1>0, <1>2 DEF Start, Client, ClientShouldStop, CheckPin, SendPin, ReceiveData,
         SharpenPin, CheckQuality, PrintServerLog, HandleServerResponse, UserExits, Goto, TypeOK
    <2>3. hold'[c] = hold[c]
      BY <1>0, <1>2 DEF Start, Client, ClientShouldStop, CheckPin, SendPin, ReceiveData,
         SharpenPin, CheckQuality, PrintServerLog, HandleServerResponse, UserExits, TypeOK
    <2>4. inbox'[c] = inbox[c]
      BY <1>0, <1>2 DEF Start, Client, ClientShouldStop, CheckPin, SendPin, ReceiveData,
         UserExits, TypeOK
    <2>5. QED
      BY <2>1, <2>2, <2>3, <2>4 DEF handler
  <1>4. \E m \in FromClients : m.type # "command" /\ (toServer' = toServer \/ SendToServer(m))
    <2>1. /\ Message(d, "new", 0) \in FromClients /\ Message(d, "new", 0).type # "command"
          /\ Message(d, "pin", hold[d]) \in FromClients
          /\ Message(d, "pin", hold[d]).type # "command"
      <3>1. Kind(d) \in Kinds /\ hold[d] \in Numbers /\ 0 \in Numbers
        BY <1>0, KindTypes, FactoryAssumption DEF TypeOK, Numbers
      <3>2. QED
        BY <3>1 DEF Message, FromClients
    <2>2. CASE Start(d)
      BY <2>1, <2>2 DEF Start
    <2>3. CASE Client(d) \/ UserExits(d)
      BY <2>1, <2>3 DEF Client, ClientShouldStop, CheckPin, SendPin, ReceiveData, UserExits
    <2>4. QED
      BY <1>2, <2>2, <2>3
  <1>5. /\ NoneOf(toServer, "command") => NoneOf(toServer', "command")
        /\ OnceOf(toServer', "command") /\ AllOf(toServer', "command", hold[c])
    BY <1>0, <1>4, ClientAsks
  <1>6. NoAnswer' = NoAnswer /\ OneAnswer' = OneAnswer
    BY <1>3 DEF NoAnswer, OneAnswer
  <1>7. QED
    BY <1>3, <1>5, <1>6 DEF OneCommand

\* The manager reads its inbox.
LEMMA InboxInFlight ==
    ASSUME FactoryInv, NEW c \in Managers, OneCommand(c), ClientShouldStop(c) \/ ReceiveData(c)
    PROVE  OneCommand(c)'
  <1>0. /\ TypeOK /\ c \in Clients /\ Kind(c) = "manager"
        /\ inbox[c] \in Seq(FromServer) /\ pc[c] \in ClientAt
    BY KindTypes DEF FactoryInv, Clients, TypeOK
  <1>1. UNCHANGED <<toServer, todo, msg>>
    BY DEF ClientShouldStop, ReceiveData, handler
  <1>2. NoAnswer' = NoAnswer /\ OneAnswer' = OneAnswer
    BY <1>1 DEF NoAnswer, OneAnswer
  <1>3. CASE ClientShouldStop(c)
    <2>1. /\ inbox'[c] = Skipped(c) /\ hold'[c] = hold[c] /\ pc[c] \in {"loop", "before send"}
      BY <1>0, <1>3 DEF ClientShouldStop, TypeOK
    <2>2. Suffix(inbox[c], Skipped(c)) /\ DOMAIN Skipped(c) \subseteq Nat
      BY <1>0, SkippedIsSuffix
    <2>3. /\ NoneOf(toServer, "command") /\ NoAnswer /\ NoneOf(inbox[c], "result")
          /\ OnceOf(inbox[c], "result") /\ AllOf(inbox[c], "result", hold[c])
      BY <2>1 DEF OneCommand
    <2>4. /\ NoneOf(inbox'[c], "result") /\ OnceOf(inbox'[c], "result")
          /\ AllOf(inbox'[c], "result", hold[c])
      BY <2>1, <2>2, <2>3, SuffixOf
    <2>5. QED
      BY <1>1, <1>2, <2>1, <2>3, <2>4 DEF OneCommand
  <1>4. CASE ReceiveData(c)
    <2>1. /\ inbox[c] # <<>> /\ inbox'[c] = Tail(inbox[c]) /\ pc[c] = "receive"
      BY <1>0, <1>4 DEF ReceiveData, TypeOK
    <2>2. /\ hold'[c] = hold[c]
          /\ pc'[c] \in {"receive", "failed"} \/ Head(inbox[c]).type = "result"
      BY <1>0, <1>4 DEF ReceiveData, SharpenPin, CheckQuality, PrintServerLog,
         HandleServerResponse, Goto, TypeOK
    <2>3. /\ NoneOf(inbox[c], "result") => NoneOf(inbox'[c], "result")
          /\ OnceOf(inbox'[c], "result") /\ AllOf(inbox'[c], "result", hold[c])
          /\ Head(inbox[c]).type = "result" => NoneOf(inbox'[c], "result")
      BY <1>0, <2>1, TailOf DEF OneCommand
    <2>4. Head(inbox[c]).type = "result" => NoneOf(toServer, "command") /\ NoAnswer
      <3>1. Head(inbox[c]) = inbox[c][1] /\ 1 \in DOMAIN inbox[c]
        BY <1>0, <2>1, TailIsSuffix
      <3>2. QED
        BY <3>1 DEF OneCommand, NoneOf
    <2>5. QED
      BY <1>1, <1>2, <2>2, <2>3, <2>4 DEF OneCommand
  <1>5. QED
    BY <1>3, <1>4

\* The manager starts, or its user types.
LEMMA UserInFlight ==
    ASSUME FactoryInv, NEW c \in Managers, OneCommand(c),
           Start(c) \/ CheckPin(c) \/ SendPin(c) \/ UserExits(c) \/ UserCommands(c)
    PROVE  OneCommand(c)'
  <1>0. /\ TypeOK /\ c \in Clients /\ Kind(c) = "manager" /\ Roles /\ PinsHeld
        /\ toServer \in Seq(FromClients)
    BY KindTypes DEF FactoryInv, OnTheWay, Clients, TypeOK
  <1>1. UNCHANGED <<inbox, todo, msg>>
    BY DEF Start, CheckPin, SendPin, UserExits, UserCommands, handler
  <1>2. NoAnswer' = NoAnswer /\ OneAnswer' = OneAnswer
    BY <1>1 DEF NoAnswer, OneAnswer
  <1>3. ~CheckPin(c) /\ ~SendPin(c)
    BY <1>0 DEF CheckPin, SendPin, Roles, PinsHeld, Ready
  <1>4. /\ pc[c] \in {"off", "menu"}
        /\ NoneOf(toServer, "command") /\ NoAnswer /\ NoneOf(inbox[c], "result")
    BY <1>3 DEF Start, UserExits, UserCommands, OneCommand
  <1>5. CASE Start(c)
    <2>1. Message(c, "new", 0) \in FromClients /\ Message(c, "new", 0).type # "command"
      BY <1>0, FactoryAssumption DEF Message, FromClients, Kinds, Numbers
    <2>2. toServer' = toServer \/ SendToServer(Message(c, "new", 0))
      BY <1>5 DEF Start
    <2>3. NoneOf(toServer', "command") /\ OnceOf(toServer', "command")
          /\ AllOf(toServer', "command", hold[c])
      BY <1>0, <1>4, <2>1, <2>2, ClientAsks
    <2>4. UNCHANGED hold
      BY <1>5 DEF Start
    <2>5. QED
      BY <1>1, <1>2, <1>4, <2>3, <2>4 DEF OneCommand
  <1>6. CASE UserExits(c)
    <2>1. UNCHANGED <<hold, toServer>>
      BY <1>6 DEF UserExits
    <2>2. QED
      BY <1>1, <1>2, <1>4, <2>1 DEF OneCommand
  <1>7. CASE UserCommands(c)
    <2>1. CASE UNCHANGED <<hold, toServer>>
      <3>1. QED
        BY <1>1, <1>2, <1>4, <2>1 DEF OneCommand
    <2>2. CASE ~UNCHANGED <<hold, toServer>>
      <3>1. /\ commands' = commands + 1 /\ commands < MaxCommands
            /\ pc' = [pc EXCEPT ![c] = "receive"] /\ hold' = [hold EXCEPT ![c] = commands']
        BY <1>7, <2>2 DEF UserCommands, Goto
      <3>2. pc'[c] = "receive" /\ hold'[c] = commands'
        BY <1>0, <3>1 DEF TypeOK
      <3>3. PICK kind \in Asked :
                SendToServer([Message(c, "command", commands') EXCEPT !.to = kind])
        BY <1>7, <2>2 DEF UserCommands
      <3> DEFINE m == [Message(c, "command", commands') EXCEPT !.to = kind]
      <3>4. m \in FromClients /\ m.type = "command" /\ m.of = hold'[c]
        <4>1. m = [type |-> "command", from |-> "manager", to |-> kind, of |-> commands']
          BY <1>0 DEF Message
        <4>2. commands' \in Numbers
          BY <1>0, <3>1, FactoryAssumption DEF TypeOK, Numbers
        <4>3. kind \in Kinds
          BY FactoryAssumption
        <4>4. QED
          BY <3>2, <4>1, <4>2, <4>3 DEF FromClients
      <3>5. toServer' = toServer \/ toServer' = Append(toServer, m)
        BY <3>3 DEF SendToServer
      <3> HIDE DEF m
      <3>6. OnceOf(toServer', "command") /\ AllOf(toServer', "command", hold'[c])
        <4>1. CASE toServer' = toServer
          BY <1>4, <4>1 DEF NoneOf, OnceOf, AllOf
        <4>2. CASE toServer' = Append(toServer, m)
          BY <1>0, <1>4, <3>4, <4>2, AppendOf
        <4>3. QED
          BY <3>5, <4>1, <4>2
      <3>7. OnceOf(inbox[c], "result") /\ AllOf(inbox[c], "result", hold'[c])
        BY <1>4 DEF NoneOf, OnceOf, AllOf
      <3>8. QED
        BY <1>1, <1>2, <1>4, <3>2, <3>6, <3>7 DEF OneCommand
    <2>3. QED
      BY <2>1, <2>2
  <1>8. QED
    BY <1>3, <1>5, <1>6, <1>7

\* At the start there is no command.
LEMMA InFlightInit == Init => OneInFlight
  <1> SUFFICES ASSUME Init, NEW c \in Managers PROVE OneCommand(c)
    BY DEF OneInFlight
  <1>1. toServer = <<>> /\ todo = <<>> /\ inbox[c] = <<>>
    BY DEF Init, Clients
  <1>2. QED
    BY <1>1 DEF OneCommand, NoneOf, OnceOf, AllOf, NoAnswer, OneAnswer

\* The command of a manager that is alone stays in one place.
LEMMA InFlightStep == FactoryInv /\ OneInFlight /\ [Next]_vars => OneInFlight'
  <1> SUFFICES ASSUME FactoryInv, OneInFlight, [Next]_vars, NEW c \in Managers, Alone(c)'
               PROVE  OneCommand(c)'
    BY DEF OneInFlight
  <1>1. Alone(c) /\ OneCommand(c) /\ c \in Clients
    <2>1. TypeOK /\ Managers \subseteq Clients
      BY DEF FactoryInv, Clients
    <2>2. Alone(c)
      BY <2>1, AbsentStays DEF Alone
    <2>3. QED
      BY <2>1, <2>2 DEF OneInFlight
  <1>2. CASE Main \/ CtrlC \/ Logger
    BY <1>1, <1>2, ThreadsInFlight
  <1>3. CASE Poller
    BY <1>1, <1>3, PollerInFlight
  <1>4. ASSUME NEW d \in Clients, Start(d) \/ Client(d) \/ UserExits(d) \/ UserCommands(d)
        PROVE  OneCommand(c)'
    <2>1. CASE d # c
      BY <1>1, <1>4, <2>1, OtherInFlight
    <2>2. CASE d = c
      BY <1>1, <1>4, <2>2, InboxInFlight, UserInFlight DEF Client
    <2>3. QED
      BY <2>1, <2>2
  <1>5. CASE UNCHANGED vars
    <2>1. UNCHANGED <<toServer, todo, msg, pc, hold, inbox>>
      BY <1>5 DEF vars, handler, clients
    <2>2. QED
      BY <1>1, <2>1 DEF OneCommand, NoAnswer, OneAnswer
  <1>6. QED
    BY <1>2, <1>3, <1>4, <1>5 DEF Next

\* Only the result of a command takes a manager back to its loop.
LEMMA ResultRead ==
    ASSUME FactoryInv, OneInFlight, Next, NEW c \in Managers,
           pc[c] = "receive", pc'[c] = "loop", Alone(c)
    PROVE  Head(inbox[c]).of = hold[c]
  <1>0. /\ TypeOK /\ c \in Clients /\ Kind(c) = "manager" /\ OneCommand(c)
        /\ inbox[c] \in Seq(FromServer)
    BY KindTypes DEF FactoryInv, Clients, OneInFlight, TypeOK
  <1>1. PICK d \in Clients : Start(d) \/ Client(d) \/ UserExits(d) \/ UserCommands(d)
    <2>1. ~(Main \/ CtrlC \/ Poller \/ Logger)
      BY DEF Main, CreatePoller, RecordPoller, CreateLogger, RecordLogger, Join, CtrlC,
         SendShutdownSignalToAll, Logger, TestLogger, DequeueLog, SendServerLog, CancelLogger,
         StopLogger, Poller, TestPoller, Receive, HandleLog, HandleSend, CancelPoller, StopPoller,
         clients
    <2>2. QED
      BY <2>1 DEF Next
  <1>2. d = c
    BY <1>0, <1>1 DEF Start, Client, ClientShouldStop, CheckPin, SendPin, ReceiveData,
       SharpenPin, CheckQuality, PrintServerLog, HandleServerResponse, UserExits,
       UserCommands, Goto, TypeOK
  <1>3. ReceiveData(c)
    BY <1>1, <1>2 DEF Start, Client, ClientShouldStop, CheckPin, SendPin, UserExits, UserCommands
  <1>4. inbox[c] # <<>> /\ Head(inbox[c]).type = "result"
    BY <1>0, <1>3 DEF ReceiveData, SharpenPin, CheckQuality, PrintServerLog,
       HandleServerResponse, Goto, TypeOK
  <1>5. Head(inbox[c]) = inbox[c][1] /\ 1 \in DOMAIN inbox[c]
    BY <1>0, <1>4, TailIsSuffix
  <1>6. QED
    BY <1>0, <1>4, <1>5 DEF OneCommand, AllOf

\* A manager that is the only one reads the result of the command that it has sent last,
\* however many other clients there are and whatever is lost (execute_command,
\* send_command_result_to_managers).
THEOREM OwnResultIsRead == Spec => ResultIsOwn
  <1>1. FactoryInv /\ OneInFlight /\ [Next]_vars =>
            [\A c \in Managers :
                pc[c] = "receive" /\ pc'[c] = "loop"
                      /\ (\A d \in Managers \ {c} : pc[d] = "absent") =>
                    Head(inbox[c]).of = hold[c]]_vars
    BY ResultRead DEF Alone
  <1>2. QED
    BY <1>1, FactoryInvariant, InFlightInit, InFlightStep, PTL DEF Spec, ResultIsOwn
=============================================================================
