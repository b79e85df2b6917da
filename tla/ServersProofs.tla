---------------------------- MODULE ServersProofs ----------------------------
(***************************************************************************)
(* Proofs about Servers.  FirstServer, for all sets of clients, numbers of *)
(* workers and sizes of the rings: seen from its clients the server does   *)
(* what TcpClients lets a server do; it ends without Ctrl-C only after a   *)
(* worker has left, and then tells all that are in its arrays.             *)
(* ServerShutdown: whatever the order of signals, failures and             *)
(* cancellations, and at whatever step of main the signal arrives, no      *)
(* thread outlives the resources it uses, and only a cancellation leaves   *)
(* the mutex locked.  ShutdownInv is the inductive invariant of the second *)
(* part: it says how far main has come with the creations and the joins.   *)
(***************************************************************************)
EXTENDS Servers, FiniteSetTheorems, NaturalsInduction, TLAPS

\* What is proved about the clients of any server.
Any == INSTANCE TcpClientsProofs WITH MaxMessages <- MaxPins

-----------------------------------------------------------------------------
(* The invariant.                                                          *)

\* The types of the server's own variables.
Types ==
    /\ main \in {"create", "test", "toaccept", "accept", "insert", "join", "tell", "sleep",
                 "deinit"} \union Gone
    /\ at \in {"absent", "first", "give second", "poll second", "give third", "sleep", "over"}
    /\ i \in 0 .. MaxWorkers + 1 /\ k \in 1 .. 3 * MaxWorkers + 1
    /\ checked \in BOOLEAN /\ errno \in {"none", "EAGAIN", "dead"}
    /\ \A flag \in {is_acceptor_running, is_poller_running, signalled} : flag \in BOOLEAN
    /\ newcomer \in Clients \union {NoClient} /\ pending \subseteq Clients
    /\ fds \in [Stages -> [Slots -> Clients \union {NoClient}]]
    /\ q \in [{"second", "third"} -> 0 .. QueueSize]
    /\ peer \in [Clients -> {"none", "open", "fin", "doomed", "epipe", "reset", "told", "closed"}]
    /\ made \in 0 .. MaxPins /\ type \in [Clients -> Stages]

\* Where the threads are: the ring has a pin or room when the slot was checked, and the
\* polling thread is over before anybody is told.
Ready(loop, slot, f, rings) ==
    /\ slot \in Slots /\ f[StageOf(loop)][slot] # NoClient
    /\ IF loop \in Gives THEN rings[Ring(loop)] > 0 ELSE rings[Ring(loop)] < QueueSize
Empty(f) == \A s \in Stages, slot \in Slots : f[s][slot] = NoClient
Threads ==
    /\ main = "insert" => newcomer # NoClient
    /\ at \in {"absent", "sleep", "over"} => i = 0
    /\ i = 0 => ~checked
    /\ checked => Ready(at, i, fds, q)
    /\ ~is_poller_running => signalled
    /\ main = "tell" => k =< 3 * MaxWorkers
    /\ main \in {"tell", "sleep"} => at = "over"
    /\ main \in {"deinit", "ended"} => at \in {"over", "absent"}
    /\ main = "create" => at = "absent"
    /\ at = "absent" => main \in {"create", "deinit", "ended"} /\ Empty(fds)

\* A connection is nowhere, waits to be accepted, is the newcomer or is in one slot.
Holds(f, c) == \E s \in Stages, slot \in Slots : f[s][slot] = c
Placed(c, waiting, new, f) == c \in waiting \/ c = new \/ Holds(f, c)
Unique(f) ==
    \A s, t \in Stages, x, y \in Slots :
        f[s][x] = f[t][y] /\ f[s][x] # NoClient => s = t /\ x = y
Places ==
    /\ \A c \in Clients : conn[c] = "none" => ~Placed(c, pending, newcomer, fds)
    /\ \A c \in Clients : c \in pending => c # newcomer /\ ~Holds(fds, c)
    /\ \A c \in Clients : c = newcomer => ~Holds(fds, c)
    /\ Unique(fds)

\* What the server knows of a connection is true, and it has not closed one that it holds.
Over == {"ok", "failed", "killed"}
Peers ==
    \A c \in Clients :
        /\ peer[c] \in {"fin", "doomed", "epipe", "reset"} => pc[c] \in Over
        /\ peer[c] = "told" => told[c]
        /\ peer[c] = "open" => conn[c] # "none"
        /\ Placed(c, pending, newcomer, fds) =>
              peer[c] \in {"open", "fin", "doomed", "epipe", "reset"}
                          \union (IF at = "over" THEN {"told"} ELSE {})

\* Whose turn has come in send_shutdown_signal_to_all.
Turn(s, slot) ==
    slot + (CASE s = "first" -> 0 [] s = "second" -> MaxWorkers [] OTHER -> 2 * MaxWorkers)
Told ==
    \A s \in Stages, slot \in Slots :
        /\ fds[s][slot] # NoClient
        /\ main \in {"sleep", "deinit", "ended"} \/ (main = "tell" /\ Turn(s, slot) < k)
        => told[fds[s][slot]] \/ pc[fds[s][slot]] \in Over

Leavers == (at = "over" /\ ~signalled) \/ main = "killed" => \E c \in Clients : pc[c] \in Over

\* The sizes are the numbers of the slots that are taken.
Taken(f, s) == {slot \in Slots : f[s][slot] # NoClient}
Counts ==
    /\ size \in [Stages -> 0 .. MaxWorkers]
    /\ main \notin {"sleep", "deinit", "ended"} =>
          \A s \in Stages : size[s] = Cardinality(Taken(fds, s))

ServerInv == Types /\ Threads /\ Places /\ Peers /\ Told /\ Leavers /\ Counts
Inv == Any!Inv /\ ServerInv

-----------------------------------------------------------------------------
(* The clients of this server are those of any server.                     *)

LEMMA SameClients ==
    /\ Client!Init <=> Any!Init
    /\ Client!Next <=> Any!Next
    /\ Client!vars = Any!vars
    /\ Client!ClientsAreRight <=> Any!ClientsAreRight
  <1>1. Client!Init <=> Any!Init
    BY DEF Client!Init, Any!Init, Client!Marks, Any!Marks, Client!TypesOf, Any!TypesOf,
         Client!Workers, Any!Workers, Client!Ghost, Any!Ghost
  <1>2. Client!Next <=> Any!Next
    BY DEF Client!Next, Any!Next, Client!Close, Any!Close, Client!Up, Any!Up,
         Client!Ended, Any!Ended, Client!programs, Any!programs, Client!server,
         Any!server, Client!ServerNext, Any!ServerNext, Client!ServerSends,
         Any!ServerSends, Client!Sends, Any!Sends, Client!Kind, Any!Kind,
         Client!Message, Any!Message, Client!Size, Any!Size, Client!ServerTakesPin,
         Any!ServerTakesPin, Client!Tell, Any!Tell, Client!BecomesOf, Any!BecomesOf,
         Client!ClientNext, Any!ClientNext, Client!Step, Any!Step, Client!Connect,
         Any!Connect, Client!Goto, Any!Goto, Client!Check, Any!Check,
         Client!ErrorIsTold, Any!ErrorIsTold, Client!ShouldStop, Any!ShouldStop,
         Client!is_shutdown_message, Any!is_shutdown_message, Client!First, Any!First,
         Client!NET_BUFFER_SIZE, Any!NET_BUFFER_SIZE, Client!Take, Any!Take,
         Client!ReceivesAgain, Any!ReceivesAgain, Client!AsksAgain, Any!AsksAgain,
         Client!ValueOf, Any!ValueOf, Client!Give, Any!Give, Client!SendTo,
         Any!SendTo, Client!Ask, Any!Ask, Client!Menu, Any!Menu, Client!Interrupt,
         Any!Interrupt, Client!Make, Any!Make, Client!Ghost, Any!Ghost
  <1>3. Client!vars = Any!vars
    BY DEF Client!vars, Any!vars
  <1>4. Client!ClientsAreRight <=> Any!ClientsAreRight
    BY DEF Client!ClientsAreRight, Any!ClientsAreRight, Client!TypeOK, Any!TypeOK,
         Client!Marks, Any!Marks, Client!TypesOf, Any!TypesOf, Client!Workers,
         Any!Workers, Client!Bytes, Any!Bytes, Client!Size, Any!Size, Client!Kind,
         Any!Kind, Client!OnlyStopIsMistaken, Any!OnlyStopIsMistaken, Client!Ghost,
         Any!Ghost, Client!NothingIsLeft, Any!NothingIsLeft, Client!EndsForAReason,
         Any!EndsForAReason, Client!Ended, Any!Ended, Client!ToldNeverSpins,
         Any!ToldNeverSpins, Client!Spins, Any!Spins, Client!AsksAgain, Any!AsksAgain
  <1>5. QED
    BY <1>1, <1>2, <1>3, <1>4

-----------------------------------------------------------------------------
(* Each step is one that TcpClients lets a server or a client do.          *)

\* The end of the process closes sockets.
LEMMA EndCloses ==
    ASSUME Any!Types, AllClose,
           UNCHANGED <<mark, type, pc, inbox, outbox, given, told, taken, pin, quit>>
    PROVE  Client!Close
  <1>1. conn \in [Clients -> {"none", "open", "fin", "reset", "dead"}]
    BY DEF Any!Types
  <1>2. ASSUME NEW c \in Clients
        PROVE  /\ conn'[c] \in {"none", "open", "fin", "reset", "dead"}
               /\ \/ conn'[c] = conn[c]
                  \/ Client!Up(c) /\ conn'[c] \in {"fin", "reset"}
                  \/ ~Client!Ended(c) /\ conn[c] = "fin" /\ conn'[c] = "dead"
    <2>1. conn'[c] = CASE Client!Up(c) -> IF outbox[c] # <<>> THEN "reset" ELSE "fin"
                       [] /\ ~Client!Up(c) /\ conn[c] = "fin" /\ outbox[c] # <<>>
                          /\ ~Client!Ended(c) -> "dead"
                       [] OTHER -> conn[c]
      BY DEF AllClose
    <2>2. QED
      BY <1>1, <2>1
  <1>3. conn' \in [Clients -> {"none", "open", "fin", "reset", "dead"}]
    BY <1>2 DEF AllClose
  <1>4. QED
    BY <1>2, <1>3, Zenon DEF Client!Close, Client!programs, Client!server

\* What a slot can hold.
LEMMA InSlots ==
    ASSUME Types, NEW s \in Stages, NEW slot \in Slots
    PROVE  fds[s][slot] \in Clients \union {NoClient}
  <1>1. fds \in [Stages -> [Slots -> Clients \union {NoClient}]]
    BY DEF Types
  <1>2. QED
    BY <1>1

LEMMA StepIsClients ==
    ASSUME ConstantsOK, Any!Types, Types, Threads, Next
    PROVE  Client!Next \/ UNCHANGED workers
  <1>1. ASSUME NEW c \in Clients, Client!ServerNext(c) \/ Client!ClientNext(c)
        PROVE  Client!Next
    BY <1>1, Zenon DEF Client!Next
  <1>2. ASSUME NEW c \in Clients, Client!Tell(c) PROVE Client!Next
    BY <1>1, <1>2, Zenon DEF Client!ServerNext
  <1>3. CASE Dies
    BY <1>3, EndCloses, Zenon DEF Dies, Client!Next
  <1>4. ASSUME NEW c \in Clients, NEW after, SendShutdown(c, after)
        PROVE  Client!Next \/ UNCHANGED workers
    BY <1>2, <1>4, Zenon DEF SendShutdown
  <1>5. ASSUME NEW c \in Clients, Refuse(c)
        PROVE  Client!Next \/ UNCHANGED workers
    BY <1>2, <1>5, Zenon DEF Refuse
  <1>6. CASE Signal \/ CreateThread \/ AcceptorTest \/ Join \/ EnterStage \/ AtSlot \/ PollerTest
    BY <1>6, Zenon DEF Signal, CreateThread, AcceptorTest, Join, EnterStage, AtSlot, PollerTest
  <1>7. CASE Insert
    <2>1. newcomer \in Clients
      BY <1>7 DEF Insert, Types, Threads
    <2>2. UNCHANGED workers \/ Refuse(newcomer)
      BY <1>7, Zenon DEF Insert
    <2>3. QED
      BY <1>5, <2>1, <2>2
  <1>8. CASE TellNext
    <2>1. \/ Dies
          \/ UNCHANGED workers
          \/ \E s \in Stages, slot \in Slots :
                fds[s][slot] # NoClient /\ SendShutdown(fds[s][slot], "told")
      <3> DEFINE s == CASE k =< MaxWorkers -> "first" [] k > 2 * MaxWorkers -> "third"
                        [] OTHER -> "second"
                 slot == ((k - 1) % MaxWorkers) + 1
                 c == fds[s][slot]
      <3>1. s \in Stages
        BY DEF Stages
      <3>2. slot \in Slots
        <4>1. k - 1 \in Nat /\ MaxWorkers \in Nat \ {0}
          <5>1. MaxWorkers \in Nat \ {0} /\ k \in 1 .. 3 * MaxWorkers + 1
            BY Zenon DEF ConstantsOK, Types
          <5>2. QED
            BY <5>1
        <4> DEFINE x == k - 1
        <4> HIDE DEF x
        <4>2. x % MaxWorkers \in 0 .. MaxWorkers - 1
          BY <4>1 DEF x
        <4>3. QED
          BY <4>1, <4>2 DEF Slots, x
      <3>3. Dies \/ (c = NoClient /\ UNCHANGED workers)
                 \/ (c # NoClient /\ SendShutdown(c, "told"))
        BY <1>8, Zenon DEF TellNext
      <3> HIDE DEF s, slot
      <3>4. QED
        BY <3>1, <3>2, <3>3
    <2>2. ASSUME NEW s \in Stages, NEW slot \in Slots, fds[s][slot] # NoClient,
                 SendShutdown(fds[s][slot], "told")
          PROVE  Client!Next \/ UNCHANGED workers
      <3>1. fds[s][slot] \in Clients
        BY <2>2, InSlots
      <3>2. QED
        BY <1>4, <2>2, <3>1, Zenon
    <2>3. QED
      BY <1>3, <2>1, <2>2
  <1>9. CASE Deinit
    <2>1. CASE UNCHANGED conn
      BY <1>9, <2>1, Zenon DEF Deinit, workers
    <2>2. CASE AllClose
      BY <1>9, <2>2, EndCloses, Zenon DEF Deinit, Client!Next
    <2>3. QED
      BY <1>9, <2>1, <2>2, Zenon DEF Deinit
  <1>10. ASSUME checked PROVE fds[StageOf(at)][i] \in Clients /\ i \in Slots
    <2>1. StageOf(at) \in Stages /\ i \in Slots /\ fds[StageOf(at)][i] # NoClient
      BY <1>10 DEF Threads, Ready, StageOf, Stages
    <2>2. QED
      BY <2>1, InSlots
  <1>11. CASE PollSlot
    <2> DEFINE c == fds[StageOf(at)][i]
    <2>1. checked
      BY <1>11, Zenon DEF PollSlot
    <2>2. c \in Clients
      BY <1>10, <2>1
    <2>3. CASE outbox[c] = <<>>
      BY <1>11, <2>3, Zenon DEF PollSlot, workers
    <2>4. CASE outbox[c] # <<>>
      <3>1. /\ outbox' = [outbox EXCEPT ![c] = Tail(@)]
            /\ UNCHANGED <<mark, type, pc, conn, inbox, given, told, taken, pin, quit>>
        BY <1>11, <2>4, Zenon DEF PollSlot
      <3>2. type[c] # "manager"
        BY <2>2 DEF Types, Stages
      <3>3. Client!ServerTakesPin(c)
        BY <2>4, <3>1, <3>2, Zenon DEF Client!ServerTakesPin, Client!programs, Client!server
      <3>4. QED
        BY <1>1, <2>2, <3>3, Zenon DEF Client!ServerNext
    <2>5. QED
      BY <2>3, <2>4
  <1>12. CASE GiveSlot
    <2> DEFINE c == fds[StageOf(at)][i]
    <2>1. checked
      BY <1>12, Zenon DEF GiveSlot
    <2>2. c \in Clients
      BY <1>10, <2>1
    <2>3. Dies \/ Client!ServerSends(c) \/ UNCHANGED workers
      BY <1>12, Zenon DEF GiveSlot
    <2>4. QED
      BY <1>1, <1>3, <2>2, <2>3, Zenon DEF Client!ServerNext
  <1>13. ASSUME NEW c \in Clients, Accept(c) PROVE Client!Next \/ UNCHANGED workers
    BY <1>5, <1>13, Zenon DEF Accept
  <1>14. ASSUME NEW c \in Clients,
                \/ ResetArrives(c) \/ WorkerGoesOn(c) \/ WorkerIsInterrupted(c)
                \/ \E crooked \in BOOLEAN : WorkerMakes(c, crooked)
         PROVE  Client!Next \/ UNCHANGED workers
    <2>1. CASE ResetArrives(c)
      BY <2>1, Zenon DEF ResetArrives
    <2>2. CASE WorkerGoesOn(c)
      BY <1>1, <2>2, Zenon DEF WorkerGoesOn, Moves, Client!ClientNext
    <2>3. CASE WorkerIsInterrupted(c)
      BY <1>1, <2>3, Zenon DEF WorkerIsInterrupted, Moves, Client!ClientNext
    <2>4. CASE \E crooked \in BOOLEAN : WorkerMakes(c, crooked)
      BY <1>1, <2>4, Zenon DEF WorkerMakes, Moves, Client!ClientNext
    <2>5. QED
      BY <1>14, <2>1, <2>2, <2>3, <2>4
  <1>15. QED
    BY <1>6, <1>7, <1>8, <1>9, <1>11, <1>12, <1>13, <1>14, Zenon DEF Next, Main, Poller

-----------------------------------------------------------------------------
(* The parts of the invariant, when a step is nothing to them.             *)

\* What TcpClients promises of each step.
ClientsGoOn ==
    /\ type' = type
    /\ \A d \in Clients :
          /\ told[d] => told'[d]
          /\ pc[d] \in Over => pc'[d] \in Over
          /\ conn'[d] = "none" => conn[d] = "none"

LEMMA StepGoesOn ==
    ASSUME ConstantsOK, Any!Inv, Any!Types', Client!Next \/ UNCHANGED workers
    PROVE  ClientsGoOn
  <1>1. CASE UNCHANGED workers
    BY <1>1 DEF workers, ClientsGoOn
  <1>2. CASE Client!Next
    <2>1. Any!ConstantsOK
      BY DEF ConstantsOK, Any!ConstantsOK
    <2>2. Any!Next
      BY <1>2, SameClients
    <2>3. ASSUME NEW d \in Clients PROVE Any!Forward(d)
      BY <2>1, <2>2, Any!StepsForward, Zenon DEF Any!Inv
    <2>4. type' = type
      BY <2>2, Any!ProgramsStay
    <2>5. QED
      BY <2>3, <2>4 DEF ClientsGoOn, Any!Forward, Any!Ended, Over
  <1>3. QED
    BY <1>1, <1>2

LEMMA PlacesStay ==
    ASSUME ConstantsOK, Types, Places, ClientsGoOn, pending' \subseteq pending,
           newcomer' \in {newcomer, NoClient},
           \A s \in Stages, x \in Slots : fds'[s][x] \in {fds[s][x], NoClient}
    PROVE  /\ Places'
           /\ \A d \in Clients : Placed(d, pending', newcomer', fds')
                                    => Placed(d, pending, newcomer, fds)
  <1>1. ASSUME NEW d \in Clients, Holds(fds', d) PROVE Holds(fds, d)
    BY <1>1 DEF Holds, ConstantsOK
  <1>2. ASSUME NEW d \in Clients PROVE d = newcomer' => d = newcomer
    BY DEF ConstantsOK
  <1>3. ASSUME NEW d \in Clients
        PROVE  Placed(d, pending', newcomer', fds') => Placed(d, pending, newcomer, fds)
    BY <1>1, <1>2 DEF Placed
  <1>4. ASSUME NEW d \in Clients
        PROVE  /\ conn'[d] = "none" => ~Placed(d, pending', newcomer', fds')
               /\ d \in pending' => d # newcomer' /\ ~Holds(fds', d)
               /\ d = newcomer' => ~Holds(fds', d)
    BY <1>1, <1>2, <1>3 DEF Places, ClientsGoOn
  <1>5. Unique(fds')
    <2>1. Unique(fds)
      BY DEF Places
    <2>2. QED
      BY <2>1 DEF Unique
  <1>6. Places'
    BY <1>4, <1>5, Zenon DEF Places
  <1>7. QED
    BY <1>3, <1>6

\* The peers, when at most one of them changes.
PeerRight(state, ended, wasTold, connected, placed, loop) ==
    /\ state \in {"fin", "doomed", "epipe", "reset"} => ended
    /\ state = "told" => wasTold
    /\ state = "open" => connected
    /\ placed => state \in {"open", "fin", "doomed", "epipe", "reset"}
                           \union (IF loop = "over" THEN {"told"} ELSE {})

LEMMA PeersStay ==
    ASSUME Types, Peers, ClientsGoOn, at = "over" => at' = "over", NEW c,
           \A d \in Clients \ {c} :
              /\ peer'[d] = peer[d]
              /\ Placed(d, pending', newcomer', fds') => Placed(d, pending, newcomer, fds),
           c \in Clients => PeerRight(peer'[c], pc'[c] \in Over, told'[c], conn'[c] # "none",
                                      Placed(c, pending', newcomer', fds'), at')
    PROVE  Peers'
  <1>1. ASSUME NEW d \in Clients
        PROVE  /\ peer'[d] \in {"fin", "doomed", "epipe", "reset"} => pc'[d] \in Over
               /\ peer'[d] = "told" => told'[d]
               /\ peer'[d] = "open" => conn'[d] # "none"
               /\ Placed(d, pending', newcomer', fds') =>
                     peer'[d] \in {"open", "fin", "doomed", "epipe", "reset"}
                                  \union (IF at' = "over" THEN {"told"} ELSE {})
    <2>1. CASE d = c
      BY <2>1, Zenon DEF PeerRight
    <2>2. CASE d # c
      BY <2>2 DEF Peers, ClientsGoOn
    <2>3. QED
      BY <2>1, <2>2
  <1>2. QED
    BY <1>1, Zenon DEF Peers

LEMMA ToldStays ==
    ASSUME Types, Told, ClientsGoOn, fds' = fds,
           main' \in {"sleep", "deinit", "ended"} => main \in {"sleep", "deinit", "ended"},
           main' = "tell" => main = "tell" /\ k' = k
    PROVE  Told'
  <1>1. ASSUME NEW s \in Stages, NEW slot \in Slots, fds[s][slot] # NoClient,
               main' \in {"sleep", "deinit", "ended"} \/ (main' = "tell" /\ Turn(s, slot) < k')
        PROVE  told'[fds[s][slot]] \/ pc'[fds[s][slot]] \in Over
    <2>1. fds[s][slot] \in Clients
      BY <1>1, InSlots
    <2>2. told[fds[s][slot]] \/ pc[fds[s][slot]] \in Over
      BY <1>1 DEF Told
    <2>3. QED
      BY <2>1, <2>2 DEF ClientsGoOn
  <1>2. QED
    BY <1>1, Zenon DEF Told, Turn

LEMMA NobodyIsToldYet ==
    ASSUME main' \notin {"tell", "sleep", "deinit", "ended"}
    PROVE  Told'
  BY DEF Told

LEMMA LeaversStay ==
    ASSUME Leavers, ClientsGoOn, signalled => signalled',
           at' = "over" => at = "over" \/ signalled', main' = "killed" => main = "killed"
    PROVE  Leavers'
  BY DEF Leavers, ClientsGoOn

LEMMA CountsStay ==
    ASSUME Counts, fds' = fds, size' = size,
           main \in {"sleep", "deinit", "ended"} => main' \in {"sleep", "deinit", "ended"}
    PROVE  Counts'
  BY DEF Counts, Taken

-----------------------------------------------------------------------------
(* The steps that leave the arrays alone.                                  *)

LEMMA TablesStay ==
    ASSUME ConstantsOK, ServerInv, ClientsGoOn, UNCHANGED <<pending, newcomer, fds, peer>>,
           at = "over" => at' = "over"
    PROVE  Places' /\ Peers'
  <1>1. Types /\ Places /\ Peers
    BY DEF ServerInv
  <1>2. /\ pending' \subseteq pending /\ newcomer' \in {newcomer, NoClient}
        /\ \A s \in Stages, x \in Slots : fds'[s][x] \in {fds[s][x], NoClient}
    OBVIOUS
  <1>3. /\ Places'
        /\ \A d \in Clients : Placed(d, pending', newcomer', fds')
                                 => Placed(d, pending, newcomer, fds)
    BY <1>1, <1>2, PlacesStay
  <1>4. NoClient \notin Clients /\ \A d \in Clients \ {NoClient} : peer'[d] = peer[d]
    BY DEF ConstantsOK
  <1>5. Peers'
    BY <1>1, <1>3, <1>4, PeersStay
  <1>6. QED
    BY <1>3, <1>5

LEMMA SignalKeeps ==
    ASSUME ConstantsOK, ServerInv, ClientsGoOn, Signal
    PROVE  ServerInv'
  <1>1. Types /\ Threads /\ Told /\ Leavers /\ Counts
    BY DEF ServerInv
  <1>2. /\ signalled' = TRUE /\ is_acceptor_running' = FALSE /\ is_poller_running' = FALSE
        /\ main \notin Gone /\ main' = IF main = "accept" THEN "test" ELSE main
        /\ UNCHANGED <<newcomer, k, at, i, checked, errno, pending, fds, size, q, peer, made>>
    BY DEF Signal, polling, tables
  <1>3. Places' /\ Peers'
    BY <1>2, TablesStay
  <1>4. Types'
    BY <1>1, <1>2 DEF Types, ClientsGoOn, Gone
  <1>5. Threads'
    BY <1>1, <1>2 DEF Threads, Types, Gone
  <1>6. Told'
    BY <1>1, <1>2, ToldStays
  <1>7. Leavers'
    BY <1>1, <1>2, LeaversStay
  <1>8. Counts'
    BY <1>1, <1>2, CountsStay
  <1>9. QED
    BY <1>3, <1>4, <1>5, <1>6, <1>7, <1>8 DEF ServerInv

LEMMA CreateThreadKeeps ==
    ASSUME ConstantsOK, ServerInv, ClientsGoOn, CreateThread
    PROVE  ServerInv'
  <1>1. Types /\ Threads /\ Told /\ Leavers /\ Counts
    BY DEF ServerInv
  <1>2. /\ main = "create"
        /\ (main' = "test" /\ at' = "sleep") \/ (main' = "deinit" /\ at' = at)
        /\ UNCHANGED <<newcomer, k, i, checked, errno, is_acceptor_running, is_poller_running,
                       signalled, pending, fds, size, q, peer, made>>
    BY DEF CreateThread, flags, tables
  <1>3. at = "absent" /\ Empty(fds) /\ i = 0 /\ ~checked
    BY <1>1, <1>2 DEF Threads
  <1>4. Places' /\ Peers'
    BY <1>2, <1>3, TablesStay
  <1>5. Types'
    BY <1>1, <1>2 DEF Types, ClientsGoOn, Gone
  <1>6. Threads'
    BY <1>1, <1>2, <1>3 DEF Threads
  <1>7. Told'
    BY <1>2, <1>3 DEF Told, Empty
  <1>8. Leavers'
    BY <1>1, <1>2, <1>3, LeaversStay
  <1>9. Counts'
    BY <1>1, <1>2, CountsStay
  <1>10. QED
    BY <1>4, <1>5, <1>6, <1>7, <1>8, <1>9 DEF ServerInv

LEMMA MainWaits ==
    ASSUME ConstantsOK, ServerInv, ClientsGoOn, AcceptorTest \/ Join \/ Deinit
    PROVE  ServerInv'
  <1>1. Types /\ Threads /\ Told /\ Leavers /\ Counts
    BY DEF ServerInv
  <1>2. /\ \/ /\ main = "test" /\ main' \in {"toaccept", "join"} /\ k' = k
           \/ main = "toaccept" /\ main' = "accept" /\ k' = k
           \/ main = "join" /\ main' = "tell" /\ k' = 1 /\ at = "over"
           \/ main = "sleep" /\ main' = "deinit" /\ k' = k
           \/ main = "deinit" /\ main' = "ended" /\ k' = k
        /\ UNCHANGED <<newcomer, at, i, checked, errno, is_acceptor_running, is_poller_running,
                       signalled, pending, fds, size, q, peer, made>>
    BY DEF AcceptorTest, Join, Deinit, polling, flags, tables
  <1>3. Places' /\ Peers'
    BY <1>2, TablesStay
  <1>4. Types'
    <2>1. main' \in {"toaccept", "join", "accept", "tell", "deinit", "ended"}
      BY <1>2
    <2>2. k' \in 1 .. 3 * MaxWorkers + 1
      <3>1. k \in 1 .. 3 * MaxWorkers + 1 /\ MaxWorkers \in Nat \ {0}
        BY <1>1, Zenon DEF Types, ConstantsOK
      <3>2. k' = k \/ k' = 1
        BY <1>2
      <3>3. QED
        BY <3>1, <3>2
    <2>3. QED
      BY <1>1, <1>2, <2>1, <2>2 DEF Types, ClientsGoOn, Gone
  <1>5. Threads'
    BY <1>1, <1>2 DEF Threads, ConstantsOK
  <1>6. Told'
    <2>1. CASE main = "join"
      <3>1. main' = "tell" /\ k' = 1
        BY <1>2, <2>1
      <3>2. ASSUME NEW s \in Stages, NEW slot \in Slots PROVE ~(Turn(s, slot) < 1)
        BY DEF Turn, Stages, Slots, ConstantsOK
      <3>3. QED
        BY <3>1, <3>2 DEF Told, Turn
    <2>2. CASE main # "join"
      BY <1>1, <1>2, <2>2, ToldStays
    <2>3. QED
      BY <2>1, <2>2
  <1>7. Leavers'
    BY <1>1, <1>2, LeaversStay
  <1>8. Counts'
    BY <1>1, <1>2, CountsStay
  <1>9. QED
    BY <1>3, <1>4, <1>5, <1>6, <1>7, <1>8 DEF ServerInv

\* While the polling thread is in its loop, main has not begun to tell the workers.
LEMMA LoopRuns ==
    ASSUME Threads, at \notin {"absent", "over"}
    PROVE  main \notin {"create", "tell", "sleep", "deinit", "ended"}
  BY DEF Threads

LEMMA PollerWaits ==
    ASSUME ConstantsOK, ServerInv, ClientsGoOn, EnterStage \/ PollerTest
    PROVE  ServerInv'
  <1>1. Types /\ Threads /\ Told /\ Leavers /\ Counts
    BY DEF ServerInv
  <1>2. UNCHANGED <<main, newcomer, k, checked, errno, is_acceptor_running, is_poller_running,
                    signalled, pending, fds, size, q, peer, made>>
    BY DEF EnterStage, PollerTest, flags, tables
  <1>3. /\ at \notin {"absent", "over"} /\ i = 0 /\ i' \in {0, 1}
        /\ \/ at' \in {"give second", "give third"}
           \/ i' = 0 /\ at' \in {"sleep", "first"}
           \/ i' = 0 /\ at' = "over" /\ ~is_poller_running
           \/ i' = 1 /\ at' = at /\ at # "sleep"
    <2>1. CASE PollerTest
      BY <1>1, <2>1 DEF PollerTest, Threads
    <2>2. CASE EnterStage
      <3>1. i = 0 /\ at \in {"first", "give second", "give third"}
        BY <2>2, Zenon DEF EnterStage
      <3>2. \/ at' = (IF at = "give second" THEN "give third" ELSE After[at]) /\ i' = i
            \/ i' = 1 /\ at' = at
        BY <2>2, Zenon DEF EnterStage
      <3>3. After["first"] = "give second" /\ After["give third"] = "sleep"
        BY DEF After
      <3>4. QED
        BY <3>1, <3>2, <3>3
    <2>3. QED
      BY <2>1, <2>2
  <1>4. main \notin {"create", "tell", "sleep", "deinit", "ended"}
    BY <1>1, <1>3, LoopRuns
  <1>5. Places' /\ Peers'
    BY <1>2, <1>3, TablesStay
  <1>6. Types'
    <2>1. i' \in 0 .. MaxWorkers + 1
      <3>1. i' \in {0, 1} /\ MaxWorkers \in Nat \ {0}
        BY <1>3, Zenon DEF ConstantsOK
      <3>2. QED
        BY <3>1
    <2>2. at' \in {"first", "give second", "poll second", "give third", "sleep", "over"}
      BY <1>1, <1>3 DEF Types
    <2>3. QED
      BY <1>1, <1>2, <2>1, <2>2 DEF Types, ClientsGoOn
  <1>7. Threads'
    BY <1>1, <1>2, <1>3, <1>4 DEF Threads
  <1>8. Told'
    BY <1>2, <1>4, NobodyIsToldYet
  <1>9. Leavers'
    <2>1. at' = "over" => signalled
      BY <1>1, <1>3 DEF Threads
    <2>2. QED
      BY <1>1, <1>2, <2>1, LeaversStay
  <1>10. Counts'
    BY <1>1, <1>2, CountsStay
  <1>11. QED
    BY <1>5, <1>6, <1>7, <1>8, <1>9, <1>10 DEF ServerInv

LEMMA ResetKeeps ==
    ASSUME ConstantsOK, ServerInv, ClientsGoOn, NEW c \in Clients, ResetArrives(c)
    PROVE  ServerInv'
  <1>1. Types /\ Threads /\ Places /\ Peers /\ Told /\ Leavers /\ Counts
    BY DEF ServerInv
  <1>2. /\ peer[c] = "doomed" /\ peer' = [peer EXCEPT ![c] = "epipe"]
        /\ UNCHANGED <<main, newcomer, k, at, i, checked, errno, is_acceptor_running,
                       is_poller_running, signalled, pending, fds, size, q, made>>
    BY DEF ResetArrives, polling, flags, tables
  <1>3. /\ pending' \subseteq pending /\ newcomer' \in {newcomer, NoClient}
        /\ \A s \in Stages, x \in Slots : fds'[s][x] \in {fds[s][x], NoClient}
    BY <1>2
  <1>4. /\ Places'
        /\ \A d \in Clients : Placed(d, pending', newcomer', fds')
                                 => Placed(d, pending, newcomer, fds)
    BY <1>1, <1>3, PlacesStay
  <1>5. peer \in [Clients -> {"none", "open", "fin", "doomed", "epipe", "reset", "told", "closed"}]
    BY <1>1 DEF Types
  <1>6. peer'[c] = "epipe" /\ \A d \in Clients \ {c} : peer'[d] = peer[d]
    BY <1>2, <1>5
  <1>7. Peers'
    <2>1. pc[c] \in Over
      BY <1>1, <1>2 DEF Peers
    <2>2. pc'[c] \in Over
      BY <2>1 DEF ClientsGoOn
    <2>3. PeerRight(peer'[c], pc'[c] \in Over, told'[c], conn'[c] # "none",
                  Placed(c, pending', newcomer', fds'), at')
      BY <1>6, <2>2 DEF PeerRight
    <2>4. QED
      BY <1>1, <1>2, <1>4, <1>6, <2>3, PeersStay
  <1>8. Types'
    <2>1. peer' \in [Clients -> {"none", "open", "fin", "doomed", "epipe", "reset", "told",
                                 "closed"}]
      BY <1>2, <1>5
    <2>2. QED
      BY <1>1, <1>2, <2>1 DEF Types, ClientsGoOn
  <1>9. Threads'
    BY <1>1, <1>2 DEF Threads
  <1>10. Told'
    BY <1>1, <1>2, ToldStays
  <1>11. Leavers'
    BY <1>1, <1>2, LeaversStay
  <1>12. Counts'
    BY <1>1, <1>2, CountsStay
  <1>13. QED
    BY <1>4, <1>7, <1>8, <1>9, <1>10, <1>11, <1>12 DEF ServerInv

\* A worker connects, works or ends.
LEMMA MovesKeep ==
    ASSUME ConstantsOK, ServerInv, ClientsGoOn, NEW c \in Clients, Moves(c, TRUE)
    PROVE  ServerInv'
  <1>1. Types /\ Threads /\ Places /\ Peers /\ Told /\ Leavers /\ Counts
    BY DEF ServerInv
  <1> DEFINE arrives == conn[c] = "none" /\ conn'[c] = "open"
             ends == pc'[c] \in Over /\ peer[c] = "open"
  <1>2. /\ UNCHANGED <<main, newcomer, k, at, i, checked, errno, is_acceptor_running,
                       is_poller_running, signalled, fds, size, q>>
        /\ made' \in {made, made + 1} /\ made' =< MaxPins
        /\ pending' = IF arrives THEN pending \union {c} ELSE pending
        /\ peer' = [peer EXCEPT ![c] = CASE arrives -> "open"
                                         [] ends -> IF inbox'[c] # <<>> THEN "reset" ELSE "fin"
                                         [] OTHER -> peer[c]]
    <2>1. Client!Ended(c)' <=> pc'[c] \in Over
      BY DEF Client!Ended, Over
    <2>2. /\ UNCHANGED <<main, newcomer, k, at, i, checked, errno, is_acceptor_running,
                         is_poller_running, signalled, fds, size, q>>
          /\ made' \in {made, made + 1} /\ made' =< MaxPins
          /\ pending' = IF arrives THEN pending \union {c} ELSE pending
      BY DEF Moves, polling, flags, tables
    <2>3. peer' = [peer EXCEPT ![c] = CASE arrives -> "open"
                                        [] Client!Ended(c)' /\ peer[c] = "open" ->
                                             IF inbox'[c] # <<>> THEN "reset" ELSE "fin"
                                        [] OTHER -> peer[c]]
      BY Zenon DEF Moves
    <2>4. QED
      BY <2>1, <2>2, <2>3, Zenon
  <1>3. peer \in [Clients -> {"none", "open", "fin", "doomed", "epipe", "reset", "told", "closed"}]
    BY <1>1 DEF Types
  <1>4. /\ \A d \in Clients \ {c} : peer'[d] = peer[d]
        /\ arrives => peer'[c] = "open"
        /\ ~arrives => peer'[c] = peer[c] \/ (pc'[c] \in Over /\ peer'[c] \in {"reset", "fin"})
        /\ ~arrives /\ peer'[c] # peer[c] => peer[c] = "open"
    <2> DEFINE state == CASE arrives -> "open"
                          [] ends -> IF inbox'[c] # <<>> THEN "reset" ELSE "fin"
                          [] OTHER -> peer[c]
    <2>1. /\ arrives => state = "open"
          /\ ~arrives /\ ends => state \in {"reset", "fin"}
          /\ ~arrives /\ ~ends => state = peer[c]
      <3>0. ~(arrives /\ ends)
        BY <1>1 DEF Peers
      <3> HIDE DEF arrives, ends
      <3>1. CASE arrives
        BY <3>0, <3>1
      <3>2. CASE ~arrives /\ ends
        BY <3>2
      <3>3. CASE ~arrives /\ ~ends
        BY <3>3
      <3>4. QED
        BY <3>1, <3>2, <3>3
    <2>2. peer' = [peer EXCEPT ![c] = state]
      BY <1>2
    <2> HIDE DEF state, arrives
    <2>3. peer'[c] = state /\ \A d \in Clients \ {c} : peer'[d] = peer[d]
      BY <1>3, <2>2
    <2>4. QED
      BY <2>1, <2>3
  <1>5. peer' \in [Clients -> {"none", "open", "fin", "doomed", "epipe", "reset", "told", "closed"}]
    <2>1. peer' = [peer EXCEPT ![c] = peer'[c]]
      BY <1>2, <1>3
    <2>2. peer'[c] \in {"none", "open", "fin", "doomed", "epipe", "reset", "told", "closed"}
      BY <1>3, <1>4
    <2> DEFINE state == peer'[c]
    <2> HIDE DEF state
    <2>3. QED
      BY <1>3, <2>1, <2>2 DEF state
  <1> HIDE DEF arrives, ends
  <1>6. Types'
    <2>1. made' \in 0 .. MaxPins
      <3>1. made \in 0 .. MaxPins /\ MaxPins \in Nat
        BY <1>1, Zenon DEF Types, ConstantsOK
      <3>2. QED
        BY <1>2, <3>1
    <2>2. pending' \subseteq Clients
      BY <1>1, <1>2 DEF Types
    <2>3. QED
      BY <1>1, <1>2, <1>5, <2>1, <2>2 DEF Types, ClientsGoOn
  <1>7. Threads'
    BY <1>1, <1>2 DEF Threads
  <1>8. Told'
    BY <1>1, <1>2, ToldStays
  <1>9. Leavers'
    BY <1>1, <1>2, LeaversStay
  <1>10. Counts'
    BY <1>1, <1>2, CountsStay
  <1>11. CASE ~arrives
    <2>1. /\ pending' \subseteq pending /\ newcomer' \in {newcomer, NoClient}
          /\ \A s \in Stages, x \in Slots : fds'[s][x] \in {fds[s][x], NoClient}
      BY <1>2, <1>11
    <2>2. /\ Places'
          /\ \A d \in Clients : Placed(d, pending', newcomer', fds')
                                   => Placed(d, pending, newcomer, fds)
      BY <1>1, <2>1, PlacesStay
    <2>3. PeerRight(peer'[c], pc'[c] \in Over, told'[c], conn'[c] # "none",
                  Placed(c, pending', newcomer', fds'), at')
      <3>1. CASE peer'[c] = peer[c]
        BY <1>1, <1>2, <2>2, <3>1 DEF PeerRight, Peers, ClientsGoOn
      <3>2. CASE peer'[c] # peer[c]
        BY <1>4, <1>11, <3>2 DEF PeerRight
      <3>3. QED
        BY <3>1, <3>2
    <2>4. Peers'
      BY <1>1, <1>2, <1>4, <2>2, <2>3, PeersStay
    <2>5. QED
      BY <1>6, <1>7, <1>8, <1>9, <1>10, <2>2, <2>4 DEF ServerInv
  <1>12. CASE arrives
    <2>1. conn[c] = "none" /\ conn'[c] # "none"
      BY <1>12 DEF arrives
    <2>2. ~Placed(c, pending, newcomer, fds)
      BY <1>1, <2>1 DEF Places
    <2>3. ASSUME NEW d \in Clients \ {c}
          PROVE  Placed(d, pending', newcomer', fds') => Placed(d, pending, newcomer, fds)
      BY <1>2 DEF Placed
    <2>4. PeerRight(peer'[c], pc'[c] \in Over, told'[c], conn'[c] # "none",
                  Placed(c, pending', newcomer', fds'), at')
      <3>1. peer'[c] = "open" /\ conn'[c] # "none"
        BY <1>4, <1>12, <2>1
      <3>2. QED
        BY <3>1 DEF PeerRight
    <2>5. Peers'
      BY <1>1, <1>2, <1>4, <2>3, <2>4, PeersStay
    <2>6. Places'
      <3>1. ASSUME NEW d \in Clients
            PROVE  /\ conn'[d] = "none" => ~Placed(d, pending', newcomer', fds')
                   /\ d \in pending' => d # newcomer' /\ ~Holds(fds', d)
                   /\ d = newcomer' => ~Holds(fds', d)
        <4>1. CASE d = c
          BY <1>2, <2>1, <2>2, <4>1 DEF Placed
        <4>2. CASE d # c
          BY <1>1, <1>2, <2>3, <4>2 DEF Places, ClientsGoOn
        <4>3. QED
          BY <4>1, <4>2
      <3>2. Unique(fds')
        BY <1>1, <1>2 DEF Places
      <3>3. QED
        BY <3>1, <3>2, Zenon DEF Places
    <2>7. QED
      BY <1>6, <1>7, <1>8, <1>9, <1>10, <2>5, <2>6 DEF ServerInv
  <1>13. QED
    BY <1>11, <1>12

-----------------------------------------------------------------------------
(* The steps that change the arrays.                                       *)

\* A new value in one slot.
LEMMA TableSet ==
    ASSUME NEW f \in [Stages -> [Slots -> Clients \union {NoClient}]], NEW s \in Stages,
           NEW x \in Slots, NEW v \in Clients \union {NoClient}, NEW g,
           g = [f EXCEPT ![s][x] = v]
    PROVE  /\ g \in [Stages -> [Slots -> Clients \union {NoClient}]] /\ g[s][x] = v
           /\ \A t \in Stages, y \in Slots : t # s \/ y # x => g[t][y] = f[t][y]
  OBVIOUS

\* The sizes keep up with it.
LEMMA TakenOnes ==
    ASSUME ConstantsOK, NEW f, NEW s
    PROVE  /\ IsFiniteSet(Taken(f, s)) /\ Cardinality(Taken(f, s)) \in 0 .. MaxWorkers
           /\ \A x \in Slots : x \notin Taken(f, s) =>
                 /\ Cardinality(Taken(f, s) \union {x}) = Cardinality(Taken(f, s)) + 1
                 /\ Cardinality(Taken(f, s)) + 1 =< MaxWorkers
           /\ \A x \in Taken(f, s) :
                 Cardinality(Taken(f, s) \ {x}) = Cardinality(Taken(f, s)) - 1
  <1>1. MaxWorkers \in Nat /\ 1 \in Int
    BY DEF ConstantsOK
  <1>2. IsFiniteSet(Slots) /\ Cardinality(Slots) = MaxWorkers
    BY <1>1, FS_Interval DEF Slots
  <1>3. Taken(f, s) \subseteq Slots
    BY DEF Taken
  <1>4. /\ IsFiniteSet(Taken(f, s)) /\ Cardinality(Taken(f, s)) =< MaxWorkers
        /\ Cardinality(Taken(f, s)) \in Nat
    BY <1>2, <1>3, FS_Subset, FS_CardinalityType
  <1>5. ASSUME NEW x \in Slots, x \notin Taken(f, s)
        PROVE  /\ Cardinality(Taken(f, s) \union {x}) = Cardinality(Taken(f, s)) + 1
               /\ Cardinality(Taken(f, s)) + 1 =< MaxWorkers
    <2>1. Cardinality(Taken(f, s) \union {x}) = Cardinality(Taken(f, s)) + 1
      BY <1>4, <1>5, FS_AddElement
    <2>2. Taken(f, s) \union {x} \subseteq Slots
      BY <1>3
    <2>3. Cardinality(Taken(f, s) \union {x}) =< MaxWorkers
      BY <1>2, <2>2, FS_Subset
    <2>4. QED
      BY <2>1, <2>3
  <1>6. ASSUME NEW x \in Taken(f, s)
        PROVE  Cardinality(Taken(f, s) \ {x}) = Cardinality(Taken(f, s)) - 1
    BY <1>4, FS_RemoveElement
  <1>7. QED
    BY <1>1, <1>4, <1>5, <1>6

\* A connection that is not held any more may be closed.
LEMMA ClosedPeer ==
    ASSUME Types, Peers, ClientsGoOn, at = "over" => at' = "over", NEW c \in Clients,
           peer' = [peer EXCEPT ![c] = "closed"],
           \A d \in Clients \ {c} :
              Placed(d, pending', newcomer', fds') => Placed(d, pending, newcomer, fds),
           ~Placed(c, pending', newcomer', fds')
    PROVE  /\ Peers'
           /\ peer' \in [Clients -> {"none", "open", "fin", "doomed", "epipe", "reset", "told",
                                     "closed"}]
  <1>1. peer \in [Clients -> {"none", "open", "fin", "doomed", "epipe", "reset", "told", "closed"}]
    BY DEF Types
  <1>2. peer'[c] = "closed" /\ \A d \in Clients \ {c} : peer'[d] = peer[d]
    BY <1>1
  <1>3. PeerRight(peer'[c], pc'[c] \in Over, told'[c], conn'[c] # "none",
                  Placed(c, pending', newcomer', fds'), at')
    BY <1>2 DEF PeerRight
  <1>4. Peers'
    BY <1>2, <1>3, PeersStay
  <1>5. QED
    BY <1>1, <1>4

LEMMA AcceptKeeps ==
    ASSUME ConstantsOK, ServerInv, ClientsGoOn, NEW c \in Clients, Accept(c)
    PROVE  ServerInv'
  <1>1. Types /\ Threads /\ Places /\ Peers /\ Told /\ Leavers /\ Counts
    BY DEF ServerInv
  <1>2. /\ main = "accept" /\ c \in pending /\ pending' = pending \ {c}
        /\ UNCHANGED <<k, at, i, checked, errno, is_acceptor_running, is_poller_running,
                       signalled, fds, size, q, made>>
        /\ \/ main' = "insert" /\ newcomer' = c /\ peer' = peer
           \/ /\ main' = "test" /\ newcomer' = newcomer
              /\ peer' = [peer EXCEPT ![c] = "closed"]
    BY DEF Accept, Refuse, PeerBecomes, polling, flags, tables
  <1>3. c # newcomer /\ ~Holds(fds, c) /\ c # NoClient
    BY <1>1, <1>2 DEF Places, ConstantsOK
  <1>4. Threads'
    BY <1>1, <1>2, <1>3 DEF Threads
  <1>5. Told'
    BY <1>2, NobodyIsToldYet
  <1>6. Leavers'
    BY <1>1, <1>2, LeaversStay
  <1>7. Counts'
    BY <1>1, <1>2, CountsStay
  <1>8. CASE main' = "insert" /\ newcomer' = c /\ peer' = peer
    <2>1. ASSUME NEW d \in Clients
          PROVE  Placed(d, pending', newcomer', fds') => Placed(d, pending, newcomer, fds)
      BY <1>2, <1>8 DEF Placed
    <2>2. Places'
      <3>1. ASSUME NEW d \in Clients
            PROVE  /\ conn'[d] = "none" => ~Placed(d, pending', newcomer', fds')
                   /\ d \in pending' => d # newcomer' /\ ~Holds(fds', d)
                   /\ d = newcomer' => ~Holds(fds', d)
        BY <1>1, <1>2, <1>3, <1>8, <2>1 DEF Places, ClientsGoOn
      <3>2. Unique(fds')
        BY <1>1, <1>2 DEF Places
      <3>3. QED
        BY <3>1, <3>2, Zenon DEF Places
    <2>3. Peers'
      <3>1. NoClient \notin Clients
        BY DEF ConstantsOK
      <3>2. QED
        BY <1>1, <1>2, <1>8, <2>1, <3>1, PeersStay
    <2>4. Types'
      BY <1>1, <1>2, <1>8 DEF Types, ClientsGoOn
    <2>5. QED
      BY <1>4, <1>5, <1>6, <1>7, <2>2, <2>3, <2>4 DEF ServerInv
  <1>9. CASE /\ main' = "test" /\ newcomer' = newcomer
             /\ peer' = [peer EXCEPT ![c] = "closed"]
    <2>1. /\ pending' \subseteq pending /\ newcomer' \in {newcomer, NoClient}
          /\ \A s \in Stages, x \in Slots : fds'[s][x] \in {fds[s][x], NoClient}
      BY <1>2, <1>9
    <2>2. /\ Places'
          /\ \A d \in Clients : Placed(d, pending', newcomer', fds')
                                   => Placed(d, pending, newcomer, fds)
      BY <1>1, <2>1, PlacesStay
    <2>3. ~Placed(c, pending', newcomer', fds')
      BY <1>2, <1>3, <1>9 DEF Placed
    <2>4. /\ Peers'
          /\ peer' \in [Clients -> {"none", "open", "fin", "doomed", "epipe", "reset", "told",
                                    "closed"}]
      BY <1>1, <1>2, <1>9, <2>2, <2>3, ClosedPeer
    <2>5. Types'
      BY <1>1, <1>2, <1>9, <2>4 DEF Types, ClientsGoOn
    <2>6. QED
      BY <1>4, <1>5, <1>6, <1>7, <2>2, <2>4, <2>5 DEF ServerInv
  <1>10. QED
    BY <1>2, <1>8, <1>9

\* A set of natural numbers that is not empty has a least element.
LEMMA LeastNumber ==
    ASSUME NEW S, S \subseteq Nat, S # {}
    PROVE  \E x \in S : \A y \in S : x =< y
  <1> DEFINE less == {p \in Nat \X Nat : p[1] < p[2]}
  <1>1. IsWellFoundedOn(less, Nat)
    BY NatLessThanWellFounded DEF OpToRel
  <1>2. PICK x \in S : \A y \in S : <<y, x>> \notin less
    <2> HIDE DEF less
    <2>1. QED
      BY <1>1, WFMin
  <1>3. ASSUME NEW y \in S PROVE x =< y
    <2>1. <<y, x>> \in Nat \X Nat /\ <<y, x>> \notin less
      BY <1>2
    <2>2. ~(y < x)
      BY <2>1
    <2>3. QED
      BY <2>2
  <1>4. QED
    BY <1>3

LEMMA InsertKeeps ==
    ASSUME ConstantsOK, ServerInv, ClientsGoOn, Insert
    PROVE  ServerInv'
  <1> DEFINE c == newcomer
             s == type[c]
             free == {slot \in Slots : fds[s][slot] = NoClient}
             x == CHOOSE slot \in free : \A y \in free : slot =< y
  <1>1. Types /\ Threads /\ Places /\ Peers /\ Told /\ Leavers /\ Counts
    BY DEF ServerInv
  <1>2. /\ main = "insert" /\ newcomer' = NoClient /\ main' = "test"
        /\ UNCHANGED <<k, at, i, checked, errno, is_acceptor_running, is_poller_running,
                       signalled, pending, q, made>>
        /\ \/ /\ free # {} /\ fds' = [fds EXCEPT ![s][x] = c]
              /\ size' = [size EXCEPT ![s] = @ + 1] /\ peer' = peer
           \/ fds' = fds /\ size' = size /\ peer' = [peer EXCEPT ![c] = "closed"]
    BY Zenon DEF Insert, Refuse, PeerBecomes, polling, flags, tables
  <1>3. c \in Clients /\ c # NoClient /\ s \in Stages /\ c \notin pending /\ ~Holds(fds, c)
    <2>1. c \in Clients
      BY <1>1, <1>2 DEF Types, Threads
    <2>2. QED
      BY <1>1, <2>1 DEF Types, Places, ConstantsOK
  <1>4. NoClient \notin Clients
    BY DEF ConstantsOK
  <1>5. Told'
    BY <1>2, NobodyIsToldYet
  <1>6. Leavers'
    BY <1>1, <1>2, LeaversStay
  <1>7. CASE /\ free # {} /\ fds' = [fds EXCEPT ![s][x] = c]
             /\ size' = [size EXCEPT ![s] = @ + 1] /\ peer' = peer
    <2>1. x \in Slots /\ fds[s][x] = NoClient
      <3>1. free \subseteq Nat
        BY DEF Slots, ConstantsOK
      <3>2. \E slot \in free : \A y \in free : slot =< y
        <4> HIDE DEF free
        <4>1. QED
          BY <1>7, <3>1, LeastNumber, Zenon
      <3>3. x \in free
        <4> HIDE DEF free
        <4>1. QED
          BY <3>2
      <3>4. QED
        BY <3>3
    <2> HIDE DEF x
    <2>2. /\ fds' \in [Stages -> [Slots -> Clients \union {NoClient}]] /\ fds'[s][x] = c
          /\ \A t \in Stages, y \in Slots : t # s \/ y # x => fds'[t][y] = fds[t][y]
      <3>1. fds \in [Stages -> [Slots -> Clients \union {NoClient}]]
        BY <1>1 DEF Types
      <3>2. QED
        BY <1>3, <1>7, <2>1, <3>1, TableSet
    <2>3. ASSUME NEW d \in Clients, Holds(fds', d) PROVE d = c \/ Holds(fds, d)
      BY <2>2, <2>3 DEF Holds
    <2>4. ASSUME NEW d \in Clients
          PROVE  Placed(d, pending', newcomer', fds') => Placed(d, pending, newcomer, fds)
      BY <1>2, <1>4, <2>3 DEF Placed
    <2>5. Unique(fds')
      <3>1. Unique(fds)
        BY <1>1 DEF Places
      <3>2. ASSUME NEW t \in Stages, NEW y \in Slots, t # s \/ y # x
            PROVE  fds'[t][y] = fds[t][y] /\ fds'[t][y] # c
        BY <1>3, <2>2, <3>2 DEF Holds
      <3>3. ASSUME NEW t \in Stages, NEW u \in Stages, NEW y \in Slots, NEW z \in Slots,
                   fds'[t][y] = fds'[u][z], fds'[t][y] # NoClient
            PROVE  t = u /\ y = z
        <4>1. CASE t = s /\ y = x
          BY <2>2, <3>2, <3>3, <4>1
        <4>2. CASE u = s /\ z = x
          BY <2>2, <3>2, <3>3, <4>2
        <4>3. CASE (t # s \/ y # x) /\ (u # s \/ z # x)
          <5>1. fds[t][y] = fds[u][z] /\ fds[t][y] # NoClient
            BY <3>2, <3>3, <4>3
          <5>2. QED
            BY <3>1, <5>1 DEF Unique
        <4>4. QED
          BY <4>1, <4>2, <4>3
      <3>4. QED
        BY <3>3 DEF Unique
    <2>6. Places'
      <3>1. ASSUME NEW d \in Clients
            PROVE  /\ conn'[d] = "none" => ~Placed(d, pending', newcomer', fds')
                   /\ d \in pending' => d # newcomer' /\ ~Holds(fds', d)
                   /\ d = newcomer' => ~Holds(fds', d)
        <4>1. conn'[d] = "none" => ~Placed(d, pending', newcomer', fds')
          BY <1>1, <2>4 DEF Places, ClientsGoOn
        <4>2. d \in pending' => d # newcomer' /\ ~Holds(fds', d)
          BY <1>1, <1>2, <1>3, <1>4, <2>3 DEF Places
        <4>3. d # newcomer'
          BY <1>2, <1>4
        <4>4. QED
          BY <4>1, <4>2, <4>3
      <3>2. QED
        BY <2>5, <3>1, Zenon DEF Places
    <2>7. Peers'
      BY <1>1, <1>2, <1>4, <1>7, <2>4, PeersStay
    <2>8. Types'
      BY <1>1, <1>2, <1>4, <1>7, <2>2 DEF Types, ClientsGoOn, Gone
    <2>9. Threads'
      <3>1. checked => Ready(at, i, fds', q)
        <4>1. ASSUME checked PROVE StageOf(at) \in Stages /\ Ready(at, i, fds, q)
          BY <1>1, <4>1 DEF Threads, StageOf, Stages
        <4>2. QED
          BY <1>3, <2>1, <2>2, <4>1 DEF Ready
      <3>2. at # "absent"
        BY <1>1, <1>2 DEF Threads
      <3>3. QED
        BY <1>1, <1>2, <3>1, <3>2 DEF Threads
    <2>10. Counts'
      <3>1. x \notin Taken(fds, s) /\ Taken(fds', s) = Taken(fds, s) \union {x}
        BY <1>3, <2>1, <2>2 DEF Taken
      <3>2. \A t \in Stages \ {s} : Taken(fds', t) = Taken(fds, t)
        BY <2>2 DEF Taken
      <3>3. /\ size \in [Stages -> 0 .. MaxWorkers]
            /\ \A t \in Stages : size[t] = Cardinality(Taken(fds, t))
        BY <1>1, <1>2 DEF Counts
      <3>4. /\ Cardinality(Taken(fds', s)) = size[s] + 1
            /\ size[s] + 1 \in 0 .. MaxWorkers
        <4>1. Cardinality(Taken(fds, s)) = size[s]
          BY <1>3, <3>3
        <4>2. /\ Cardinality(Taken(fds, s)) \in 0 .. MaxWorkers
              /\ Cardinality(Taken(fds, s) \union {x}) = Cardinality(Taken(fds, s)) + 1
              /\ Cardinality(Taken(fds, s)) + 1 =< MaxWorkers
          BY <2>1, <3>1, TakenOnes
        <4>3. MaxWorkers \in Nat
          BY DEF ConstantsOK
        <4>4. QED
          BY <3>1, <4>1, <4>2, <4>3
      <3>5. /\ size' \in [Stages -> 0 .. MaxWorkers] /\ size'[s] = size[s] + 1
            /\ \A t \in Stages \ {s} : size'[t] = size[t]
        BY <1>3, <1>7, <3>3, <3>4
      <3>6. ASSUME NEW t \in Stages PROVE size'[t] = Cardinality(Taken(fds', t))
        BY <3>2, <3>3, <3>4, <3>5
      <3>7. QED
        BY <3>5, <3>6 DEF Counts, Taken
    <2>11. QED
      BY <1>5, <1>6, <2>6, <2>7, <2>8, <2>9, <2>10 DEF ServerInv
  <1>8. CASE fds' = fds /\ size' = size /\ peer' = [peer EXCEPT ![c] = "closed"]
    <2>1. /\ pending' \subseteq pending /\ newcomer' \in {newcomer, NoClient}
          /\ \A t \in Stages, y \in Slots : fds'[t][y] \in {fds[t][y], NoClient}
      BY <1>2, <1>8
    <2>2. /\ Places'
          /\ \A d \in Clients : Placed(d, pending', newcomer', fds')
                                   => Placed(d, pending, newcomer, fds)
      BY <1>1, <2>1, PlacesStay
    <2>3. ~Placed(c, pending', newcomer', fds')
      BY <1>2, <1>3, <1>8 DEF Placed
    <2>4. /\ Peers'
          /\ peer' \in [Clients -> {"none", "open", "fin", "doomed", "epipe", "reset", "told",
                                    "closed"}]
      BY <1>1, <1>2, <1>3, <1>8, <2>2, <2>3, ClosedPeer
    <2>5. Types'
      BY <1>1, <1>2, <1>8, <2>4 DEF Types, ClientsGoOn, Gone
    <2>6. Threads'
      BY <1>1, <1>2, <1>8 DEF Threads
    <2>7. Counts'
      BY <1>1, <1>2, <1>8, CountsStay
    <2>8. QED
      BY <1>5, <1>6, <2>2, <2>4, <2>5, <2>6, <2>7 DEF ServerInv
  <1>9. QED
    BY <1>2, <1>7, <1>8

-----------------------------------------------------------------------------
(* The end of the server.                                                  *)

\* SIGPIPE: the peer is the worker who has left.
LEMMA DiesKeeps ==
    ASSUME ConstantsOK, ServerInv, ClientsGoOn, Dies, NEW c \in Clients, peer[c] = "epipe",
           at # "absent", main \notin {"sleep", "deinit", "ended"}
    PROVE  ServerInv'
  <1>1. Types /\ Threads /\ Peers /\ Counts
    BY DEF ServerInv
  <1>2. /\ main' = "killed"
        /\ UNCHANGED <<newcomer, k, at, i, checked, errno, is_acceptor_running,
                       is_poller_running, signalled, pending, fds, size, q, peer, made>>
    BY DEF Dies, polling, flags, tables
  <1>3. Places' /\ Peers'
    BY <1>2, TablesStay
  <1>4. Types'
    BY <1>1, <1>2 DEF Types, ClientsGoOn, Gone
  <1>5. Threads'
    BY <1>1, <1>2 DEF Threads
  <1>6. Told'
    BY <1>2, NobodyIsToldYet
  <1>7. Leavers'
    <2>1. pc[c] \in Over
      BY <1>1 DEF Peers
    <2>2. pc'[c] \in Over
      BY <2>1 DEF ClientsGoOn
    <2>3. QED
      BY <2>2 DEF Leavers
  <1>8. Counts'
    BY <1>1, <1>2, CountsStay
  <1>9. QED
    BY <1>3, <1>4, <1>5, <1>6, <1>7, <1>8 DEF ServerInv

\* The slot whose turn it is.
LEMMA TurnOfSlot ==
    ASSUME ConstantsOK, NEW s \in Stages, NEW slot \in Slots, Turn(s, slot) = k
    PROVE  /\ s = CASE k =< MaxWorkers -> "first" [] k > 2 * MaxWorkers -> "third"
                    [] OTHER -> "second"
           /\ slot = ((k - 1) % MaxWorkers) + 1
  <1>1. MaxWorkers \in Nat \ {0} /\ slot \in 1 .. MaxWorkers
    BY DEF ConstantsOK, Slots
  <1> DEFINE a == slot - 1
             x == k - 1
  <1>2. a \in 0 .. MaxWorkers - 1
    BY <1>1
  <1>3. CASE s = "first"
    <2>1. k = slot
      BY <1>1, <1>3 DEF Turn
    <2>2. a % MaxWorkers = a
      <3> HIDE DEF a
      <3>1. QED
        BY <1>1, <1>2
    <2>3. QED
      BY <1>1, <1>3, <2>1, <2>2
  <1>4. CASE s = "second"
    <2>1. k = slot + MaxWorkers
      BY <1>4 DEF Turn
    <2>2. x \in Int /\ x = a + MaxWorkers
      BY <1>1, <2>1
    <2>3. x % MaxWorkers = a
      <3> HIDE DEF a, x
      <3>1. QED
        BY <1>1, <1>2, <2>2
    <2>4. k > MaxWorkers /\ ~(k > 2 * MaxWorkers)
      BY <1>1, <2>1
    <2>5. slot = ((k - 1) % MaxWorkers) + 1
      BY <1>1, <2>3
    <2>6. QED
      BY <1>1, <1>4, <2>1, <2>4, <2>5
  <1>5. CASE s = "third"
    <2>1. k = slot + 2 * MaxWorkers
      BY <1>5 DEF Turn
    <2>2. x \in Int /\ x = a + MaxWorkers + MaxWorkers
      BY <1>1, <2>1
    <2>3. x % MaxWorkers = a
      <3> HIDE DEF a, x
      <3>1. QED
        BY <1>1, <1>2, <2>2
    <2>4. ~(k =< MaxWorkers) /\ k > 2 * MaxWorkers
      BY <1>1, <2>1
    <2>5. slot = ((k - 1) % MaxWorkers) + 1
      BY <1>1, <2>3
    <2>6. QED
      BY <1>5, <2>4, <2>5
  <1>6. QED
    BY <1>3, <1>4, <1>5 DEF Stages

\* Who is told now, was told or has gone.
LEMMA ShutdownTells ==
    ASSUME ConstantsOK, ServerInv, ClientsGoOn, at = "over", at' = at, NEW c \in Clients,
           Holds(fds, c), SendShutdown(c, "told"), told \in [Clients -> BOOLEAN],
           UNCHANGED <<pending, newcomer, fds>>
    PROVE  /\ Peers'
           /\ peer' \in [Clients -> {"none", "open", "fin", "doomed", "epipe", "reset", "told",
                                     "closed"}]
           /\ told'[c] \/ pc'[c] \in Over
  <1>1. Types /\ Peers /\ Places
    BY DEF ServerInv
  <1>2. /\ peer[c] \in {"open", "fin", "doomed", "epipe", "reset", "told"}
        /\ peer[c] \in {"fin", "doomed", "epipe", "reset"} => pc[c] \in Over
        /\ peer[c] = "told" => told[c]
    BY <1>1 DEF Peers, Placed
  <1>3. peer \in [Clients -> {"none", "open", "fin", "doomed", "epipe", "reset", "told", "closed"}]
    BY <1>1 DEF Types
  <1>4. \/ peer[c] = "open" /\ Client!Tell(c) /\ peer' = [peer EXCEPT ![c] = "told"]
        \/ peer[c] = "fin" /\ peer' = [peer EXCEPT ![c] = "doomed"]
        \/ peer[c] \notin {"open", "fin"} /\ peer' = [peer EXCEPT ![c] = peer[c]]
    BY Zenon DEF SendShutdown, PeerBecomes
  <1>5. Client!Tell(c) => told'[c]
    <2>1. ASSUME Client!Tell(c) PROVE told' = [told EXCEPT ![c] = TRUE]
      BY <2>1, Zenon DEF Client!Tell
    <2>2. QED
      BY <2>1
  <1>6. \A d \in Clients \ {c} : peer'[d] = peer[d]
    BY <1>3, <1>4
  <1>7. told'[c] \/ pc'[c] \in Over
    <2>1. CASE peer[c] = "open"
      BY <1>4, <1>5, <2>1
    <2>2. CASE peer[c] # "open"
      BY <1>2, <2>2 DEF ClientsGoOn
    <2>3. QED
      BY <2>1, <2>2
  <1>8. PeerRight(peer'[c], pc'[c] \in Over, told'[c], conn'[c] # "none",
                  Placed(c, pending', newcomer', fds'), at')
    <2>1. CASE peer[c] = "open"
      <3>1. peer'[c] = "told" /\ told'[c]
        BY <1>3, <1>4, <1>5, <2>1
      <3>2. QED
        BY <3>1 DEF PeerRight
    <2>2. CASE peer[c] # "open"
      <3>1. peer'[c] \in {peer[c], "doomed"} /\ (peer[c] # "told" => pc'[c] \in Over)
        BY <1>2, <1>3, <1>4, <2>2 DEF ClientsGoOn
      <3>2. peer[c] = "told" => peer'[c] = "told" /\ told'[c]
        BY <1>2, <1>3, <1>4 DEF ClientsGoOn
      <3>3. QED
        BY <1>2, <2>2, <3>1, <3>2 DEF PeerRight
    <2>3. QED
      BY <2>1, <2>2
  <1>9. Peers'
    <2>1. \A d \in Clients \ {c} :
             Placed(d, pending', newcomer', fds') => Placed(d, pending, newcomer, fds)
      OBVIOUS
    <2>2. QED
      BY <1>1, <1>6, <1>8, <2>1, PeersStay
  <1>10. QED
    BY <1>3, <1>4, <1>7, <1>9

LEMMA TellNextKeeps ==
    ASSUME ConstantsOK, ServerInv, ClientsGoOn, told \in [Clients -> BOOLEAN], TellNext
    PROVE  ServerInv'
  <1> DEFINE s == CASE k =< MaxWorkers -> "first" [] k > 2 * MaxWorkers -> "third"
                    [] OTHER -> "second"
             slot == ((k - 1) % MaxWorkers) + 1
             c == fds[s][slot]
             last == k + 1 > 3 * MaxWorkers
  <1>1. Types /\ Threads /\ Places /\ Peers /\ Told /\ Leavers /\ Counts
    BY DEF ServerInv
  <1>2. /\ main = "tell"
        /\ \/ c # NoClient /\ peer[c] = "epipe" /\ Dies
           \/ /\ (c = NoClient /\ peer' = peer) \/ (c # NoClient /\ SendShutdown(c, "told"))
              /\ k' = k + 1
              /\ \/ k' > 3 * MaxWorkers /\ main' = "sleep" /\ size' = [x \in Stages |-> 0]
                 \/ ~(k' > 3 * MaxWorkers) /\ main' = main /\ size' = size
              /\ UNCHANGED <<newcomer, at, i, checked, errno, is_acceptor_running,
                             is_poller_running, signalled, pending, fds, q, made>>
    <2>1. main = "tell"
      BY Zenon DEF TellNext
    <2>2. \/ c # NoClient /\ peer[c] = "epipe" /\ Dies
          \/ /\ (c = NoClient /\ peer' = peer) \/ (c # NoClient /\ SendShutdown(c, "told"))
             /\ k' = k + 1
             /\ \/ k' > 3 * MaxWorkers /\ main' = "sleep" /\ size' = [x \in Stages |-> 0]
                \/ ~(k' > 3 * MaxWorkers) /\ main' = main /\ size' = size
             /\ UNCHANGED <<newcomer, at, i, checked, errno, is_acceptor_running,
                            is_poller_running, signalled, pending, fds, q, made>>
      BY Zenon DEF TellNext, polling, flags
    <2>3. QED
      BY <2>1, <2>2
  <1>3. at = "over" /\ k \in Nat /\ MaxWorkers \in Nat \ {0} /\ k =< 3 * MaxWorkers /\ k >= 1
    <2>1. at = "over" /\ k =< 3 * MaxWorkers
      BY <1>1, <1>2 DEF Threads
    <2>2. k \in 1 .. 3 * MaxWorkers + 1 /\ MaxWorkers \in Nat \ {0}
      BY <1>1, Zenon DEF Types, ConstantsOK
    <2>3. QED
      BY <2>1, <2>2
  <1>4. s \in Stages
    BY DEF Stages
  <1>5. slot \in Slots
    <2> DEFINE x == k - 1
    <2>1. x \in Nat
      BY <1>3
    <2> HIDE DEF x
    <2>2. x % MaxWorkers \in 0 .. MaxWorkers - 1
      BY <1>3, <2>1
    <2>3. QED
      BY <1>3, <2>2 DEF Slots, x
  <1>6. \A t \in Stages, y \in Slots : Turn(t, y) = k => t = s /\ y = slot
    BY TurnOfSlot, Zenon
  <1> HIDE DEF s, slot
  <1>7. c \in Clients \union {NoClient} /\ (c # NoClient => Holds(fds, c))
    BY <1>1, <1>4, <1>5, InSlots DEF Holds
  <1>8. CASE c # NoClient /\ peer[c] = "epipe" /\ Dies
    <2>1. c \in Clients
      BY <1>7, <1>8
    <2>2. QED
      BY <1>2, <1>3, <1>8, <2>1, DiesKeeps
  <1>9. CASE /\ (c = NoClient /\ peer' = peer) \/ (c # NoClient /\ SendShutdown(c, "told"))
             /\ k' = k + 1
             /\ \/ k' > 3 * MaxWorkers /\ main' = "sleep" /\ size' = [x \in Stages |-> 0]
                \/ ~(k' > 3 * MaxWorkers) /\ main' = main /\ size' = size
             /\ UNCHANGED <<newcomer, at, i, checked, errno, is_acceptor_running,
                            is_poller_running, signalled, pending, fds, q, made>>
    <2>1. /\ Peers'
          /\ peer' \in [Clients -> {"none", "open", "fin", "doomed", "epipe", "reset", "told",
                                    "closed"}]
          /\ c # NoClient => told'[c] \/ pc'[c] \in Over
      <3>1. CASE c = NoClient /\ peer' = peer
        <4>1. Peers'
          BY <1>9, <3>1, TablesStay
        <4>2. QED
          BY <1>1, <3>1, <4>1 DEF Types
      <3>2. CASE c # NoClient /\ SendShutdown(c, "told")
        <4>1. c \in Clients /\ Holds(fds, c)
          BY <1>7, <3>2
        <4>2. at' = at /\ UNCHANGED <<pending, newcomer, fds>>
          BY <1>9
        <4> HIDE DEF c
        <4>3. QED
          BY <1>3, <3>2, <4>1, <4>2, ShutdownTells
      <3>3. QED
        BY <1>9, <3>1, <3>2
    <2>2. Places'
      <3>1. /\ pending' \subseteq pending /\ newcomer' \in {newcomer, NoClient}
            /\ \A t \in Stages, y \in Slots : fds'[t][y] \in {fds[t][y], NoClient}
        BY <1>9
      <3>2. QED
        BY <1>1, <3>1, PlacesStay
    <2>3. Types'
      <3>1. k' \in 1 .. 3 * MaxWorkers + 1
        BY <1>3, <1>9
      <3>2. main' \in {"tell", "sleep"}
        BY <1>2, <1>9
      <3>3. QED
        BY <1>1, <1>9, <2>1, <3>1, <3>2 DEF Types, ClientsGoOn
    <2>4. Threads'
      <3>1. main' = "sleep" \/ (main' = "tell" /\ k' =< 3 * MaxWorkers)
        BY <1>2, <1>3, <1>9
      <3>2. QED
        BY <1>1, <1>3, <1>9, <3>1 DEF Threads
    <2>5. Told'
      <3>1. ASSUME NEW t \in Stages, NEW y \in Slots, fds'[t][y] # NoClient,
                   \/ main' \in {"sleep", "deinit", "ended"}
                   \/ main' = "tell" /\ Turn(t, y) < k'
            PROVE  told'[fds'[t][y]] \/ pc'[fds'[t][y]] \in Over
        <4>1. fds' = fds /\ fds[t][y] \in Clients
          BY <1>1, <1>9, <3>1, InSlots
        <4>2. Turn(t, y) \in Nat /\ Turn(t, y) =< 3 * MaxWorkers
          BY <1>3 DEF Turn, Stages, Slots
        <4>3. Turn(t, y) < k + 1
          BY <1>2, <1>3, <1>9, <3>1, <4>2
        <4>4. CASE Turn(t, y) = k
          BY <1>6, <2>1, <3>1, <4>1, <4>4
        <4>5. CASE Turn(t, y) < k
          <5>1. told[fds[t][y]] \/ pc[fds[t][y]] \in Over
            BY <1>1, <1>2, <3>1, <4>1, <4>5 DEF Told
          <5>2. QED
            BY <4>1, <5>1 DEF ClientsGoOn
        <4>6. QED
          BY <1>3, <4>2, <4>3, <4>4, <4>5
      <3>2. QED
        BY <3>1, Zenon DEF Told, Turn
    <2>6. Leavers'
      <3>1. signalled' = signalled /\ at' = at /\ main' # "killed"
        BY <1>2, <1>9
      <3>2. QED
        BY <1>1, <3>1, LeaversStay
    <2>7. Counts'
      <3>1. CASE main' = "sleep" /\ size' = [x \in Stages |-> 0]
        BY <1>3, <3>1 DEF Counts
      <3>2. CASE main' = main /\ size' = size
        BY <1>1, <1>2, <1>9, <3>2, CountsStay
      <3>3. QED
        BY <1>9, <3>1, <3>2
    <2>8. QED
      BY <2>1, <2>2, <2>3, <2>4, <2>5, <2>6, <2>7 DEF ServerInv
  <1>10. QED
    BY <1>2, <1>8, <1>9

-----------------------------------------------------------------------------
(* The polling thread in its loop.                                         *)

\* Where one step of the loop may lead.
Goes ==
    \/ at' = at /\ i \in Slots /\ i' = i + 1 /\ checked' = FALSE
    \/ /\ at' = at /\ i \in Slots /\ i' = i /\ checked' = TRUE
       /\ Ready(at, i, fds, q) /\ fds' = fds /\ q' = q
    \/ /\ at' \in {"give second", "poll second", "give third", "sleep"} /\ checked' = FALSE
       /\ i' \in {0, 1} /\ (at' = "sleep" => i' = 0)
    \/ at' = "over" /\ i' = 0 /\ checked' = FALSE /\ \E c \in Clients : pc'[c] \in Over

LEMMA LoopKeeps ==
    ASSUME ConstantsOK, ServerInv, ClientsGoOn, Goes, i # 0,
           UNCHANGED <<main, newcomer, k, is_acceptor_running, is_poller_running, signalled,
                       pending, made>>,
           fds' \in [Stages -> [Slots -> Clients \union {NoClient}]],
           peer' \in [Clients -> {"none", "open", "fin", "doomed", "epipe", "reset", "told",
                                  "closed"}],
           q' \in [{"second", "third"} -> 0 .. QueueSize], errno' \in {"none", "EAGAIN", "dead"},
           Places', Peers', Counts'
    PROVE  ServerInv'
  <1>1. Types /\ Threads /\ Leavers
    BY DEF ServerInv
  <1>2. at \notin {"absent", "sleep", "over"}
    BY <1>1 DEF Threads
  <1>3. main \notin {"create", "tell", "sleep", "deinit", "ended"}
    BY <1>1, <1>2, LoopRuns
  <1>4. /\ at' \in {"first", "give second", "poll second", "give third", "sleep", "over"}
        /\ i' \in 0 .. MaxWorkers + 1 /\ checked' \in BOOLEAN
    <2>1. MaxWorkers \in Nat \ {0} /\ 1 \in Slots
      BY DEF ConstantsOK, Slots
    <2>2. at \in {"first", "give second", "poll second", "give third"}
      BY <1>1, <1>2 DEF Types
    <2>3. at' \in {"first", "give second", "poll second", "give third", "sleep", "over"}
      BY <2>2 DEF Goes
    <2>4. i' \in 0 .. MaxWorkers + 1
      <3>1. (i \in Slots /\ (i' = i \/ i' = i + 1)) \/ i' = 0 \/ i' = 1
        BY DEF Goes
      <3>2. QED
        BY <2>1, <3>1 DEF Slots
    <2>5. checked' \in BOOLEAN
      BY Zenon DEF Goes
    <2>6. QED
      BY <2>3, <2>4, <2>5
  <1>5. Types'
    <2>1. main' \in {"create", "test", "toaccept", "accept", "insert", "join", "tell", "sleep",
                     "deinit"} \union Gone
      BY <1>1, Zenon DEF Types
    <2>2. QED
      BY <1>1, <1>4, <2>1 DEF Types, ClientsGoOn
  <1>6. Threads'
    <2>1. at' \in {"sleep", "over"} => i' = 0
      BY <1>2 DEF Goes
    <2>2. i' = 0 => ~checked'
      BY DEF Goes, Slots
    <2>3. checked' => Ready(at', i', fds', q')
      BY DEF Goes
    <2>4. QED
      BY <1>1, <1>3, <1>4, <2>1, <2>2, <2>3 DEF Threads
  <1>7. Told'
    BY <1>3, NobodyIsToldYet
  <1>8. Leavers'
    <2>1. CASE at' = "over"
      BY <1>2, <2>1 DEF Goes, Leavers
    <2>2. CASE at' # "over"
      BY <1>1, <2>2, LeaversStay
    <2>3. QED
      BY <2>1, <2>2
  <1>9. QED
    BY <1>5, <1>6, <1>7, <1>8 DEF ServerInv

\* One pin more or less in a ring.
LEMMA RingSet ==
    ASSUME ConstantsOK, Types, NEW r \in {"second", "third"},
           \/ q[r] < QueueSize /\ q' = [q EXCEPT ![r] = @ + 1]
           \/ q[r] > 0 /\ q' = [q EXCEPT ![r] = @ - 1]
    PROVE  q' \in [{"second", "third"} -> 0 .. QueueSize]
  <1>1. q \in [{"second", "third"} -> 0 .. QueueSize] /\ QueueSize \in Nat
    BY Zenon DEF Types, ConstantsOK
  <1>2. CASE q[r] < QueueSize /\ q' = [q EXCEPT ![r] = @ + 1]
    <2>1. q[r] + 1 \in 0 .. QueueSize
      BY <1>1, <1>2
    <2>2. QED
      BY <1>1, <1>2, <2>1
  <1>3. CASE q[r] > 0 /\ q' = [q EXCEPT ![r] = @ - 1]
    <2>1. q[r] - 1 \in 0 .. QueueSize
      BY <1>1, <1>3
    <2>2. QED
      BY <1>1, <1>3, <2>1
  <1>4. QED
    BY <1>2, <1>3

\* The slot that the thread has checked.
LEMMA CheckedSlot ==
    ASSUME Types, Threads, checked
    PROVE  /\ i # 0 /\ i \in Slots /\ StageOf(at) \in Stages
           /\ at \in {"first", "give second", "poll second", "give third"}
           /\ Ring(at) \in {"second", "third"}
           /\ fds[StageOf(at)][i] \in Clients /\ fds[StageOf(at)][i] # NoClient
           /\ at \in Gives => q[Ring(at)] > 0
           /\ at \notin Gives => q[Ring(at)] < QueueSize
  <1>1. i # 0 /\ at \notin {"absent", "sleep", "over"} /\ Ready(at, i, fds, q)
    BY DEF Threads
  <1>2. at \in {"first", "give second", "poll second", "give third"}
    BY <1>1 DEF Types
  <1>3. StageOf(at) \in Stages /\ Ring(at) \in {"second", "third"}
    BY DEF StageOf, Ring, Stages
  <1>4. i \in Slots /\ fds[StageOf(at)][i] # NoClient
    BY <1>1 DEF Ready
  <1>5. fds[StageOf(at)][i] \in Clients
    BY <1>3, <1>4, InSlots
  <1>6. QED
    BY <1>1, <1>2, <1>3, <1>4, <1>5 DEF Ready

\* A worker is taken out of its slot and its connection is closed.
LEMMA RemoveKeeps ==
    ASSUME ConstantsOK, ServerInv, ClientsGoOn, NEW c \in Clients, i \in Slots,
           c = fds[StageOf(at)][i], at # "over", Remove(c),
           UNCHANGED <<main, newcomer, pending>>
    PROVE  /\ fds' \in [Stages -> [Slots -> Clients \union {NoClient}]]
           /\ peer' \in [Clients -> {"none", "open", "fin", "doomed", "epipe", "reset", "told",
                                     "closed"}]
           /\ Places' /\ Peers' /\ Counts'
  <1> DEFINE s == StageOf(at)
  <1>1. Types /\ Threads /\ Places /\ Peers /\ Counts
    BY DEF ServerInv
  <1>2. /\ fds' = [fds EXCEPT ![s][i] = NoClient] /\ size' = [size EXCEPT ![s] = @ - 1]
        /\ peer' = [peer EXCEPT ![c] = "closed"]
    BY DEF Remove, PeerBecomes
  <1>3. s \in Stages /\ NoClient \notin Clients
    BY DEF StageOf, Stages, ConstantsOK
  <1> HIDE DEF s
  <1>4. c = fds[s][i] /\ Holds(fds, c)
    BY <1>3 DEF s, Holds
  <1>5. /\ fds' \in [Stages -> [Slots -> Clients \union {NoClient}]] /\ fds'[s][i] = NoClient
        /\ \A t \in Stages, y \in Slots : t # s \/ y # i => fds'[t][y] = fds[t][y]
    <2>1. fds \in [Stages -> [Slots -> Clients \union {NoClient}]]
      BY <1>1 DEF Types
    <2>2. QED
      BY <1>2, <1>3, <2>1, TableSet
  <1>6. /\ Places'
        /\ \A d \in Clients : Placed(d, pending', newcomer', fds')
                                 => Placed(d, pending, newcomer, fds)
    <2>1. \A t \in Stages, y \in Slots : fds'[t][y] \in {fds[t][y], NoClient}
      BY <1>5
    <2>2. pending' \subseteq pending /\ newcomer' \in {newcomer, NoClient}
      OBVIOUS
    <2>3. QED
      BY <1>1, <2>1, <2>2, PlacesStay
  <1>7. ~Placed(c, pending', newcomer', fds')
    <2>1. Unique(fds) /\ c \notin pending /\ c # newcomer
      BY <1>1, <1>4 DEF Places
    <2>2. ASSUME NEW t \in Stages, NEW y \in Slots PROVE fds'[t][y] # c
      <3>1. CASE t = s /\ y = i
        BY <1>3, <1>5, <3>1
      <3>2. CASE t # s \/ y # i
        <4>1. fds[t][y] # c
          BY <1>3, <1>4, <2>1, <3>2 DEF Unique
        <4>2. QED
          BY <1>5, <3>2, <4>1
      <3>3. QED
        BY <3>1, <3>2
    <2>3. QED
      BY <2>1, <2>2 DEF Placed, Holds
  <1>8. /\ Peers'
        /\ peer' \in [Clients -> {"none", "open", "fin", "doomed", "epipe", "reset", "told",
                                  "closed"}]
    BY <1>1, <1>2, <1>6, <1>7, ClosedPeer
  <1>9. Counts'
    <2>1. i \in Taken(fds, s) /\ Taken(fds', s) = Taken(fds, s) \ {i}
      BY <1>3, <1>4, <1>5 DEF Taken
    <2>2. \A t \in Stages \ {s} : Taken(fds', t) = Taken(fds, t)
      BY <1>5 DEF Taken
    <2>3. CASE main \in {"sleep", "deinit", "ended"}
      <3>1. at = "absent" /\ Empty(fds)
        BY <1>1, <2>3 DEF Threads
      <3>2. QED
        BY <1>3, <1>4, <3>1 DEF Empty
    <2>4. CASE main \notin {"sleep", "deinit", "ended"}
      <3>1. /\ size \in [Stages -> 0 .. MaxWorkers]
            /\ \A t \in Stages : size[t] = Cardinality(Taken(fds, t))
        BY <1>1, <2>4 DEF Counts
      <3>2. /\ Cardinality(Taken(fds', s)) = size[s] - 1
            /\ size[s] - 1 \in 0 .. MaxWorkers
        <4>1. Cardinality(Taken(fds, s)) = size[s] /\ size[s] \in 0 .. MaxWorkers
          BY <1>3, <3>1
        <4>2. Cardinality(Taken(fds, s) \ {i}) = Cardinality(Taken(fds, s)) - 1
          BY <2>1, TakenOnes
        <4>3. Cardinality(Taken(fds', s)) \in 0 .. MaxWorkers
          BY TakenOnes
        <4>4. MaxWorkers \in Nat
          BY DEF ConstantsOK
        <4>5. QED
          BY <2>1, <4>1, <4>2, <4>3, <4>4
      <3>3. /\ size' \in [Stages -> 0 .. MaxWorkers] /\ size'[s] = size[s] - 1
            /\ \A t \in Stages \ {s} : size'[t] = size[t]
        BY <1>2, <1>3, <3>1, <3>2
      <3>4. ASSUME NEW t \in Stages PROVE size'[t] = Cardinality(Taken(fds', t))
        BY <2>2, <3>1, <3>2, <3>3
      <3>5. QED
        BY <3>3, <3>4 DEF Counts, Taken
    <2>5. QED
      BY <2>3, <2>4
  <1>10. QED
    BY <1>5, <1>6, <1>8, <1>9

\* A step of the loop that is nothing to the arrays and the connections.
LEMMA LoopKeepsTables ==
    ASSUME ConstantsOK, ServerInv, ClientsGoOn, Goes, i # 0,
           UNCHANGED <<main, newcomer, k, is_acceptor_running, is_poller_running, signalled,
                       pending, made, fds, size, peer>>,
           q' \in [{"second", "third"} -> 0 .. QueueSize], errno' \in {"none", "EAGAIN", "dead"}
    PROVE  ServerInv'
  <1>1. Types /\ Threads /\ Counts
    BY DEF ServerInv
  <1>2. at # "over"
    BY <1>1 DEF Threads
  <1>3. Places' /\ Peers'
    BY <1>2, TablesStay
  <1>4. Counts'
    BY <1>1, CountsStay
  <1>5. /\ fds' \in [Stages -> [Slots -> Clients \union {NoClient}]]
        /\ peer' \in [Clients -> {"none", "open", "fin", "doomed", "epipe", "reset", "told",
                                  "closed"}]
    BY <1>1 DEF Types
  <1>6. QED
    BY <1>3, <1>4, <1>5, LoopKeeps

\* A step of the loop that removes the worker in the slot.
LEMMA LoopKeepsRest ==
    ASSUME ConstantsOK, ServerInv, ClientsGoOn, NEW c \in Clients, i \in Slots,
           c = fds[StageOf(at)][i], Remove(c),
           UNCHANGED <<main, newcomer, k, is_acceptor_running, is_poller_running, signalled,
                       pending, made>>,
           q' \in [{"second", "third"} -> 0 .. QueueSize], errno' \in {"none", "EAGAIN", "dead"}
    PROVE  ServerInv'
  <1>1. Types /\ Threads
    BY DEF ServerInv
  <1>2. i # 0 /\ at # "over"
    BY <1>1 DEF Threads, Slots
  <1>3. at' = at /\ i' = i + 1 /\ checked' = FALSE
    BY DEF Remove, NextSlot
  <1>4. Goes
    BY <1>3 DEF Goes
  <1>5. /\ fds' \in [Stages -> [Slots -> Clients \union {NoClient}]]
        /\ peer' \in [Clients -> {"none", "open", "fin", "doomed", "epipe", "reset", "told",
                                  "closed"}]
        /\ Places' /\ Peers' /\ Counts'
    BY <1>2, RemoveKeeps
  <1>6. QED
    BY <1>2, <1>4, <1>5, LoopKeeps

LEMMA AtSlotKeeps ==
    ASSUME ConstantsOK, ServerInv, ClientsGoOn, AtSlot
    PROVE  ServerInv'
  <1> DEFINE s == StageOf(at)
             c == fds[s][i]
             over == \/ i > MaxWorkers \/ size[s] = 0
                     \/ IF at \in Gives THEN q[Ring(at)] = 0 ELSE Full(Ring(at))
  <1>1. Types /\ Threads
    BY DEF ServerInv
  <1>2. /\ i # 0
        /\ UNCHANGED <<main, newcomer, k, is_acceptor_running, is_poller_running, signalled,
                       pending, made, errno, q>>
        /\ \/ LeaveLoop /\ UNCHANGED <<fds, size, peer>>
           \/ ~over /\ c = NoClient /\ NextSlot /\ UNCHANGED <<fds, size, peer>>
           \/ ~over /\ c # NoClient /\ Remove(c)
           \/ ~over /\ c # NoClient /\ checked' = TRUE /\ UNCHANGED <<at, i, fds, size, peer>>
    BY Zenon DEF AtSlot, flags, tables
  <1>3. at \in {"first", "give second", "poll second", "give third"}
    BY <1>1, <1>2 DEF Types, Threads
  <1>4. s \in Stages /\ Ring(at) \in {"second", "third"}
    BY DEF StageOf, Stages, Ring
  <1>5. q' \in [{"second", "third"} -> 0 .. QueueSize] /\ errno' \in {"none", "EAGAIN", "dead"}
    BY <1>1, <1>2 DEF Types
  <1>6. ASSUME ~over
        PROVE  /\ i \in Slots
               /\ IF at \in Gives THEN q[Ring(at)] > 0 ELSE q[Ring(at)] < QueueSize
    <2>1. i \in 0 .. MaxWorkers + 1 /\ MaxWorkers \in Nat /\ QueueSize \in Nat
      BY <1>1, Zenon DEF Types, ConstantsOK
    <2>2. q[Ring(at)] \in 0 .. QueueSize
      BY <1>1, <1>4 DEF Types
    <2>3. i \in Slots
      BY <1>2, <1>6, <2>1 DEF Slots
    <2>4. IF at \in Gives THEN q[Ring(at)] # 0 ELSE q[Ring(at)] # QueueSize
      BY <1>6 DEF Full
    <2>5. QED
      BY <2>1, <2>2, <2>3, <2>4
  <1>7. CASE LeaveLoop /\ UNCHANGED <<fds, size, peer>>
    <2>1. /\ at' = After[at] /\ i' = (IF at = "give second" THEN 1 ELSE 0) /\ checked' = FALSE
      BY <1>7 DEF LeaveLoop
    <2>2. /\ After["first"] = "give second" /\ After["give second"] = "poll second"
          /\ After["poll second"] = "give third" /\ After["give third"] = "sleep"
      BY DEF After
    <2>3. Goes
      BY <1>3, <2>1, <2>2 DEF Goes
    <2>4. QED
      BY <1>2, <1>5, <1>7, <2>3, LoopKeepsTables
  <1>8. CASE ~over /\ c = NoClient /\ NextSlot /\ UNCHANGED <<fds, size, peer>>
    <2>1. i \in Slots /\ i' = i + 1 /\ checked' = FALSE /\ at' = at
      BY <1>6, <1>8 DEF NextSlot
    <2>2. Goes
      BY <2>1 DEF Goes
    <2>3. QED
      BY <1>2, <1>5, <1>8, <2>2, LoopKeepsTables
  <1>9. CASE ~over /\ c # NoClient /\ Remove(c)
    <2>1. i \in Slots
      BY <1>6, <1>9
    <2>2. c \in Clients
      BY <1>1, <1>4, <1>9, <2>1, InSlots
    <2>3. QED
      BY <1>2, <1>5, <1>9, <2>1, <2>2, LoopKeepsRest
  <1>10. CASE ~over /\ c # NoClient /\ checked' = TRUE /\ UNCHANGED <<at, i, fds, size, peer>>
    <2>1. /\ i \in Slots
          /\ IF at \in Gives THEN q[Ring(at)] > 0 ELSE q[Ring(at)] < QueueSize
      BY <1>6, <1>10
    <2>2. Ready(at, i, fds, q)
      BY <1>10, <2>1 DEF Ready
    <2>3. Goes
      BY <1>2, <1>10, <2>1, <2>2 DEF Goes
    <2>4. QED
      BY <1>2, <1>5, <1>10, <2>3, LoopKeepsTables
  <1>11. QED
    BY <1>2, <1>7, <1>8, <1>9, <1>10

\* The connection of a worker in a slot, as the polling thread finds it.
LEMMA PeerInSlot ==
    ASSUME ServerInv, checked, NEW c, c = fds[StageOf(at)][i]
    PROVE  /\ peer[c] \in {"open", "fin", "doomed", "epipe", "reset"}
           /\ peer[c] # "open" => pc[c] \in Over
  <1>1. Types /\ Threads /\ Peers
    BY DEF ServerInv
  <1>2. c \in Clients /\ i \in Slots /\ StageOf(at) \in Stages /\ at # "over"
    BY <1>1, CheckedSlot
  <1>3. Placed(c, pending, newcomer, fds)
    BY <1>2 DEF Placed, Holds
  <1>4. QED
    BY <1>1, <1>2, <1>3 DEF Peers

LEMMA PollSlotKeeps ==
    ASSUME ConstantsOK, ServerInv, ClientsGoOn, PollSlot
    PROVE  ServerInv'
  <1> DEFINE c == fds[StageOf(at)][i]
             result == handle_nonblocking_error(errno')
  <1>1. Types /\ Threads /\ Peers
    BY DEF ServerInv
  <1>2. /\ checked /\ at \notin Gives
        /\ UNCHANGED <<main, newcomer, k, is_acceptor_running, is_poller_running, signalled,
                       pending, made>>
        /\ \/ /\ q' = [q EXCEPT ![Ring(at)] = @ + 1] /\ NextSlot
              /\ UNCHANGED <<errno, fds, size, peer>>
           \/ /\ q' = q
              /\ errno' = CASE peer[c] = "open" -> "EAGAIN" [] peer[c] = "reset" -> "dead"
                            [] OTHER -> errno
              /\ \/ NextSlot /\ UNCHANGED <<fds, size, peer>>
                 \/ Remove(c)
                 \/ /\ result = "UNKNOWN_SOCKET_ERROR" /\ Fails /\ UNCHANGED <<fds, size, peer>>
    BY Zenon DEF PollSlot, flags, tables
  <1>3. /\ i # 0 /\ i \in Slots /\ c \in Clients
        /\ at \in {"first", "give second", "poll second", "give third"}
        /\ Ring(at) \in {"second", "third"} /\ q[Ring(at)] < QueueSize
    BY <1>1, <1>2, CheckedSlot
  <1>4. /\ peer[c] \in {"open", "fin", "doomed", "epipe", "reset"}
        /\ peer[c] # "open" => pc[c] \in Over
    BY <1>2, PeerInSlot
  <1> HIDE DEF c
  <1>5. ASSUME NextSlot PROVE Goes
    BY <1>3, <1>5 DEF NextSlot, Goes
  <1>6. /\ q \in [{"second", "third"} -> 0 .. QueueSize]
        /\ errno \in {"none", "EAGAIN", "dead"}
    BY <1>1 DEF Types
  <1>7. CASE /\ q' = [q EXCEPT ![Ring(at)] = @ + 1] /\ NextSlot
             /\ UNCHANGED <<errno, fds, size, peer>>
    <2>1. q' \in [{"second", "third"} -> 0 .. QueueSize]
      BY <1>1, <1>3, <1>7, RingSet
    <2>2. errno' \in {"none", "EAGAIN", "dead"}
      BY <1>6, <1>7
    <2>3. QED
      BY <1>2, <1>3, <1>5, <1>7, <2>1, <2>2, LoopKeepsTables
  <1>8. CASE /\ q' = q
             /\ errno' = CASE peer[c] = "open" -> "EAGAIN" [] peer[c] = "reset" -> "dead"
                           [] OTHER -> errno
             /\ \/ NextSlot /\ UNCHANGED <<fds, size, peer>>
                \/ Remove(c)
                \/ /\ result = "UNKNOWN_SOCKET_ERROR" /\ Fails /\ UNCHANGED <<fds, size, peer>>
    <2>1. q' \in [{"second", "third"} -> 0 .. QueueSize]
      BY <1>6, <1>8
    <2>2. errno' \in {"none", "EAGAIN", "dead"} /\ (peer[c] = "open" => errno' = "EAGAIN")
      BY <1>6, <1>8
    <2>3. CASE NextSlot /\ UNCHANGED <<fds, size, peer>>
      BY <1>2, <1>3, <1>5, <2>1, <2>2, <2>3, LoopKeepsTables
    <2>4. CASE Remove(c)
      BY <1>2, <1>3, <2>1, <2>2, <2>4, LoopKeepsRest DEF c
    <2>5. CASE /\ result = "UNKNOWN_SOCKET_ERROR" /\ Fails /\ UNCHANGED <<fds, size, peer>>
      <3>1. errno' # "EAGAIN"
        BY <2>5 DEF handle_nonblocking_error
      <3>2. pc'[c] \in Over
        BY <1>3, <1>4, <2>2, <3>1 DEF ClientsGoOn
      <3>3. i' = 0 /\ checked' = FALSE /\ at' \in {"give third", "over"}
        BY <2>5 DEF Fails
      <3>4. Goes
        BY <1>3, <3>2, <3>3 DEF Goes
      <3>5. QED
        BY <1>2, <1>3, <2>1, <2>2, <2>5, <3>4, LoopKeepsTables
    <2>6. QED
      BY <1>8, <2>3, <2>4, <2>5
  <1>9. QED
    BY <1>2, <1>7, <1>8

LEMMA GiveSlotKeeps ==
    ASSUME ConstantsOK, ServerInv, ClientsGoOn, GiveSlot
    PROVE  ServerInv'
  <1> DEFINE c == fds[StageOf(at)][i]
  <1>1. Types /\ Threads /\ Peers
    BY DEF ServerInv
  <1>2. /\ checked /\ at \in Gives
        /\ \/ peer[c] = "epipe" /\ Dies
           \/ /\ q' = [q EXCEPT ![Ring(at)] = @ - 1] /\ errno' \in {errno, "EAGAIN", "dead"}
              /\ UNCHANGED <<main, newcomer, k, is_acceptor_running, is_poller_running,
                             signalled, pending, made>>
              /\ \/ NextSlot /\ UNCHANGED <<fds, size, peer>>
                 \/ Remove(c)
                 \/ /\ peer[c] \in {"fin", "doomed"} /\ peer' = [peer EXCEPT ![c] = "doomed"]
                    /\ NextSlot /\ UNCHANGED <<fds, size>>
    BY Zenon DEF GiveSlot, flags, tables, PeerBecomes
  <1>3. /\ i # 0 /\ i \in Slots /\ c \in Clients /\ StageOf(at) \in Stages
        /\ at \in {"first", "give second", "poll second", "give third"}
        /\ Ring(at) \in {"second", "third"} /\ q[Ring(at)] > 0
    BY <1>1, <1>2, CheckedSlot
  <1>4. /\ peer[c] \in {"open", "fin", "doomed", "epipe", "reset"}
        /\ peer[c] # "open" => pc[c] \in Over
    BY <1>2, PeerInSlot
  <1>5. Holds(fds, c)
    BY <1>3 DEF Holds
  <1> HIDE DEF c
  <1>6. CASE peer[c] = "epipe" /\ Dies
    <2>1. at \notin {"absent", "over"}
      BY <1>3
    <2>2. main \notin {"create", "tell", "sleep", "deinit", "ended"}
      BY <1>1, <2>1, LoopRuns
    <2>3. QED
      BY <1>3, <1>6, <2>1, <2>2, DiesKeeps
  <1>7. CASE /\ q' = [q EXCEPT ![Ring(at)] = @ - 1] /\ errno' \in {errno, "EAGAIN", "dead"}
             /\ UNCHANGED <<main, newcomer, k, is_acceptor_running, is_poller_running,
                            signalled, pending, made>>
             /\ \/ NextSlot /\ UNCHANGED <<fds, size, peer>>
                \/ Remove(c)
                \/ /\ peer[c] \in {"fin", "doomed"} /\ peer' = [peer EXCEPT ![c] = "doomed"]
                   /\ NextSlot /\ UNCHANGED <<fds, size>>
    <2>1. q' \in [{"second", "third"} -> 0 .. QueueSize]
      BY <1>1, <1>3, <1>7, RingSet
    <2>2. errno' \in {"none", "EAGAIN", "dead"}
      BY <1>1, <1>7 DEF Types
    <2>3. ASSUME NextSlot PROVE Goes
      BY <1>3, <2>3 DEF NextSlot, Goes
    <2>4. CASE NextSlot /\ UNCHANGED <<fds, size, peer>>
      BY <1>3, <1>7, <2>1, <2>2, <2>3, <2>4, LoopKeepsTables
    <2>5. CASE Remove(c)
      BY <1>3, <1>7, <2>1, <2>2, <2>5, LoopKeepsRest DEF c
    <2>6. CASE /\ peer[c] \in {"fin", "doomed"} /\ peer' = [peer EXCEPT ![c] = "doomed"]
               /\ NextSlot /\ UNCHANGED <<fds, size>>
      <3>1. peer \in [Clients -> {"none", "open", "fin", "doomed", "epipe", "reset", "told",
                                  "closed"}]
        BY <1>1 DEF Types
      <3>2. /\ peer' \in [Clients -> {"none", "open", "fin", "doomed", "epipe", "reset", "told",
                                      "closed"}]
            /\ peer'[c] = "doomed" /\ \A d \in Clients \ {c} : peer'[d] = peer[d]
        BY <1>3, <2>6, <3>1
      <3>3. pc'[c] \in Over
        BY <1>3, <1>4, <2>6 DEF ClientsGoOn
      <3>4. /\ \A t \in Stages, y \in Slots : fds'[t][y] \in {fds[t][y], NoClient}
            /\ pending' \subseteq pending /\ newcomer' \in {newcomer, NoClient}
        BY <1>7, <2>6
      <3>5. Places /\ Counts
        BY DEF ServerInv
      <3>6. /\ Places'
            /\ \A d \in Clients : Placed(d, pending', newcomer', fds')
                                     => Placed(d, pending, newcomer, fds)
        BY <1>1, <3>4, <3>5, PlacesStay
      <3>7. PeerRight(peer'[c], pc'[c] \in Over, told'[c], conn'[c] # "none",
                      Placed(c, pending', newcomer', fds'), at')
        BY <3>2, <3>3 DEF PeerRight
      <3>8. at # "over"
        BY <1>3
      <3>9. Peers'
        BY <1>1, <3>2, <3>6, <3>7, <3>8, PeersStay
      <3>10. fds' \in [Stages -> [Slots -> Clients \union {NoClient}]]
        BY <1>1, <2>6 DEF Types
      <3>11. main' \notin {"sleep", "deinit", "ended"} \/ main' = main
        BY <1>7
      <3>12. Counts'
        BY <1>7, <2>6, <3>5, <3>11, CountsStay
      <3>13. QED
        BY <1>3, <1>7, <2>1, <2>2, <2>3, <2>6, <3>2, <3>6, <3>9, <3>10, <3>12, LoopKeeps
    <2>7. QED
      BY <1>7, <2>4, <2>5, <2>6
  <1>8. QED
    BY <1>2, <1>6, <1>7

-----------------------------------------------------------------------------
(* The theorems.                                                           *)

LEMMA InitInv ==
    ASSUME ConstantsOK, Init
    PROVE  Inv
  <1>1. /\ Client!Init /\ type \in [Clients -> Stages]
        /\ main = "create" /\ newcomer = NoClient /\ k = 1
        /\ at = "absent" /\ i = 0 /\ checked = FALSE /\ errno = "none"
        /\ is_acceptor_running = TRUE /\ is_poller_running = TRUE /\ signalled = FALSE
        /\ pending = {} /\ peer = [c \in Clients |-> "none"] /\ made = 0
        /\ fds = [s \in Stages |-> [slot \in Slots |-> NoClient]]
        /\ size = [s \in Stages |-> 0] /\ q = [s \in {"second", "third"} |-> 0]
    BY DEF Init, WorkersInit, ServerInit
  <1>2. NoClient \notin Clients /\ MaxWorkers \in Nat \ {0} /\ QueueSize \in Nat /\ MaxPins \in Nat
    BY DEF ConstantsOK
  <1>3. Any!Inv
    <2>1. Any!ConstantsOK
      BY DEF ConstantsOK, Any!ConstantsOK
    <2>2. Any!Init
      BY <1>1, SameClients
    <2>3. QED
      BY <2>1, <2>2, Any!InitInv
  <1>4. Empty(fds)
    BY <1>1 DEF Empty
  <1>5. Types
    <2>1. k \in 1 .. 3 * MaxWorkers + 1 /\ i \in 0 .. MaxWorkers + 1
      BY <1>1, <1>2
    <2>2. q \in [{"second", "third"} -> 0 .. QueueSize] /\ made \in 0 .. MaxPins
      BY <1>1, <1>2
    <2>3. fds \in [Stages -> [Slots -> Clients \union {NoClient}]]
      BY <1>1
    <2>4. peer \in [Clients -> {"none", "open", "fin", "doomed", "epipe", "reset", "told",
                                "closed"}]
      BY <1>1
    <2>5. QED
      BY <1>1, <2>1, <2>2, <2>3, <2>4 DEF Types
  <1>6. Threads
    BY <1>1, <1>4 DEF Threads
  <1>7. \A c \in Clients : ~Placed(c, pending, newcomer, fds)
    BY <1>1, <1>2, <1>4 DEF Placed, Holds, Empty
  <1>8. Places
    <2>1. Unique(fds)
      BY <1>4 DEF Unique, Empty
    <2>2. QED
      BY <1>7, <2>1 DEF Places, Placed
  <1>9. Peers
    BY <1>1, <1>7 DEF Peers
  <1>10. Told /\ Leavers
    BY <1>1 DEF Told, Leavers
  <1>11. Counts
    <2>1. \A s \in Stages : Taken(fds, s) = {}
      BY <1>4 DEF Taken, Empty
    <2>2. size \in [Stages -> 0 .. MaxWorkers] /\ \A s \in Stages : size[s] = 0
      BY <1>1, <1>2
    <2>3. QED
      BY <2>1, <2>2, FS_EmptySet DEF Counts
  <1>12. QED
    BY <1>3, <1>5, <1>6, <1>8, <1>9, <1>10, <1>11 DEF Inv, ServerInv

\* The clients' part of the invariant.
LEMMA NextClients ==
    ASSUME ConstantsOK, Inv, Next
    PROVE  Any!Inv' /\ ClientsGoOn
  <1>1. Any!Inv /\ Any!Types /\ Types /\ Threads
    BY Zenon DEF Inv, ServerInv, Any!Inv
  <1>2. Client!Next \/ UNCHANGED workers
    BY <1>1, StepIsClients
  <1>3. [Any!Next]_(Any!vars)
    BY <1>2, SameClients, Zenon DEF workers, Any!vars
  <1>4. Any!Inv'
    <2>1. Any!ConstantsOK
      BY DEF ConstantsOK, Any!ConstantsOK
    <2>2. QED
      BY <1>1, <1>3, <2>1, Any!NextInv
  <1>5. Any!Types'
    BY <1>4, Zenon DEF Any!Inv
  <1>6. QED
    BY <1>1, <1>2, <1>4, <1>5, StepGoesOn

LEMMA NextServer ==
    ASSUME ConstantsOK, ServerInv, ClientsGoOn, told \in [Clients -> BOOLEAN], Next
    PROVE  ServerInv'
  <1>1. CASE Signal
    BY <1>1, SignalKeeps
  <1>2. CASE Main
    <2>1. CASE CreateThread
      BY <2>1, CreateThreadKeeps
    <2>2. CASE AcceptorTest \/ Join \/ Deinit
      BY <2>2, MainWaits
    <2>3. CASE Insert
      BY <2>3, InsertKeeps
    <2>4. CASE TellNext
      BY <2>4, TellNextKeeps
    <2>5. QED
      BY <1>2, <2>1, <2>2, <2>3, <2>4 DEF Main
  <1>3. CASE Poller
    <2>1. CASE EnterStage \/ PollerTest
      BY <2>1, PollerWaits
    <2>2. CASE AtSlot
      BY <2>2, AtSlotKeeps
    <2>3. CASE PollSlot
      BY <2>3, PollSlotKeeps
    <2>4. CASE GiveSlot
      BY <2>4, GiveSlotKeeps
    <2>5. QED
      BY <1>3, <2>1, <2>2, <2>3, <2>4 DEF Poller
  <1>4. ASSUME NEW c \in Clients, Accept(c) PROVE ServerInv'
    BY <1>4, AcceptKeeps
  <1>5. ASSUME NEW c \in Clients, ResetArrives(c) PROVE ServerInv'
    BY <1>5, ResetKeeps
  <1>6. ASSUME NEW c \in Clients,
               \/ WorkerGoesOn(c) \/ WorkerIsInterrupted(c)
               \/ \E crooked \in BOOLEAN : WorkerMakes(c, crooked)
        PROVE  ServerInv'
    <2>1. Moves(c, TRUE)
      BY <1>6, Zenon DEF WorkerGoesOn, WorkerIsInterrupted, WorkerMakes, Moves
    <2>2. QED
      BY <2>1, MovesKeep
  <1>7. QED
    BY <1>1, <1>2, <1>3, <1>4, <1>5, <1>6, Zenon DEF Next

LEMMA NextInv ==
    ASSUME ConstantsOK, Inv, [Next]_vars
    PROVE  Inv'
  <1>1. CASE Next
    <2>1. ServerInv /\ told \in [Clients -> BOOLEAN]
      BY DEF Inv, Any!Inv, Any!Types
    <2>2. Any!Inv' /\ ClientsGoOn
      BY <1>1, NextClients
    <2>3. ServerInv'
      BY <1>1, <2>1, <2>2, NextServer
    <2>4. QED
      BY <2>2, <2>3 DEF Inv
  <1>2. CASE UNCHANGED vars
    <2>1. UNCHANGED <<workers, main, newcomer, k, at, i, checked, errno, is_acceptor_running,
                      is_poller_running, signalled, pending, fds, size, q, peer, made>>
      BY <1>2 DEF vars, polling, flags, tables
    <2>2. Any!Inv'
      <3>1. Any!ConstantsOK /\ Any!Inv
        BY DEF ConstantsOK, Any!ConstantsOK, Inv
      <3>2. [Any!Next]_(Any!vars)
        BY <2>1 DEF workers, Any!vars
      <3>3. QED
        BY <3>1, <3>2, Any!NextInv
    <2>3. ServerInv
      BY DEF Inv
    <2>4. Types' /\ Threads' /\ Places'
      <3>1. Types'
        BY <2>1, <2>3 DEF ServerInv, Types, workers
      <3>2. Threads'
        BY <2>1, <2>3 DEF ServerInv, Threads, Ready, Empty, workers
      <3>3. Places'
        BY <2>1, <2>3 DEF ServerInv, Places, workers
      <3>4. QED
        BY <3>1, <3>2, <3>3
    <2>5. Peers' /\ Told' /\ Leavers' /\ Counts'
      BY <2>1, <2>3 DEF ServerInv, Peers, Told, Leavers, Counts, workers
    <2>6. QED
      BY <2>2, <2>4, <2>5 DEF Inv, ServerInv
  <1>3. QED
    BY <1>1, <1>2

LEMMA InvariantHolds ==
    ConstantsOK /\ Spec => []Inv
  <1> SUFFICES ASSUME ConstantsOK PROVE Spec => []Inv
    OBVIOUS
  <1>1. Init => Inv
    BY InitInv
  <1>2. Inv /\ [Next]_vars => Inv'
    BY NextInv
  <1>3. QED
    BY <1>1, <1>2, PTL DEF Spec

\* The server of mark-4-5 implements the server that TcpClients supposes: accept, recv, send
\* and the end of the process do to the connections only what a client has to be ready for.
THEOREM FirstServerImplementsServer ==
    ConstantsOK /\ Spec => ImplementsServer
  <1> SUFFICES ASSUME ConstantsOK PROVE Spec => ImplementsServer
    OBVIOUS
  <1>1. Init => Client!Init
    BY DEF Init, WorkersInit
  <1>2. Inv /\ [Next]_vars => [Client!Next]_(Client!vars)
    <2> SUFFICES ASSUME Inv, [Next]_vars PROVE [Client!Next]_(Client!vars)
      OBVIOUS
    <2>1. CASE Next
      <3>1. Any!Types /\ Types /\ Threads
        BY Zenon DEF Inv, ServerInv, Any!Inv
      <3>2. QED
        BY <2>1, <3>1, StepIsClients, Zenon DEF workers, Client!vars
    <2>2. CASE UNCHANGED vars
      BY <2>2 DEF vars, workers, Client!vars
    <2>3. QED
      BY <2>1, <2>2
  <1>3. Spec => []Inv
    BY InvariantHolds
  <1>4. QED
    BY <1>1, <1>2, <1>3, PTL DEF Spec, ImplementsServer, Client!Spec

\* server_accept_worker, the arrays of workers and both threads keep their types and sizes;
\* the polling thread or SIGPIPE ends the server without Ctrl-C only after a worker has left
\* (poll_workers, send); send_shutdown_signal_to_all tells everyone who is in an array and
\* has not left.
THEOREM FirstServerTellsWorkers ==
    ConstantsOK /\ Spec => []WorkersAreTold
  <1> SUFFICES ASSUME ConstantsOK PROVE Spec => []WorkersAreTold
    OBVIOUS
  <1>1. Inv => WorkersAreTold
    <2> SUFFICES ASSUME Inv PROVE WorkersAreTold
      OBVIOUS
    <2>1. Types /\ Told /\ Leavers /\ Counts
      BY DEF Inv, ServerInv
    <2>2. Client!TypeOK
      <3>1. Any!ClientsAreRight
        BY Any!InvIsRight DEF Inv
      <3>2. QED
        BY <3>1, SameClients, Zenon DEF Client!ClientsAreRight
    <2>3. TypeOK
      BY <2>1, <2>2 DEF Types, TypeOK, Counts, Taken
    <2>4. EndsOnlyForLeavers
      BY <2>1, Zenon DEF Leavers, EndsOnlyForLeavers, Client!Ended, Over
    <2>5. EveryoneIsTold
      BY <2>1, Zenon DEF Told, EveryoneIsTold, Client!Ended, Over
    <2>6. QED
      BY <2>3, <2>4, <2>5 DEF WorkersAreTold
  <1>2. QED
    BY <1>1, InvariantHolds, PTL

\* The workers of mark-4-5 and their server together: a worker takes the pins it was sent, in
\* their order, mistakes nothing for a pin but the shutdown message, and ends for a reason.
THEOREM WorkersOfFirstServerAreRight ==
    ConstantsOK /\ Spec => []ClientsAreRight
  <1> SUFFICES ASSUME ConstantsOK PROVE Spec => []ClientsAreRight
    OBVIOUS
  <1>1. Inv => ClientsAreRight
    BY SameClients, Any!InvIsRight DEF Inv, ClientsAreRight
  <1>2. QED
    BY <1>1, InvariantHolds, PTL

-----------------------------------------------------------------------------
(* The threads of mark-10 (ServerShutdown).                                *)

\* The threads that main has not created yet do not exist.
Uncreated ==
    /\ step["main"] = "create" =>
          \A n \in 1 .. 3 : n >= turn => step[Shutdown!Created[n]] = "absent"
    /\ step["main"] = "record" =>
          \A n \in 1 .. 3 : n > turn => step[Shutdown!Created[n]] = "absent"

\* Main joins from the first thread on; those before the k-th have ended.
JoinedSoFar ==
    /\ step["main"] \in {"check", "toaccept", "accept", "insert", "checkout"} => turn = 1
    /\ step["main"] = "join" => \A n \in 1 .. 3 : n < turn => Shutdown!Ended(Shutdown!Joined[n])

\* Who has the mutex is at work, or was cancelled at work.
MutexInUse ==
    mutex = "poller" => \/ step["poller"] = "work"
                        \/ step["poller"] = "done" /\ "poller" \in cancelled

ShutdownInv ==
    /\ Shutdown!TypeOK /\ Uncreated /\ JoinedSoFar /\ MutexInUse
    /\ Shutdown!ThreadsEndBeforeDeinit

\* The two orders name the three threads; main is none of them.
LEMMA Orders ==
    /\ Len(Shutdown!Created) = 3 /\ Len(Shutdown!Joined) = 3
    /\ Shutdown!Created[1] = "poller" /\ Shutdown!Created[2] = "logs"
    /\ Shutdown!Created[3] = "handler"
    /\ Shutdown!Joined[1] = "logs" /\ Shutdown!Joined[2] = "poller"
    /\ Shutdown!Joined[3] = "handler"
    /\ \A n \in 1 .. 3 : /\ Shutdown!Created[n] \in Shutdown!Threads
                         /\ Shutdown!Joined[n] \in Shutdown!Threads
    /\ \A t \in Shutdown!Threads : \E n \in 1 .. 3 : Shutdown!Joined[n] = t
  BY DEF Shutdown!Created, Shutdown!Joined, Shutdown!Threads

\* TypeOK is inductive by itself.
LEMMA ShutdownTypeStep == Shutdown!TypeOK /\ [Shutdown!Next]_(Shutdown!vars) => Shutdown!TypeOK'
<1> SUFFICES ASSUME Shutdown!TypeOK, [Shutdown!Next]_(Shutdown!vars) PROVE Shutdown!TypeOK'
    OBVIOUS
<1> USE DEF Shutdown!TypeOK, Shutdown!MainPC, Shutdown!Threads, Shutdown!Actors, Shutdown!Goto,
      Shutdown!shared
<1>1. CASE Shutdown!Signal
      BY <1>1 DEF Shutdown!Signal, Shutdown!StopAllThreads
<1>2. ASSUME NEW a \in Shutdown!Actors, Shutdown!Stopping(a) PROVE Shutdown!TypeOK'
      BY <1>2
        DEF Shutdown!Stopping, Shutdown!TestDisposed, Shutdown!SetFlags, Shutdown!CancelAll
<1>3. CASE Shutdown!Main
  <2>1. CASE Shutdown!CreateThread
        BY <2>1, Orders DEF Shutdown!CreateThread
  <2>2. CASE Shutdown!CreateFails
        BY <2>2 DEF Shutdown!CreateFails, Shutdown!StopAllThreads
  <2>3. CASE Shutdown!RecordThread
    <3>1. Shutdown!Created[turn] \in Shutdown!Threads /\ Len(Shutdown!Created) = 3
          BY Orders
    <3>2. turn' \in 1 .. 3
          BY <2>3, <3>1, turn \in 1 .. 3 DEF Shutdown!RecordThread
    <3>3. step' \in [Shutdown!Threads \union {"main"} -> Shutdown!MainPC \union
                        {"absent", "lock", "work", "wait", "send", "done"}]
          /\ step'["main"] \in Shutdown!MainPC
          BY <2>3 DEF Shutdown!RecordThread
    <3> QED BY <2>3, <3>1, <3>2, <3>3 DEF Shutdown!RecordThread
  <2>4. CASE Shutdown!AcceptorCheck \/ Shutdown!EnterAccept \/ Shutdown!InsertClient
        BY <2>4 DEF Shutdown!AcceptorCheck, Shutdown!EnterAccept, Shutdown!InsertClient
  <2>5. CASE Shutdown!LeaveLoop
        BY <2>5 DEF Shutdown!LeaveLoop, Shutdown!StopAllThreads
  <2>6. CASE Shutdown!JoinThread
        BY <2>6, Orders DEF Shutdown!JoinThread, Shutdown!LastJoin
  <2>7. CASE Shutdown!TellClients \/ Shutdown!SleepBeforeClose \/ Shutdown!Deinit
        BY <2>7 DEF Shutdown!TellClients, Shutdown!SleepBeforeClose, Shutdown!Deinit
  <2> QED BY <1>3, <2>1, <2>2, <2>3, <2>4, <2>5, <2>6, <2>7 DEF Shutdown!Main
<1>4. CASE Shutdown!Network
      BY <1>4 DEF Shutdown!Network, Shutdown!ClientComes, Shutdown!AcceptFails
<1>5. ASSUME NEW t \in Shutdown!Threads, NEW l \in {"lock", "wait", "sleep", "check", "work"},
             \/ Shutdown!LoopCheck(t, l) \/ Shutdown!Sleep(t, l)
             \/ Shutdown!ThreadEnds(t) \/ Shutdown!Cancelled(t)
      PROVE  Shutdown!TypeOK'
  <2>1. CASE Shutdown!LoopCheck(t, l)
        BY <2>1 DEF Shutdown!LoopCheck
  <2>2. CASE Shutdown!Sleep(t, l)
        BY <2>2 DEF Shutdown!Sleep
  <2>3. CASE Shutdown!ThreadEnds(t)
        BY <2>3 DEF Shutdown!ThreadEnds, Shutdown!StopAllThreads
  <2>4. CASE Shutdown!Cancelled(t)
        BY <2>4 DEF Shutdown!Cancelled
  <2> QED BY <1>5, <2>1, <2>2, <2>3, <2>4
<1>6. CASE Shutdown!PollerLocks \/ Shutdown!PollerUnlocks
  <2>1. CASE Shutdown!PollerLocks
        BY <2>1 DEF Shutdown!PollerLocks
  <2>2. CASE Shutdown!PollerUnlocks
        BY ZenonT(60), <2>2 DEF Shutdown!PollerUnlocks
  <2> QED BY <1>6, <2>1, <2>2
<1>7. CASE Shutdown!WaitForLog \/ Shutdown!SendLog \/ Shutdown!HandleManagers
  <2>1. CASE Shutdown!WaitForLog
        BY <2>1 DEF Shutdown!WaitForLog
  <2>2. CASE Shutdown!SendLog
        BY <2>2 DEF Shutdown!SendLog
  <2>3. CASE Shutdown!HandleManagers
    <3>1. PICK l \in {"check", "checkout"} : Shutdown!Goto("handler", l)
          BY <2>3 DEF Shutdown!HandleManagers
    <3>2. logged' \in BOOLEAN
          BY <2>3 DEF Shutdown!HandleManagers
    <3> QED BY <2>3, <3>1, <3>2 DEF Shutdown!HandleManagers
  <2> QED BY <1>7, <2>1, <2>2, <2>3
<1>8. CASE UNCHANGED Shutdown!vars
      BY <1>8 DEF Shutdown!vars
<1> QED
    BY <1>1, <1>2, <1>3, <1>4, <1>5, <1>6, <1>7, <1>8
    DEF Shutdown!Next, Shutdown!Poller, Shutdown!LogsSender, Shutdown!ManagersHandler

\* A thread that has ended stays so: only CreateThread starts one again.
LEMMA EndedStays ==
    ASSUME Shutdown!TypeOK, [Shutdown!Next]_(Shutdown!vars), ~Shutdown!CreateThread,
           NEW t \in Shutdown!Threads, Shutdown!Ended(t)
    PROVE  Shutdown!Ended(t)'
<1> USE DEF Shutdown!TypeOK, Shutdown!Ended, Shutdown!Goto, Shutdown!Threads, Shutdown!Actors
<1>1. CASE Shutdown!Signal
      BY <1>1 DEF Shutdown!Signal, Shutdown!StopAllThreads
<1>2. ASSUME NEW a \in Shutdown!Actors, Shutdown!Stopping(a) PROVE Shutdown!Ended(t)'
      BY <1>2
        DEF Shutdown!Stopping, Shutdown!TestDisposed, Shutdown!SetFlags, Shutdown!CancelAll
<1>3. CASE Shutdown!Main
      BY <1>3 DEF Shutdown!Main, Shutdown!CreateFails, Shutdown!RecordThread,
          Shutdown!AcceptorCheck, Shutdown!EnterAccept, Shutdown!InsertClient,
          Shutdown!LeaveLoop, Shutdown!StopAllThreads, Shutdown!JoinThread,
          Shutdown!TellClients, Shutdown!SleepBeforeClose, Shutdown!Deinit
<1>4. CASE Shutdown!Network
      BY <1>4 DEF Shutdown!Network, Shutdown!ClientComes, Shutdown!AcceptFails
<1>5. ASSUME NEW u \in Shutdown!Threads, NEW l \in {"lock", "wait", "sleep", "check", "work"},
             \/ Shutdown!LoopCheck(u, l) \/ Shutdown!Sleep(u, l)
             \/ Shutdown!ThreadEnds(u) \/ Shutdown!Cancelled(u)
      PROVE  Shutdown!Ended(t)'
  <2>1. CASE Shutdown!LoopCheck(u, l)
        BY <2>1 DEF Shutdown!LoopCheck
  <2>2. CASE Shutdown!Sleep(u, l)
        BY <2>2 DEF Shutdown!Sleep
  <2>3. CASE Shutdown!ThreadEnds(u)
        BY <2>3 DEF Shutdown!ThreadEnds, Shutdown!StopAllThreads
  <2>4. CASE Shutdown!Cancelled(u)
        BY <2>4 DEF Shutdown!Cancelled
  <2> QED BY <1>5, <2>1, <2>2, <2>3, <2>4
<1>6. CASE Shutdown!PollerLocks \/ Shutdown!PollerUnlocks
      BY <1>6 DEF Shutdown!PollerLocks, Shutdown!PollerUnlocks
<1>7. CASE Shutdown!WaitForLog \/ Shutdown!SendLog \/ Shutdown!HandleManagers
      BY <1>7 DEF Shutdown!WaitForLog, Shutdown!SendLog, Shutdown!HandleManagers
<1>8. CASE UNCHANGED Shutdown!vars
      BY <1>8 DEF Shutdown!vars
<1> QED
    BY <1>1, <1>2, <1>3, <1>4, <1>5, <1>6, <1>7, <1>8
    DEF Shutdown!Next, Shutdown!Poller, Shutdown!LogsSender, Shutdown!ManagersHandler

\* A step in stop_all_threads or of a thread leaves main where it is, starts no
\* thread, and keeps MutexInUse.
LEMMA ThreadsGoOn ==
    ASSUME Shutdown!TypeOK, MutexInUse, [Shutdown!Next]_(Shutdown!vars),
           ~Shutdown!Signal, ~Shutdown!Main, ~Shutdown!Network
    PROVE  /\ step'["main"] = step["main"] /\ turn' = turn
           /\ \A t \in Shutdown!Threads : step[t] = "absent" => step'[t] = "absent"
           /\ MutexInUse'
<1> DEFINE Goal == /\ step'["main"] = step["main"] /\ turn' = turn
                   /\ \A t \in Shutdown!Threads : step[t] = "absent" => step'[t] = "absent"
                   /\ MutexInUse'
<1> SUFFICES Goal
    OBVIOUS
<1> USE DEF Shutdown!TypeOK, MutexInUse, Shutdown!Goto, Shutdown!Threads, Shutdown!Actors,
      Shutdown!shared
<1>2. ASSUME NEW a \in Shutdown!Actors, Shutdown!Stopping(a) PROVE Goal
      BY <1>2
        DEF Shutdown!Stopping, Shutdown!TestDisposed, Shutdown!SetFlags, Shutdown!CancelAll
<1>5. ASSUME NEW u \in Shutdown!Threads, NEW l \in {"lock", "wait", "sleep", "check", "work"},
             \/ Shutdown!LoopCheck(u, l) \/ Shutdown!Sleep(u, l)
             \/ Shutdown!ThreadEnds(u) \/ Shutdown!Cancelled(u)
      PROVE  Goal
  <2>1. CASE Shutdown!LoopCheck(u, l)
        BY <2>1 DEF Shutdown!LoopCheck
  <2>2. CASE Shutdown!Sleep(u, l)
        BY <2>2 DEF Shutdown!Sleep
  <2>3. CASE Shutdown!ThreadEnds(u)
        BY <2>3 DEF Shutdown!ThreadEnds, Shutdown!StopAllThreads
  <2>4. CASE Shutdown!Cancelled(u)
        BY <2>4 DEF Shutdown!Cancelled, Shutdown!CancellationPoint
  <2> QED BY <1>5, <2>1, <2>2, <2>3, <2>4
<1>6. CASE Shutdown!PollerLocks \/ Shutdown!PollerUnlocks
      BY <1>6 DEF Shutdown!PollerLocks, Shutdown!PollerUnlocks
<1>7. CASE Shutdown!WaitForLog \/ Shutdown!SendLog \/ Shutdown!HandleManagers
      BY <1>7 DEF Shutdown!WaitForLog, Shutdown!SendLog, Shutdown!HandleManagers
<1>8. CASE UNCHANGED Shutdown!vars
      BY <1>8 DEF Shutdown!vars
<1> QED
    BY <1>2, <1>5, <1>6, <1>7, <1>8
    DEF Shutdown!Next, Shutdown!Poller, Shutdown!LogsSender, Shutdown!ManagersHandler

\* The steps of main, the signal and the network keep the mutex where it is.
LEMMA MainKeepsMutex ==
    ASSUME ShutdownInv, Shutdown!Main \/ Shutdown!Signal \/ Shutdown!Network
    PROVE  MutexInUse'
<1> USE DEF ShutdownInv, Shutdown!TypeOK, MutexInUse, Shutdown!Goto, Shutdown!Threads,
      Shutdown!Actors, Shutdown!shared
<1>1. CASE Shutdown!CreateThread
      BY <1>1, Orders DEF Shutdown!CreateThread, Uncreated
<1>2. CASE Shutdown!Main /\ ~Shutdown!CreateThread
      BY <1>2 DEF Shutdown!Main, Shutdown!CreateFails, Shutdown!RecordThread,
          Shutdown!AcceptorCheck, Shutdown!EnterAccept, Shutdown!InsertClient,
          Shutdown!LeaveLoop, Shutdown!StopAllThreads, Shutdown!JoinThread,
          Shutdown!TellClients, Shutdown!SleepBeforeClose, Shutdown!Deinit
<1>3. CASE Shutdown!Signal \/ Shutdown!Network
      BY <1>3 DEF Shutdown!Signal, Shutdown!Network, Shutdown!ClientComes, Shutdown!AcceptFails,
          Shutdown!StopAllThreads
<1> QED BY <1>1, <1>2, <1>3

\* What main has created, and what it has joined, follows its steps.
LEMMA MainJoins ==
    ASSUME ShutdownInv, Shutdown!Main \/ Shutdown!Signal \/ Shutdown!Network
    PROVE  Uncreated' /\ JoinedSoFar' /\ Shutdown!ThreadsEndBeforeDeinit'
<1> DEFINE Goal == Uncreated' /\ JoinedSoFar' /\ Shutdown!ThreadsEndBeforeDeinit'
<1> USE
    DEF ShutdownInv, Shutdown!TypeOK, Uncreated, JoinedSoFar, Shutdown!ThreadsEndBeforeDeinit,
      Shutdown!Goto, Shutdown!MainPC
<1>1. \A t \in Shutdown!Threads : 
         ~Shutdown!CreateThread /\ Shutdown!Ended(t) => Shutdown!Ended(t)'
      BY EndedStays DEF Shutdown!Next
<1>2. CASE Shutdown!CreateThread
      BY <1>2, Orders DEF Shutdown!CreateThread, Shutdown!Threads
<1>3. CASE Shutdown!RecordThread
      BY <1>3, Orders DEF Shutdown!RecordThread, Shutdown!Threads
<1>4. CASE Shutdown!JoinThread
  <2>1. turn < 3 => turn' = turn + 1 /\ step'["main"] = "join"
        BY <1>4, Orders DEF Shutdown!JoinThread, Shutdown!LastJoin, Shutdown!Threads
  <2>2. turn = 3 => step'["main"] = "tell"
        BY <1>4, Orders DEF Shutdown!JoinThread, Shutdown!LastJoin, Shutdown!Threads
  <2>3. Shutdown!Ended(Shutdown!Joined[turn])
        BY <1>4 DEF Shutdown!JoinThread
  <2>4. \A n \in 1 .. 3 : n <= turn => Shutdown!Ended(Shutdown!Joined[n])
        BY <1>4, <2>3 DEF Shutdown!JoinThread
  <2>5. \A n \in 1 .. 3 : n <= turn => Shutdown!Ended(Shutdown!Joined[n])'
    <3>1. ~Shutdown!CreateThread
          BY <1>4 DEF Shutdown!CreateThread, Shutdown!JoinThread
    <3> QED BY <1>1, <2>4, <3>1, Orders DEF Shutdown!Ended, Shutdown!Joined
  <2> QED BY <2>1, <2>2, <2>5, Orders, turn \in 1 .. 3 DEF Shutdown!Ended
<1>5. CASE Shutdown!TellClients \/ Shutdown!SleepBeforeClose
      BY <1>5, <1>1 DEF Shutdown!TellClients, Shutdown!SleepBeforeClose, Shutdown!CreateThread,
          Shutdown!Threads
<1>6. CASE \/ Shutdown!CreateFails \/ Shutdown!AcceptorCheck \/ Shutdown!EnterAccept
           \/ Shutdown!InsertClient \/ Shutdown!LeaveLoop \/ Shutdown!Deinit
      BY <1>6, <1>1 DEF Shutdown!CreateFails, Shutdown!AcceptorCheck, Shutdown!EnterAccept,
          Shutdown!InsertClient, Shutdown!LeaveLoop, Shutdown!StopAllThreads, Shutdown!Deinit,
          Shutdown!Threads
<1>7. CASE Shutdown!Signal \/ Shutdown!Network
      BY <1>7, <1>1, Orders
        DEF Shutdown!Signal, Shutdown!Network, Shutdown!ClientComes, Shutdown!AcceptFails,
          Shutdown!StopAllThreads, Shutdown!Threads, Shutdown!Ended, Shutdown!Actors
<1> QED BY <1>2, <1>3, <1>4, <1>5, <1>6, <1>7 DEF Shutdown!Main

LEMMA ShutdownInvInit == Shutdown!Init => ShutdownInv
<1> SUFFICES ASSUME Shutdown!Init PROVE ShutdownInv
    OBVIOUS
<1> USE DEF Shutdown!Init, Shutdown!Threads
<1>1. Shutdown!TypeOK
  <2>1. step \in [Shutdown!Threads \union {"main"} -> Shutdown!MainPC \union
                   {"absent", "lock", "work", "wait", "send", "done"}]
        /\ step["main"] \in Shutdown!MainPC
        BY DEF Shutdown!MainPC
  <2>2. stop \in [Shutdown!Actors -> {"no", "test", "set", "cancel"}]
        BY DEF Shutdown!Actors
  <2>3. turn \in 1 .. Len(Shutdown!Created)
        BY Orders
  <2>4. /\ disposed \in BOOLEAN /\ running \in BOOLEAN
        /\ logged \in BOOLEAN /\ ctrl_c \in BOOLEAN
        OBVIOUS
  <2> QED BY <2>1, <2>2, <2>3, <2>4 DEF Shutdown!TypeOK
<1>2. Uncreated
      BY Orders DEF Uncreated
<1>3. JoinedSoFar /\ MutexInUse /\ Shutdown!ThreadsEndBeforeDeinit
      BY DEF JoinedSoFar, MutexInUse, Shutdown!ThreadsEndBeforeDeinit
<1> QED BY <1>1, <1>2, <1>3 DEF ShutdownInv

LEMMA ShutdownInvStep == ShutdownInv /\ [Shutdown!Next]_(Shutdown!vars) => ShutdownInv'
<1> SUFFICES ASSUME ShutdownInv, [Shutdown!Next]_(Shutdown!vars) PROVE ShutdownInv'
    OBVIOUS
<1>1. Shutdown!TypeOK'
      BY ShutdownTypeStep DEF ShutdownInv
<1>2. CASE Shutdown!Main \/ Shutdown!Signal \/ Shutdown!Network
      BY <1>1, <1>2, MainJoins, MainKeepsMutex DEF ShutdownInv
<1>3. CASE ~(Shutdown!Main \/ Shutdown!Signal \/ Shutdown!Network)
  <2>1. /\ step'["main"] = step["main"] /\ turn' = turn
        /\ \A t \in Shutdown!Threads : step[t] = "absent" => step'[t] = "absent"
        /\ MutexInUse'
        BY <1>3, ThreadsGoOn DEF ShutdownInv
  <2>2. \A t \in Shutdown!Threads : Shutdown!Ended(t) => Shutdown!Ended(t)'
        BY <1>3, EndedStays DEF ShutdownInv, Shutdown!Main
  <2>3. \A n \in 1 .. 3 : /\ Shutdown!Created[n] \in Shutdown!Threads
                          /\ Shutdown!Joined[n] \in Shutdown!Threads
        BY Orders
  <2>4. \A n \in 1 .. 3 :
           Shutdown!Ended(Shutdown!Joined[n]) => Shutdown!Ended(Shutdown!Joined[n])'
        BY <2>2, <2>3 DEF Shutdown!Joined, Shutdown!Ended
  <2>5. Uncreated'
        BY <2>1, <2>3 DEF ShutdownInv, Uncreated, Shutdown!Created
  <2>6. JoinedSoFar'
        BY <2>1, <2>4 DEF ShutdownInv, JoinedSoFar
  <2>7. Shutdown!ThreadsEndBeforeDeinit'
        BY <2>1, <2>2 DEF ShutdownInv, Shutdown!ThreadsEndBeforeDeinit
  <2> QED BY <1>1, <2>1, <2>5, <2>6, <2>7 DEF ShutdownInv
<1> QED BY <1>2, <1>3

\* ShutdownInv holds at every step of the server.
THEOREM ShutdownInvariant == Shutdown!Spec => []ShutdownInv
  BY ShutdownInvInit, ShutdownInvStep, PTL DEF Shutdown!Spec

\* Only recorded threads of mark-10 are asked to end: stop_all_threads passes over the
\* entries of app_threads that were never filled.
THEOREM ThreadsTypeCorrect == Shutdown!Spec => []ThreadsTypeOK
  BY ShutdownInvariant, PTL DEF ShutdownInv, ThreadsTypeOK

\* start_runtime_loop joins every thread before the sockets are closed and the mutexes
\* destroyed, also when a thread was the one to stop the others.
THEOREM ThreadsEndFirst == Shutdown!Spec => []ThreadsEndBeforeDeinit
  BY ShutdownInvariant, PTL DEF ShutdownInv, ThreadsEndBeforeDeinit

\* Every path out of the poller's loop unlocks the mutex; only pthread_cancel leaves it
\* locked by a thread that has ended.
THEOREM MutexLostByCancelOnly == Shutdown!Spec => []OnlyCancelOrphansTheMutex
  <1>1. ShutdownInv => OnlyCancelOrphansTheMutex
    BY DEF ShutdownInv, MutexInUse, OnlyCancelOrphansTheMutex,
           Shutdown!OnlyCancelOrphansTheMutex, Shutdown!Orphaned
  <1>2. QED
    BY <1>1, ShutdownInvariant, PTL
=============================================================================
