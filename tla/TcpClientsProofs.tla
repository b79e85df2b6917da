-------------------------- MODULE TcpClientsProofs ---------------------------
(***************************************************************************)
(* Proofs about TcpClients, for all sets of clients, numbers of messages   *)
(* and sizes of the socket buffers: whatever the server does, a client     *)
(* takes the messages for what they are, except for the shutdown message   *)
(* before mark 10, and ends for a reason and with its work done.           *)
(***************************************************************************)
EXTENDS TcpClients, TLAPS

\* What is in an inbox: of messages 1 .. g, each of sz pairs of bytes, those after the
\* first n, and then the shutdown message when it was sent; what was taken of it instead of
\* messages is missing.
Lengths(in, n, g, t, sz, stop) == Len(in) = sz * (g - n) + (IF t THEN stop ELSE 0)
Waiting(in, n, g, kind, sz) ==
    \A id \in n + 1 .. g : \A k \in 1 .. sz : in[sz * (id - n - 1) + k] = <<kind, id, k>>
StopWaits(in, n, g, t, sz, stop) ==
    t => \A k \in 1 .. stop : sz * (g - n) + k >= 1 => in[sz * (g - n) + k] = <<"stop", 0, k>>
Stream(in, n, g, t, kind, sz, stop) ==
    Lengths(in, n, g, t, sz, stop) /\ Waiting(in, n, g, kind, sz) /\ StopWaits(in, n, g, t, sz, stop)

-----------------------------------------------------------------------------
(* Streams.                                                                *)

\* Where the elements of two sequences are in their concatenation.
LEMMA Joined ==
    ASSUME NEW s \in Seq(Bytes), NEW m \in Seq(Bytes)
    PROVE  /\ Len(s \o m) = Len(s) + Len(m) /\ Len(s) \in Nat /\ Len(m) \in Nat
           /\ \A i \in 1 .. Len(s) : (s \o m)[i] = s[i]
           /\ \A i \in 1 .. Len(m) : (s \o m)[Len(s) + i] = m[i]
  OBVIOUS

\* A message is put at the end ...
LEMMA SentStream ==
    ASSUME NEW in \in Seq(Bytes), NEW n \in Nat, NEW g \in Nat, NEW kind, NEW stop \in Nat,
           NEW sz \in {2, 6}, NEW m \in Seq(Bytes), Len(m) = sz,
           \A k \in 1 .. sz : m[k] = <<kind, g + 1, k>>,
           Stream(in, n, g, FALSE, kind, sz, stop)
    PROVE  Stream(in \o m, n, g + 1, FALSE, kind, sz, stop)
  <1> DEFINE whole == in \o m
  <1>1. Len(in) = sz * (g - n) /\ Len(in) \in Nat
    BY DEF Stream, Lengths
  <1>2. n =< g
    BY <1>1
  <1>3. /\ Len(whole) = Len(in) + sz
        /\ \A i \in 1 .. Len(in) : whole[i] = in[i]
        /\ \A i \in 1 .. sz : whole[Len(in) + i] = m[i]
    BY Joined
  <1> HIDE DEF whole
  <1>4. Lengths(whole, n, g + 1, FALSE, sz, stop)
    BY <1>1, <1>3 DEF Lengths
  <1>5. ASSUME NEW id \in n + 1 .. g + 1, NEW k \in 1 .. sz
        PROVE  whole[sz * (id - n - 1) + k] = <<kind, id, k>>
    <2> DEFINE i == sz * (id - n - 1) + k
    <2>1. CASE id =< g
      <3>0. id \in n + 1 .. g
        BY <1>2, <2>1
      <3>1. in[i] = <<kind, id, k>>
        BY <3>0, Zenon DEF Stream, Waiting, StopWaits
      <3>2. i \in 1 .. Len(in)
        BY <1>1, <2>1
      <3> HIDE DEF i
      <3>3. whole[i] = <<kind, id, k>>
        BY <1>3, <3>1, <3>2
      <3>4. QED
        BY <3>3 DEF i
    <2>2. CASE id > g
      <3>1. i = Len(in) + k /\ id = g + 1
        BY <1>1, <2>2
      <3> HIDE DEF i
      <3>2. whole[i] = <<kind, id, k>>
        BY <1>3, <3>1
      <3>3. QED
        BY <3>2 DEF i
    <2>3. id =< g \/ id > g
      OBVIOUS
    <2> HIDE DEF i
    <2>4. QED
      BY <2>1, <2>2, <2>3
  <1>6. QED
    <2>1. Waiting(whole, n, g + 1, kind, sz)
      BY <1>5, Zenon DEF Waiting
    <2>2. StopWaits(whole, n, g + 1, FALSE, sz, stop)
      BY Zenon DEF StopWaits
    <2>3. QED
      BY <1>2, <1>4, <2>1, <2>2, Zenon DEF Stream, whole

\* ... and so is the shutdown message.
LEMMA ToldStream ==
    ASSUME NEW in \in Seq(Bytes), NEW n \in Nat, NEW g \in Nat, NEW kind, NEW stop \in Nat,
           NEW sz \in {2, 6}, NEW m \in Seq(Bytes), Len(m) = stop,
           \A k \in 1 .. stop : m[k] = <<"stop", 0, k>>,
           Stream(in, n, g, FALSE, kind, sz, stop)
    PROVE  Stream(in \o m, n, g, TRUE, kind, sz, stop)
  <1> DEFINE whole == in \o m
  <1>1. Len(in) = sz * (g - n) /\ Len(in) \in Nat
    BY DEF Stream, Lengths
  <1>2. /\ Len(whole) = Len(in) + Len(m)
        /\ \A i \in 1 .. Len(in) : whole[i] = in[i]
        /\ \A i \in 1 .. Len(m) : whole[Len(in) + i] = m[i]
    BY Joined, Zenon
  <1> HIDE DEF whole
  <1>3. /\ Len(whole) = Len(in) + stop
        /\ \A i \in 1 .. Len(in) : whole[i] = in[i]
        /\ \A i \in 1 .. stop : whole[Len(in) + i] = m[i]
    BY <1>2, Zenon
  <1>4. ASSUME NEW id \in n + 1 .. g, NEW k \in 1 .. sz
        PROVE  whole[sz * (id - n - 1) + k] = <<kind, id, k>>
    <2> DEFINE i == sz * (id - n - 1) + k
    <2>1. in[i] = <<kind, id, k>>
      BY Zenon DEF Stream, Waiting, StopWaits
    <2>2. i \in 1 .. Len(in)
      BY <1>1
    <2> HIDE DEF i
    <2>3. whole[i] = <<kind, id, k>>
      BY <1>3, <2>1, <2>2
    <2>4. QED
      BY <2>3 DEF i
  <1>5. ASSUME NEW k \in 1 .. stop PROVE whole[sz * (g - n) + k] = <<"stop", 0, k>>
    <2>1. whole[Len(in) + k] = m[k]
      BY <1>3
    <2>2. QED
      BY <1>1, <2>1
  <1>6. Lengths(whole, n, g, TRUE, sz, stop)
    BY <1>1, <1>3 DEF Lengths
  <1>7. QED
    <2>1. Waiting(whole, n, g, kind, sz)
      BY <1>4, Zenon DEF Waiting
    <2>2. StopWaits(whole, n, g, TRUE, sz, stop)
      BY <1>5, Zenon DEF StopWaits
    <2>3. QED
      BY <1>6, <2>1, <2>2, Zenon DEF Stream, whole

\* As many bytes as a message has are taken from the front.
LEMMA TakenStream ==
    ASSUME NEW in \in Seq(Bytes), NEW n \in Nat, NEW g \in Nat, NEW t \in BOOLEAN, NEW kind,
           NEW stop \in Nat, NEW sz \in {2, 6}, Len(in) >= sz,
           Stream(in, n, g, t, kind, sz, stop)
    PROVE  Stream(SubSeq(in, sz + 1, Len(in)), n + 1, g, t, kind, sz, stop)
  <1> DEFINE rest == SubSeq(in, sz + 1, Len(in))
  <1>1. Len(in) = sz * (g - n) + (IF t THEN stop ELSE 0) /\ Len(in) \in Nat
    BY DEF Stream, Lengths
  <1>2. Len(rest) = Len(in) - sz /\ \A i \in 1 .. Len(in) - sz : rest[i] = in[i + sz]
    OBVIOUS
  <1> HIDE DEF rest
  <1>3. Lengths(rest, n + 1, g, t, sz, stop)
    BY <1>1, <1>2 DEF Lengths
  <1>4. ASSUME NEW id \in (n + 1) + 1 .. g, NEW k \in 1 .. sz
        PROVE  rest[sz * (id - (n + 1) - 1) + k] = <<kind, id, k>>
    <2>0. id \in n + 1 .. g
      OBVIOUS
    <2>1. in[sz * (id - n - 1) + k] = <<kind, id, k>>
      BY <2>0, Zenon DEF Stream, Waiting, StopWaits
    <2> DEFINE i == sz * (id - (n + 1) - 1) + k
    <2>2. i \in 1 .. Len(in) - sz /\ i + sz = sz * (id - n - 1) + k
      BY <1>1
    <2> HIDE DEF i
    <2>3. rest[i] = in[i + sz]
      BY <1>2, <2>2
    <2>4. QED
      BY <2>1, <2>2, <2>3 DEF i
  <1>5. ASSUME t, NEW k \in 1 .. stop, sz * (g - (n + 1)) + k >= 1
        PROVE  rest[sz * (g - (n + 1)) + k] = <<"stop", 0, k>>
    <2> DEFINE i == sz * (g - (n + 1)) + k
    <2>1. sz * (g - n) + k >= 1
      BY <1>5
    <2>2. in[sz * (g - n) + k] = <<"stop", 0, k>>
      BY <1>5, <2>1, Zenon DEF Stream, Waiting, StopWaits
    <2>3. i \in 1 .. Len(in) - sz /\ i + sz = sz * (g - n) + k
      BY <1>1, <1>5
    <2> HIDE DEF i
    <2>4. rest[i] = in[i + sz]
      BY <1>2, <2>3
    <2>5. QED
      BY <2>2, <2>3, <2>4 DEF i
  <1>6. QED
    <2>1. Waiting(rest, n + 1, g, kind, sz)
      BY <1>4, Zenon DEF Waiting
    <2>2. StopWaits(rest, n + 1, g, t, sz, stop)
      BY <1>5, Zenon DEF StopWaits
    <2>3. QED
      BY <1>3, <2>1, <2>2, Zenon DEF Stream, rest

\* What comes first: the next message, or the shutdown message.
Begins(in, n, g, t, kind, sz, stop) ==
    /\ n < g => /\ Len(in) >= sz
                /\ \A k \in 1 .. sz : in[k] = <<kind, n + 1, k>>
    /\ n >= g => /\ Len(in) = IF t THEN stop - sz * (n - g) ELSE 0
                 /\ \A i \in 1 .. Len(in) : in[i] = <<"stop", 0, sz * (n - g) + i>>

LEMMA HeadOfStream ==
    ASSUME NEW in \in Seq(Bytes), NEW n \in Nat, NEW g \in Nat, NEW t \in BOOLEAN, NEW kind,
           NEW stop \in Nat, NEW sz \in {2, 6}, Stream(in, n, g, t, kind, sz, stop)
    PROVE  Begins(in, n, g, t, kind, sz, stop)
  <1>1. Len(in) = sz * (g - n) + (IF t THEN stop ELSE 0) /\ Len(in) \in Nat
    BY DEF Stream, Lengths
  <1>2. CASE n < g
    <2>1. Len(in) >= sz
      BY <1>1, <1>2
    <2>2. ASSUME NEW k \in 1 .. sz PROVE in[k] = <<kind, n + 1, k>>
      <3> DEFINE id == n + 1
      <3>1. id \in n + 1 .. g /\ sz * (id - n - 1) + k = k
        BY <1>2
      <3> HIDE DEF id
      <3>2. in[sz * (id - n - 1) + k] = <<kind, id, k>>
        BY <3>1, Zenon DEF Stream, Waiting
      <3>3. QED
        BY <3>1, <3>2 DEF id
    <2>3. QED
      BY <1>2, <2>1, <2>2 DEF Begins
  <1>3. CASE n >= g
    <2>1. Len(in) = IF t THEN stop - sz * (n - g) ELSE 0
      <3>1. CASE ~t
        BY <1>1, <1>3, <3>1
      <3>2. CASE t
        BY <1>1, <1>3, <3>2
      <3>3. QED
        BY <3>1, <3>2
    <2>2. ASSUME NEW i \in 1 .. Len(in) PROVE in[i] = <<"stop", 0, sz * (n - g) + i>>
      <3>1. t /\ sz * (n - g) + i \in 1 .. stop /\ sz * (g - n) + (sz * (n - g) + i) = i
        BY <1>1, <1>3, <2>1
      <3> DEFINE k == sz * (n - g) + i
      <3>2. k \in 1 .. stop /\ sz * (g - n) + k = i
        BY <3>1
      <3> HIDE DEF k
      <3>3. in[sz * (g - n) + k] = <<"stop", 0, k>>
        <4>1. sz * (g - n) + k >= 1
          BY <3>2
        <4>2. in[sz * (g - n) + k] = <<"stop", 0, k>>
          BY <3>1, <3>2, <4>1, Zenon DEF Stream, Waiting, StopWaits
        <4>3. QED
          BY <3>2, <4>2
      <3>4. QED
        BY <3>2, <3>3 DEF k
    <2>3. QED
      BY <1>3, <2>1, <2>2 DEF Begins
  <1>4. QED
    BY <1>2, <1>3

-----------------------------------------------------------------------------
(* The invariant, of one client.                                           *)

\* Whether the client is there, and what it waits for.
Connection(c) ==
    /\ pc[c] = "start" => conn[c] = "none"
    /\ told[c] => conn[c] \notin {"none", "open"}
    /\ pc[c] \in {"take", "menu", "ask"} => type[c] # "first"

\* The client has cut its stream where the messages end; who has failed may have torn one.
Reads(c) ==
    pc[c] # "failed" =>
        Stream(inbox[c], Len(taken[c]), given[c], told[c], Kind(c), Size(Kind(c)), Size("stop"))

\* It took first what was sent and then, of the shutdown message, at most two pins.
InOrder(messages, g) ==
    \A k \in 1 .. Len(messages) : messages[k] = IF k =< g THEN k ELSE Ghost
Takes(c) ==
    /\ InOrder(taken[c], given[c])
    /\ Len(taken[c]) > given[c] =>
          /\ told[c] /\ mark # "10" /\ type[c] \in {"second", "third"}
          /\ Len(taken[c]) =< given[c] + 2

\* NothingIsLeft and EndsForAReason.
Ends(c) ==
    /\ pc[c] = "ok" /\ ~quit[c] => Len(taken[c]) >= given[c]
    /\ Ended(c) => quit[c] \/ conn[c] # "open"

OneInv(c) == Connection(c) /\ Reads(c) /\ Takes(c) /\ Ends(c)

\* TypeOK in two parts: what each variable is, and the room in the sockets for the messages.
Types ==
    /\ mark \in Marks /\ type \in [Clients -> TypesOf[mark]]
    /\ pc \in [Clients -> {"start", "check", "make", "recheck", "take", "give", "menu", "ask",
                           "ok", "failed", "killed"}]
    /\ conn \in [Clients -> {"none", "open", "fin", "reset", "dead"}]
    /\ inbox \in [Clients -> Seq(Bytes)] /\ outbox \in [Clients -> Seq(Nat)]
    /\ \A c \in Clients : Len(outbox[c]) =< SocketBuffer
    /\ given \in [Clients -> 0 .. MaxMessages] /\ told \in [Clients -> BOOLEAN]
    /\ taken \in [Clients -> Seq(Nat)] /\ pin \in [Clients -> Nat] /\ quit \in [Clients -> BOOLEAN]
Room == \A c \in Clients : Len(inbox[c]) =< MaxMessages * Size(Kind(c)) + Size("stop")

Inv == Types /\ Room /\ \A c \in Clients : OneInv(c)

LEMMA TypeParts == TypeOK <=> Types /\ Room
  BY DEF TypeOK, Types, Room

-----------------------------------------------------------------------------
(* Messages.                                                               *)

\* The kinds of messages and their lengths, in each mark.
LEMMA Sizes ==
    ASSUME Types, NEW c \in Clients
    PROVE  /\ Kind(c) \in {"pin", "log", "result"} /\ Size(Kind(c)) \in {2, 6}
           /\ Kind(c) = "log" <=> Size(Kind(c)) = 6
           /\ Size("stop") = IF mark = "10" THEN 1 ELSE 4
           /\ NET_BUFFER_SIZE = IF mark = "10" THEN 2 ELSE 4
           /\ type[c] = "manager" => mark = "10"
           /\ mark = "4-5" => type[c] # "collector"
           /\ type[c] \in {"first", "second", "third", "collector", "manager"}
           /\ Kind(c) = "pin" <=> type[c] \in {"first", "second", "third"}
           /\ Kind(c) = "result" <=> type[c] = "manager"
           /\ Kind(c) = "log" <=> type[c] = "collector"
  <1>1. /\ mark \in {"4-5", "6-7", "10"} /\ type[c] \in TypesOf[mark]
    BY DEF Types, Marks
  <1>2. type[c] \in {"first", "second", "third", "collector", "manager"}
    BY <1>1 DEF TypesOf, Marks, Workers
  <1>3. /\ type[c] = "manager" => mark = "10"
        /\ mark = "4-5" => type[c] # "collector"
    BY <1>1 DEF TypesOf, Marks, Workers
  <1>4. /\ Kind(c) \in {"pin", "log", "result"}
        /\ Kind(c) = "pin" <=> type[c] \in {"first", "second", "third"}
        /\ Kind(c) = "result" <=> type[c] = "manager"
        /\ Kind(c) = "log" <=> type[c] = "collector"
    BY <1>2 DEF Kind
  <1>5. /\ Size("pin") = 2 /\ Size("log") = 6 /\ Size("result") = 2
        /\ Size("stop") = IF mark = "10" THEN 1 ELSE 4
    BY DEF Size
  <1>6. NET_BUFFER_SIZE = IF mark = "10" THEN 2 ELSE 4
    BY <1>5 DEF NET_BUFFER_SIZE
  <1>7. /\ Size(Kind(c)) \in {2, 6}
        /\ Kind(c) = "log" <=> Size(Kind(c)) = 6
    BY <1>4, <1>5
  <1>8. QED
    BY <1>2, <1>3, <1>4, <1>5, <1>6, <1>7

LEMMA Messages ==
    ASSUME NEW kind \in {"pin", "log", "result", "stop"}, NEW id \in Nat
    PROVE  /\ Message(kind, id) \in Seq(Bytes) /\ Len(Message(kind, id)) = Size(kind)
           /\ \A k \in 1 .. Size(kind) : Message(kind, id)[k] = <<kind, id, k>>
           /\ Size(kind) \in Nat \ {0}
  <1>1. Size(kind) \in Nat \ {0}
    BY DEF Size
  <1>2. \A k \in 1 .. Size(kind) : <<kind, id, k>> \in Bytes
    BY <1>1 DEF Bytes
  <1>3. QED
    BY <1>1, <1>2 DEF Message

\* The beginning of a stream.
LEMMA FirstBytes ==
    ASSUME NEW bytes \in Seq(Bytes), NEW n \in Nat
    PROVE  /\ First(bytes, n) \in Seq(Bytes)
           /\ Len(First(bytes, n)) = IF Len(bytes) < n THEN Len(bytes) ELSE n
           /\ \A k \in 1 .. Len(First(bytes, n)) : First(bytes, n)[k] = bytes[k]
  BY DEF First

\* What a client makes of the bytes of a message.
LEMMA Values ==
    ASSUME Types, NEW c \in Clients, NEW bytes
    PROVE  /\ ValueOf(c, bytes) \in Nat
           /\ \A id \in 1 .. given[c] : bytes = Message(Kind(c), id) => ValueOf(c, bytes) = id
           /\ (\A id \in 1 .. given[c] : bytes # Message(Kind(c), id))
                 => ValueOf(c, bytes) = Ghost
  <1>1. given[c] \in Nat
    BY DEF Types
  <1>2. ASSUME NEW id \in 1 .. given[c], bytes = Message(Kind(c), id)
        PROVE  bytes[1][2] = id
    <2>1. Kind(c) \in {"pin", "log", "result", "stop"} /\ id \in Nat /\ 1 \in 1 .. Size(Kind(c))
      BY <1>1, Sizes
    <2>2. bytes[1] = <<Kind(c), id, 1>>
      BY <1>2, <2>1, Messages
    <2>3. QED
      BY <2>2
  <1>3. CASE \E id \in 1 .. given[c] : bytes = Message(Kind(c), id)
    <2>1. PICK id \in 1 .. given[c] : bytes = Message(Kind(c), id)
      BY <1>3
    <2>2. ValueOf(c, bytes) = bytes[1][2]
      BY <1>3 DEF ValueOf
    <2>3. QED
      BY <1>1, <1>2, <2>1, <2>2
  <1>4. CASE ~(\E id \in 1 .. given[c] : bytes = Message(Kind(c), id))
    BY <1>4 DEF ValueOf, Ghost
  <1>5. QED
    BY <1>3, <1>4

-----------------------------------------------------------------------------
(* The types.                                                              *)

\* What SendTo does to connection and outbox.
LEMMA SendTypes ==
    ASSUME ConstantsOK, Types, NEW c \in Clients, NEW after \in {"check", "take"},
           SendTo(c, after)
    PROVE  /\ pc' = [pc EXCEPT ![c] = pc'[c]] /\ pc'[c] \in {after, "failed", "killed"}
           /\ conn' = [conn EXCEPT ![c] = conn'[c]] /\ conn'[c] \in {conn[c], "dead"}
           /\ outbox' \in [Clients -> Seq(Nat)]
           /\ \A d \in Clients : Len(outbox'[d]) =< SocketBuffer
           /\ conn[c] = "open" => conn'[c] = "open" /\ pc'[c] = after
           /\ conn[c] \in {"open", "fin", "reset", "dead"}
  <1>1. CASE /\ conn[c] = "open" /\ Len(outbox[c]) < SocketBuffer /\ Goto(c, after)
             /\ outbox' = [outbox EXCEPT ![c] = Append(@, pin[c])] /\ UNCHANGED conn
    <2>1. /\ pc' = [pc EXCEPT ![c] = after] /\ conn' = conn /\ conn[c] = "open"
      BY <1>1 DEF Goto
    <2>2. outbox[c] \in Seq(Nat) /\ pin[c] \in Nat /\ SocketBuffer \in Nat
      BY DEF Types, ConstantsOK
    <2>3. Append(outbox[c], pin[c]) \in Seq(Nat) /\ Len(Append(outbox[c], pin[c])) =< SocketBuffer
      BY <1>1, <2>2
    <2>4. outbox' \in [Clients -> Seq(Nat)] /\ \A d \in Clients : Len(outbox'[d]) =< SocketBuffer
      BY <1>1, <2>3 DEF Types
    <2>5. QED
      BY <2>1, <2>4 DEF Types
  <1>2. CASE /\ conn[c] = "fin" /\ Goto(c, after) /\ UNCHANGED outbox
             /\ conn' \in {conn, [conn EXCEPT ![c] = "dead"]}
    BY <1>2 DEF Goto, Types
  <1>3. CASE conn[c] = "reset" /\ Goto(c, "failed") /\ BecomesOf(c, "dead") /\ UNCHANGED outbox
    BY <1>3 DEF Goto, Types, BecomesOf
  <1>4. CASE /\ conn[c] = "dead" /\ UNCHANGED <<conn, outbox>>
             /\ Goto(c, IF mark = "4-5" THEN "killed" ELSE "failed")
    BY <1>4 DEF Goto, Types
  <1>5. QED
    BY <1>1, <1>2, <1>3, <1>4, Zenon DEF SendTo

\* Every step keeps the types.
LEMMA TypesStep ==
    ASSUME ConstantsOK, Types, Next
    PROVE  Types'
  <1> USE DEF ConstantsOK
  <1>0. MaxMessages \in Nat
    OBVIOUS
  <1>1. CASE Close
    BY <1>1 DEF Close, Types, programs, server
  <1>2. ASSUME NEW c \in Clients, ServerSends(c) PROVE Types'
    <2>1. /\ outbox' = [outbox EXCEPT ![c] = IF type[c] = "manager" THEN Tail(@) ELSE @]
          /\ given' = [given EXCEPT ![c] = @ + 1] /\ given[c] < MaxMessages
          /\ inbox' = [inbox EXCEPT ![c] = @ \o Message(Kind(c), given'[c])]
          /\ type[c] = "manager" => outbox[c] # <<>>
          /\ UNCHANGED <<programs, pc, conn, told, taken, pin, quit>>
      BY <1>2, Zenon DEF ServerSends, Sends
    <2>2. given' \in [Clients -> 0 .. MaxMessages] /\ given'[c] \in Nat
      BY <2>1 DEF Types
    <2>3. Message(Kind(c), given'[c]) \in Seq(Bytes)
      <3>1. Kind(c) \in {"pin", "log", "result", "stop"}
        BY Sizes
      <3>2. QED
        BY <2>2, <3>1, Messages
    <2>4. inbox[c] \o Message(Kind(c), given'[c]) \in Seq(Bytes)
      <3>1. inbox[c] \in Seq(Bytes)
        BY DEF Types
      <3>2. QED
        BY <2>3, <3>1
    <2>5. inbox' \in [Clients -> Seq(Bytes)]
      BY <2>1, <2>4 DEF Types
    <2>6. /\ outbox' \in [Clients -> Seq(Nat)]
          /\ \A d \in Clients : Len(outbox'[d]) =< SocketBuffer
      <3>1. outbox[c] \in Seq(Nat) /\ Len(outbox[c]) =< SocketBuffer
        BY DEF Types
      <3>2. CASE type[c] = "manager"
        <4>1. Tail(outbox[c]) \in Seq(Nat) /\ Len(Tail(outbox[c])) =< SocketBuffer
          BY <2>1, <3>1, <3>2
        <4>2. QED
          BY <2>1, <3>2, <4>1 DEF Types
      <3>3. CASE type[c] # "manager"
        BY <2>1, <3>3 DEF Types
      <3>4. QED
        BY <3>2, <3>3
    <2>7. QED
      BY <2>1, <2>2, <2>5, <2>6 DEF Types, programs
  <1>3. ASSUME NEW c \in Clients, ServerTakesPin(c) PROVE Types'
    <2>1. outbox[c] \in Seq(Nat) /\ Len(outbox[c]) =< SocketBuffer
      BY DEF Types
    <2>2. Tail(outbox[c]) \in Seq(Nat) /\ Len(Tail(outbox[c])) =< SocketBuffer
      BY <1>3, <2>1 DEF ServerTakesPin
    <2>3. /\ outbox' \in [Clients -> Seq(Nat)]
          /\ \A d \in Clients : Len(outbox'[d]) =< SocketBuffer
      BY <1>3, <2>2 DEF ServerTakesPin, Types
    <2>4. QED
      BY <1>3, <2>3 DEF ServerTakesPin, Types, programs, server
  <1>4. ASSUME NEW c \in Clients, Tell(c) PROVE Types'
    <2>1. Message("stop", 0) \in Seq(Bytes) /\ inbox[c] \in Seq(Bytes)
      BY Messages DEF Types
    <2>2. inbox[c] \o Message("stop", 0) \in Seq(Bytes)
      BY <2>1
    <2>3. inbox' \in [Clients -> Seq(Bytes)]
      BY <1>4, <2>2 DEF Tell, Sends, Types
    <2>4. QED
      BY <1>4, <2>3 DEF Tell, BecomesOf, Types, programs
  <1>5. ASSUME NEW c \in Clients, Connect(c) PROVE Types'
    BY <1>5 DEF Connect, BecomesOf, Goto, Types, programs, server
  <1>6. ASSUME NEW c \in Clients, Check(c) PROVE Types'
    <2>1. /\ pc'[c] \in {"ok", "give", "make", "menu", "take"}
          /\ pc' = [pc EXCEPT ![c] = pc'[c]]
      BY <1>6 DEF Check, Goto, Types
    <2>2. conn' \in [Clients -> {"none", "open", "fin", "reset", "dead"}]
      BY <1>6 DEF Check, ErrorIsTold, Types
    <2>3. UNCHANGED <<programs, server, outbox, taken, pin, quit>>
      BY <1>6 DEF Check
    <2>4. pc' \in [Clients -> {"start", "check", "make", "recheck", "take", "give", "menu",
                              "ask", "ok", "failed", "killed"}]
      <3> DEFINE l == pc'[c]
      <3>1. l \in {"ok", "give", "make", "menu", "take"} /\ pc' = [pc EXCEPT ![c] = l]
        BY <2>1
      <3> HIDE DEF l
      <3>2. QED
        BY <3>1 DEF Types
    <2>5. QED
      BY <2>2, <2>3, <2>4 DEF Types, programs, server
  <1>7. ASSUME NEW c \in Clients, Take(c) PROVE Types'
    <2> DEFINE bytes == First(inbox[c], Size(Kind(c)))
    <2>1. /\ conn' = [conn EXCEPT ![c] = IF @ = "reset" /\ inbox[c] = <<>> THEN "dead" ELSE @]
          /\ inbox' = [inbox EXCEPT ![c] = SubSeq(@, Len(bytes) + 1, Len(@))]
          /\ UNCHANGED <<programs, outbox, given, told, quit>>
          /\ \/ /\ pc' = [pc EXCEPT ![c] = IF type[c] = "second" THEN "recheck" ELSE "check"]
                /\ pin' = [pin EXCEPT ![c] = ValueOf(c, bytes)]
                /\ taken' = [taken EXCEPT ![c] = Append(@, pin'[c])]
             \/ /\ pc' \in {[pc EXCEPT ![c] = "take"], [pc EXCEPT ![c] = "failed"]}
                /\ UNCHANGED <<pin, taken>>
      BY <1>7 DEF Take, ErrorIsTold, Goto
    <2>2. inbox[c] \in Seq(Bytes) /\ Len(bytes) \in Nat
      <3>1. inbox[c] \in Seq(Bytes)
        BY DEF Types
      <3>2. Size(Kind(c)) \in Nat
        BY Sizes
      <3>3. QED
        BY <3>1, <3>2, FirstBytes
    <2>3. ValueOf(c, bytes) \in Nat
      BY Values
    <2> HIDE DEF bytes
    <2>4. inbox' \in [Clients -> Seq(Bytes)]
      <3>1. SubSeq(inbox[c], Len(bytes) + 1, Len(inbox[c])) \in Seq(Bytes)
        BY <2>2
      <3>2. QED
        BY <2>1, <3>1 DEF Types
    <2>5. conn' \in [Clients -> {"none", "open", "fin", "reset", "dead"}]
      BY <2>1 DEF Types
    <2>6. /\ pc' \in [Clients -> {"start", "check", "make", "recheck", "take", "give", "menu",
                                  "ask", "ok", "failed", "killed"}]
          /\ pin' \in [Clients -> Nat] /\ taken' \in [Clients -> Seq(Nat)]
      <3>1. CASE /\ pc' = [pc EXCEPT ![c] = IF type[c] = "second" THEN "recheck" ELSE "check"]
                 /\ pin' = [pin EXCEPT ![c] = ValueOf(c, bytes)]
                 /\ taken' = [taken EXCEPT ![c] = Append(@, pin'[c])]
        <4>1. pin' \in [Clients -> Nat] /\ pin'[c] \in Nat
          BY <2>3, <3>1 DEF Types
        <4>2. Append(taken[c], pin'[c]) \in Seq(Nat)
          BY <4>1 DEF Types
        <4>3. QED
          BY <3>1, <4>1, <4>2 DEF Types
      <3>2. CASE /\ pc' \in {[pc EXCEPT ![c] = "take"], [pc EXCEPT ![c] = "failed"]}
                 /\ UNCHANGED <<pin, taken>>
        BY <3>2 DEF Types
      <3>3. QED
        BY <2>1, <3>1, <3>2
    <2>7. QED
      BY <2>1, <2>4, <2>5, <2>6 DEF Types, programs
  <1>8. ASSUME NEW c \in Clients, NEW after \in {"check", "take"}, SendTo(c, after),
               UNCHANGED <<programs, server, taken, pin, quit>>
        PROVE  Types'
    <2>1. /\ pc' = [pc EXCEPT ![c] = pc'[c]] /\ pc'[c] \in {after, "failed", "killed"}
          /\ conn' = [conn EXCEPT ![c] = conn'[c]] /\ conn'[c] \in {conn[c], "dead"}
          /\ outbox' \in [Clients -> Seq(Nat)]
          /\ \A d \in Clients : Len(outbox'[d]) =< SocketBuffer
      BY <1>8, SendTypes
    <2>2. /\ pc' \in [Clients -> {"start", "check", "make", "recheck", "take", "give", "menu",
                                  "ask", "ok", "failed", "killed"}]
          /\ conn' \in [Clients -> {"none", "open", "fin", "reset", "dead"}]
      <3> DEFINE l == pc'[c]
                 state == conn'[c]
      <3>1. /\ l \in {after, "failed", "killed"} /\ state \in {conn[c], "dead"}
            /\ pc' = [pc EXCEPT ![c] = l] /\ conn' = [conn EXCEPT ![c] = state]
        BY <2>1
      <3> HIDE DEF l, state
      <3>2. QED
        BY <3>1 DEF Types
    <2>3. QED
      BY <1>8, <2>1, <2>2 DEF Types, programs, server
  <1>9. ASSUME NEW c \in Clients, Give(c) PROVE Types'
    BY <1>8, <1>9, Zenon DEF Give
  <1>10. ASSUME NEW c \in Clients, Ask(c) PROVE Types'
    BY <1>8, <1>10, Zenon DEF Ask
  <1>11. ASSUME NEW c \in Clients, Menu(c) PROVE Types'
    BY <1>11 DEF Menu, Goto, Types, programs, server
  <1>12. ASSUME NEW c \in Clients, Interrupt(c) PROVE Types'
    BY <1>12 DEF Interrupt, Goto, Types, programs, server
  <1>13. ASSUME NEW c \in Clients, NEW crooked \in BOOLEAN, Make(c, crooked) PROVE Types'
    BY <1>13 DEF Make, Goto, Types, programs, server
  <1>14. QED
    BY <1>1, <1>2, <1>3, <1>4, <1>5, <1>6, <1>7, <1>9, <1>10, <1>11, <1>12, <1>13, Zenon
       DEF Next, ServerNext, ClientNext, Step

-----------------------------------------------------------------------------
(* What the steps leave alone.                                             *)

\* Nothing of the client's stream changes.
StreamStays(d) ==
    /\ mark' = mark /\ type' = type /\ inbox'[d] = inbox[d] /\ given'[d] = given[d]
    /\ told'[d] = told[d] /\ taken'[d] = taken[d]

\* Then its stream is still right, and what it took of it.
LEMMA StreamStaysRight ==
    ASSUME NEW d \in Clients, Reads(d), Takes(d), StreamStays(d),
           pc[d] = "failed" => pc'[d] = "failed"
    PROVE  Reads(d)' /\ Takes(d)'
  <1>1. /\ mark' = mark /\ type' = type /\ inbox'[d] = inbox[d] /\ given'[d] = given[d]
        /\ told'[d] = told[d] /\ taken'[d] = taken[d]
    BY DEF StreamStays
  <1>2. Kind(d)' = Kind(d)
    BY <1>1 DEF Kind
  <1>3. Size(Kind(d))' = Size(Kind(d)) /\ Size("stop")' = Size("stop")
    BY <1>1, <1>2 DEF Size
  <1>4. Reads(d)'
    BY <1>1, <1>2, <1>3, Zenon DEF Reads
  <1>5. Takes(d)'
    BY <1>1, Zenon DEF Takes
  <1>6. QED
    BY <1>4, <1>5

\* A step of one client, or of the server with it, is nothing to another.
LEMMA OthersStay ==
    ASSUME Types, NEW c \in Clients, NEW d \in Clients, c # d, ServerNext(c) \/ ClientNext(c)
    PROVE  /\ StreamStays(d)
           /\ pc'[d] = pc[d] /\ conn'[d] = conn[d] /\ quit'[d] = quit[d]
  <1> USE DEF StreamStays, programs, server
  <1>1. CASE ServerSends(c)
    BY <1>1 DEF ServerSends, Sends, Types
  <1>2. CASE ServerTakesPin(c)
    BY <1>2 DEF ServerTakesPin
  <1>3. CASE Tell(c)
    BY <1>3 DEF Tell, Sends, BecomesOf, Types
  <1>4. CASE Connect(c)
    BY <1>4 DEF Connect, BecomesOf, Goto, Types
  <1>5. CASE Check(c)
    BY <1>5 DEF Check, ErrorIsTold, Goto, Types
  <1>6. CASE Take(c)
    <2>1. /\ conn' = [conn EXCEPT ![c] = conn'[c]]
          /\ inbox' = [inbox EXCEPT ![c] = inbox'[c]] /\ taken' = [taken EXCEPT ![c] = taken'[c]]
          /\ pc' = [pc EXCEPT ![c] = pc'[c]]
          /\ UNCHANGED <<programs, outbox, given, told, quit>>
      BY <1>6 DEF Take, ErrorIsTold, Goto, Types
    <2>2. QED
      BY <2>1 DEF Types
  <1>7. CASE Give(c)
    BY <1>7 DEF Give, SendTo, BecomesOf, Goto, Types
  <1>8. CASE Ask(c)
    BY <1>8 DEF Ask, SendTo, BecomesOf, Goto, Types
  <1>9. CASE Menu(c)
    BY <1>9 DEF Menu, Goto, Types
  <1>10. CASE Interrupt(c)
    BY <1>10 DEF Interrupt, Goto, Types
  <1>11. CASE \E crooked \in BOOLEAN : Make(c, crooked)
    BY <1>11 DEF Make, Goto, Types
  <1>12. QED
    BY <1>1, <1>2, <1>3, <1>4, <1>5, <1>6, <1>7, <1>8, <1>9, <1>10, <1>11, Zenon
       DEF ServerNext, ClientNext, Step

\* What a step that leaves a client and its connection alone does to its invariant.
LEMMA StaysRight ==
    ASSUME NEW d \in Clients, OneInv(d), StreamStays(d),
           pc'[d] = pc[d], conn'[d] = conn[d], quit'[d] = quit[d]
    PROVE  OneInv(d)'
  <1>1. Reads(d)' /\ Takes(d)'
    BY StreamStaysRight DEF OneInv
  <1>2. Connection(d)' /\ Ends(d)'
    BY Zenon DEF OneInv, StreamStays, Connection, Ends, Ended
  <1>3. QED
    BY <1>1, <1>2 DEF OneInv

-----------------------------------------------------------------------------
(* What the steps do to the stream of their client.                        *)

\* The types of one client, and its stream.
LEMMA ClientFacts ==
    ASSUME Types, NEW c \in Clients, Reads(c), pc[c] # "failed"
    PROVE  /\ inbox[c] \in Seq(Bytes) /\ taken[c] \in Seq(Nat) /\ Len(taken[c]) \in Nat
           /\ given[c] \in Nat /\ told[c] \in BOOLEAN /\ Size("stop") \in Nat
           /\ Size(Kind(c)) \in {2, 6} /\ Kind(c) \in {"pin", "log", "result"}
           /\ Stream(inbox[c], Len(taken[c]), given[c], told[c], Kind(c), Size(Kind(c)),
                     Size("stop"))
  <1>1. /\ inbox[c] \in Seq(Bytes) /\ taken[c] \in Seq(Nat)
        /\ given[c] \in Nat /\ told[c] \in BOOLEAN
    BY DEF Types
  <1>2. Len(taken[c]) \in Nat
    BY <1>1
  <1>3. Size("stop") \in Nat /\ Size(Kind(c)) \in {2, 6} /\ Kind(c) \in {"pin", "log", "result"}
    BY Sizes
  <1>4. QED
    BY <1>1, <1>2, <1>3, Zenon DEF Reads

\* Sizes and kinds stay what they are.
LEMMA SizesStay ==
    ASSUME NEW c \in Clients, mark' = mark, type' = type
    PROVE  /\ Kind(c)' = Kind(c) /\ Size(Kind(c))' = Size(Kind(c)) /\ Size("stop")' = Size("stop")
  BY DEF Kind, Size

\* A message is sent to one that was not told to end.
LEMMA SentRight ==
    ASSUME ConstantsOK, Types, NEW c \in Clients, OneInv(c), ServerSends(c)
    PROVE  Reads(c)' /\ Takes(c)'
  <1>1. /\ given' = [given EXCEPT ![c] = @ + 1] /\ conn[c] = "open" /\ pc[c] # "failed"
        /\ inbox' = [inbox EXCEPT ![c] = @ \o Message(Kind(c), given'[c])]
        /\ mark' = mark /\ type' = type /\ told' = told /\ taken' = taken
    BY Zenon DEF ServerSends, Sends, Up, Ended, programs
  <1>2. told[c] = FALSE
    BY <1>1 DEF OneInv, Connection, Types
  <1>3. given'[c] = given[c] + 1 /\ inbox'[c] = inbox[c] \o Message(Kind(c), given'[c])
    BY <1>1 DEF Types
  <1>4. /\ inbox[c] \in Seq(Bytes) /\ Len(taken[c]) \in Nat /\ given[c] \in Nat
        /\ Size("stop") \in Nat /\ Size(Kind(c)) \in {2, 6}
        /\ Stream(inbox[c], Len(taken[c]), given[c], told[c], Kind(c), Size(Kind(c)), Size("stop"))
    BY <1>1, ClientFacts DEF OneInv
  <1> DEFINE m == Message(Kind(c), given[c] + 1)
  <1>5. given[c] + 1 \in Nat /\ Kind(c) \in {"pin", "log", "result", "stop"}
    BY <1>4, Sizes
  <1>6. /\ m \in Seq(Bytes) /\ Len(m) = Size(Kind(c))
        /\ \A k \in 1 .. Size(Kind(c)) : m[k] = <<Kind(c), given[c] + 1, k>>
    BY <1>4, <1>5, Messages, Zenon
  <1>7. inbox'[c] = inbox[c] \o m
    BY <1>3
  <1> HIDE DEF m
  <1>8. /\ Stream(inbox[c] \o m, Len(taken[c]), given[c] + 1, FALSE, Kind(c), Size(Kind(c)),
                  Size("stop"))
        /\ Len(taken[c]) =< given[c]
    <2>1. Stream(inbox[c], Len(taken[c]), given[c], FALSE, Kind(c), Size(Kind(c)), Size("stop"))
      BY <1>2, <1>4, Zenon
    <2>2. Stream(inbox[c] \o m, Len(taken[c]), given[c] + 1, FALSE, Kind(c), Size(Kind(c)),
                 Size("stop"))
      BY <1>4, <1>6, <2>1, SentStream, ZenonT(60)
    <2>3. Len(taken[c]) =< given[c]
      <3>1. Len(inbox[c]) = Size(Kind(c)) * (given[c] - Len(taken[c]))
        BY <1>4, <2>1 DEF Stream, Lengths
      <3>2. QED
        BY <1>4, <3>1
    <2>4. QED
      BY <2>2, <2>3
  <1>9. Reads(c)'
    <2>1. Stream(inbox'[c], Len(taken'[c]), given'[c], told'[c], Kind(c)', Size(Kind(c))',
                 Size("stop")')
      BY <1>1, <1>2, <1>3, <1>7, <1>8, SizesStay, Zenon
    <2>2. QED
      BY <2>1, Zenon DEF Reads
  <1>10. Takes(c)'
    <2>1. InOrder(taken[c], given[c])
      BY DEF OneInv, Takes
    <2>2. InOrder(taken[c], given[c] + 1)
      BY <1>4, <1>8, <2>1 DEF InOrder
    <2>3. ~(Len(taken[c]) > given[c] + 1)
      BY <1>4, <1>8
    <2>4. QED
      BY <1>1, <1>3, <2>2, <2>3 DEF Takes
  <1>11. QED
    BY <1>9, <1>10

\* The shutdown message is sent once.
LEMMA ToldRight ==
    ASSUME Types, NEW c \in Clients, OneInv(c), Tell(c)
    PROVE  Reads(c)' /\ Takes(c)'
  <1>1. /\ told' = [told EXCEPT ![c] = TRUE] /\ conn[c] = "open" /\ pc[c] # "failed"
        /\ inbox' = [inbox EXCEPT ![c] = @ \o Message("stop", 0)]
        /\ mark' = mark /\ type' = type /\ given' = given /\ taken' = taken
    BY Zenon DEF Tell, Sends, Up, Ended, programs
  <1>2. told[c] = FALSE
    BY <1>1 DEF OneInv, Connection, Types
  <1>3. told'[c] = TRUE /\ inbox'[c] = inbox[c] \o Message("stop", 0)
    BY <1>1 DEF Types
  <1>4. /\ inbox[c] \in Seq(Bytes) /\ Len(taken[c]) \in Nat /\ given[c] \in Nat
        /\ Size("stop") \in Nat /\ Size(Kind(c)) \in {2, 6}
        /\ Stream(inbox[c], Len(taken[c]), given[c], told[c], Kind(c), Size(Kind(c)), Size("stop"))
    BY <1>1, ClientFacts DEF OneInv
  <1> DEFINE m == Message("stop", 0)
  <1>5. /\ m \in Seq(Bytes) /\ Len(m) = Size("stop")
        /\ \A k \in 1 .. Size("stop") : m[k] = <<"stop", 0, k>>
    <2>1. 0 \in Nat
      OBVIOUS
    <2>2. QED
      BY <2>1, Messages, Zenon
  <1>6. inbox'[c] = inbox[c] \o m
    BY <1>3
  <1> HIDE DEF m
  <1>7. Stream(inbox[c] \o m, Len(taken[c]), given[c], TRUE, Kind(c), Size(Kind(c)), Size("stop"))
    <2>1. Stream(inbox[c], Len(taken[c]), given[c], FALSE, Kind(c), Size(Kind(c)), Size("stop"))
      BY <1>2, <1>4, Zenon
    <2>2. QED
      BY <1>4, <1>5, <2>1, ToldStream, ZenonT(60)
  <1>8. Reads(c)'
    <2>1. Stream(inbox'[c], Len(taken'[c]), given'[c], told'[c], Kind(c)', Size(Kind(c))',
                 Size("stop")')
      BY <1>1, <1>3, <1>6, <1>7, SizesStay, Zenon
    <2>2. QED
      BY <2>1, Zenon DEF Reads
  <1>9. Takes(c)'
    BY <1>1, <1>3 DEF OneInv, Takes
  <1>10. QED
    BY <1>8, <1>9

\* What waits first in the stream of a client.
LEMMA FirstInStream ==
    ASSUME Types, NEW c \in Clients, Reads(c), pc[c] # "failed"
    PROVE  Begins(inbox[c], Len(taken[c]), given[c], told[c], Kind(c), Size(Kind(c)), Size("stop"))
  <1>1. /\ inbox[c] \in Seq(Bytes) /\ Len(taken[c]) \in Nat /\ given[c] \in Nat
        /\ told[c] \in BOOLEAN /\ Size("stop") \in Nat /\ Size(Kind(c)) \in {2, 6}
        /\ Stream(inbox[c], Len(taken[c]), given[c], told[c], Kind(c), Size(Kind(c)), Size("stop"))
    BY ClientFacts
  <1>2. QED
    BY <1>1, HeadOfStream, Zenon

\* client_should_stop does not see the shutdown message, nor an error, before the client has
\* taken all messages and the connection has ended.
LEMMA StopSeen ==
    ASSUME Types, NEW c \in Clients, OneInv(c), pc[c] # "failed", ShouldStop(c)
    PROVE  Len(taken[c]) >= given[c] /\ conn[c] # "open"
  <1> DEFINE n == Len(taken[c])
             g == given[c]
             sz == Size(Kind(c))
             in == inbox[c]
  <1>1. /\ n < g => Len(in) >= sz /\ \A k \in 1 .. sz : in[k] = <<Kind(c), n + 1, k>>
        /\ n >= g /\ ~told[c] => Len(in) = 0
    BY FirstInStream DEF OneInv, Begins
  <1>2. /\ in \in Seq(Bytes) /\ n \in Nat /\ g \in Nat /\ sz \in {2, 6} /\ told[c] \in BOOLEAN
        /\ told[c] => conn[c] # "open"
    BY ClientFacts DEF OneInv, Connection
  <1>3. CASE is_shutdown_message(First(in, NET_BUFFER_SIZE))
    <2>1. First(in, NET_BUFFER_SIZE) = Message("stop", 0)
      BY <1>3 DEF is_shutdown_message
    <2>2. Len(Message("stop", 0)) >= 1 /\ Message("stop", 0)[1] = <<"stop", 0, 1>>
      <3>1. Size("stop") \in Nat \ {0} /\ 1 \in 1 .. Size("stop")
        BY Messages
      <3>2. QED
        BY <3>1, Messages
    <2>3. Len(in) >= 1 /\ in[1] = <<"stop", 0, 1>>
      <3>1. NET_BUFFER_SIZE \in Nat
        BY Sizes
      <3>2. /\ Len(First(in, NET_BUFFER_SIZE)) =< Len(in)
            /\ \A k \in 1 .. Len(First(in, NET_BUFFER_SIZE)) :
                  First(in, NET_BUFFER_SIZE)[k] = in[k]
        BY <1>2, <3>1, FirstBytes
      <3>3. Len(in) \in Nat
        BY <1>2
      <3> HIDE DEF in
      <3>4. Len(Message("stop", 0)) =< Len(in) /\ 1 \in 1 .. Len(Message("stop", 0))
        <4>1. Len(Message("stop", 0)) \in Nat
          BY Messages
        <4>2. QED
          BY <2>1, <2>2, <3>2, <4>1
      <3>5. QED
        BY <2>1, <2>2, <3>2, <3>3, <3>4
    <2>4. ~(n < g)
      <3>1. ASSUME n < g PROVE FALSE
        <4>1. 1 \in 1 .. sz
          BY <1>2
        <4>2. in[1] = <<Kind(c), n + 1, 1>>
          BY <1>1, <3>1, <4>1
        <4>3. QED
          BY <1>2, <2>3, <4>2
      <3>2. QED
        BY <3>1
    <2>5. told[c]
      BY <1>1, <1>2, <2>3, <2>4
    <2>6. QED
      BY <1>2, <2>4, <2>5
  <1>4. CASE in = <<>> /\ conn[c] = "reset"
    BY <1>1, <1>2, <1>4
  <1>5. QED
    BY <1>3, <1>4 DEF ShouldStop

\* A message that waits is taken for what it is.
LEMMA MessageIsTaken ==
    ASSUME Types, NEW c \in Clients, NEW n \in Nat, n < given[c], NEW bytes \in Seq(Bytes),
           Len(bytes) = Size(Kind(c)),
           \A k \in 1 .. Size(Kind(c)) : bytes[k] = <<Kind(c), n + 1, k>>
    PROVE  ValueOf(c, bytes) = n + 1
  <1>1. given[c] \in Nat /\ n + 1 \in Nat
    BY DEF Types
  <1>2. n + 1 \in 1 .. given[c]
    BY <1>1
  <1>3. Kind(c) \in {"pin", "log", "result", "stop"}
    BY Sizes
  <1> DEFINE m == Message(Kind(c), n + 1)
  <1>4. /\ m \in Seq(Bytes) /\ Len(m) = Size(Kind(c))
        /\ \A k \in 1 .. Size(Kind(c)) : m[k] = <<Kind(c), n + 1, k>>
    BY <1>1, <1>3, Messages, Zenon
  <1> HIDE DEF m
  <1>5. bytes = m
    <2>1. \A k \in 1 .. Size(Kind(c)) : bytes[k] = m[k]
      BY <1>4
    <2>2. QED
      BY <1>4, <2>1
  <1>6. bytes = Message(Kind(c), n + 1)
    BY <1>5 DEF m
  <1>7. QED
    BY <1>2, <1>6, Values

\* A piece of the shutdown message is no message.
LEMMA StopIsTaken ==
    ASSUME Types, NEW c \in Clients, NEW bytes, NEW k, bytes[1] = <<"stop", 0, k>>
    PROVE  ValueOf(c, bytes) = Ghost
  <1>1. Kind(c) \in {"pin", "log", "result"} /\ Size(Kind(c)) \in {2, 6} /\ given[c] \in Nat
    BY Sizes DEF Types
  <1>2. ASSUME NEW id \in 1 .. given[c], bytes = Message(Kind(c), id) PROVE FALSE
    <2>1. id \in Nat /\ Kind(c) \in {"pin", "log", "result", "stop"} /\ 1 \in 1 .. Size(Kind(c))
      BY <1>1
    <2>2. bytes[1] = <<Kind(c), id, 1>>
      BY <1>2, <2>1, Messages
    <2>3. QED
      BY <1>1, <2>2
  <1>3. QED
    BY <1>2, Values

\* What Take takes is what waits first; who fails in it has lost its connection.
LEMMA TakenRight ==
    ASSUME Types, Types', NEW c \in Clients, OneInv(c), Take(c)
    PROVE  /\ Reads(c)' /\ Takes(c)'
           /\ pc'[c] \in {"take", "check", "recheck"} \/ (conn'[c] # "open" /\ pc'[c] = "failed")
           /\ pc'[c] = "take" => pc[c] = "take"
           /\ conn'[c] = conn[c] \/ (conn[c] = "reset" /\ conn'[c] = "dead")
  <1> DEFINE n == Len(taken[c])
             g == given[c]
             sz == Size(Kind(c))
             in == inbox[c]
             stop == Size("stop")
             bytes == First(inbox[c], Size(Kind(c)))
  <1>1. /\ pc[c] = "take" /\ (in # <<>> \/ conn[c] # "open")
        /\ conn' = [conn EXCEPT ![c] = IF @ = "reset" /\ inbox[c] = <<>> THEN "dead" ELSE @]
        /\ inbox' = [inbox EXCEPT ![c] = SubSeq(@, Len(bytes) + 1, Len(@))]
        /\ mark' = mark /\ type' = type /\ given' = given /\ told' = told
        /\ IF Len(bytes) = Size(Kind(c))
           THEN /\ pc' = [pc EXCEPT ![c] = IF type[c] = "second" THEN "recheck" ELSE "check"]
                /\ pin' = [pin EXCEPT ![c] = ValueOf(c, bytes)]
                /\ taken' = [taken EXCEPT ![c] = Append(@, pin'[c])]
           ELSE /\ pc' = [pc EXCEPT ![c] = IF conn[c] # "reset" /\ ReceivesAgain(c, bytes)
                                           THEN "take" ELSE "failed"]
                /\ UNCHANGED <<pin, taken>>
    BY DEF Take, ErrorIsTold, Goto, programs
  <1>2. /\ in \in Seq(Bytes) /\ n \in Nat /\ g \in Nat /\ sz \in {2, 6} /\ told[c] \in BOOLEAN
        /\ taken[c] \in Seq(Nat) /\ stop \in Nat
        /\ Stream(in, n, g, told[c], Kind(c), sz, stop)
    BY <1>1, ClientFacts DEF OneInv
  <1>3. Begins(in, n, g, told[c], Kind(c), sz, stop)
    BY <1>1, FirstInStream DEF OneInv
  <1>4. /\ bytes \in Seq(Bytes) /\ Len(bytes) = IF Len(in) < sz THEN Len(in) ELSE sz
        /\ \A k \in 1 .. Len(bytes) : bytes[k] = in[k]
    <2>1. sz \in Nat
      BY <1>2
    <2>2. QED
      BY <1>2, <2>1, FirstBytes
  <1>5. conn'[c] = conn[c] \/ (conn[c] = "reset" /\ conn'[c] = "dead")
    BY <1>1 DEF Types
  <1>6. InOrder(taken[c], g) /\ (told[c] => conn[c] # "open")
    BY DEF OneInv, Takes, Connection
  <1>7. inbox'[c] = SubSeq(in, Len(bytes) + 1, Len(in))
    BY <1>1 DEF Types
  <1> HIDE DEF bytes
  <1>8. CASE Len(bytes) = sz
    <2>1. Len(in) >= sz
      BY <1>2, <1>4, <1>8
    <2>2. /\ pc'[c] \in {"check", "recheck"} /\ pin'[c] = ValueOf(c, bytes)
          /\ taken'[c] = Append(taken[c], ValueOf(c, bytes))
      BY <1>1, <1>8 DEF Types
    <2>3. ValueOf(c, bytes) \in Nat
      BY Values
    <2>4. Len(taken'[c]) = n + 1
      BY <1>2, <2>2, <2>3
    <2>5. Reads(c)'
      <3>1. Stream(SubSeq(in, sz + 1, Len(in)), n + 1, g, told[c], Kind(c), sz, stop)
        BY <1>2, <2>1, TakenStream, ZenonT(60)
      <3>2. inbox'[c] = SubSeq(in, sz + 1, Len(in)) /\ given'[c] = g /\ told'[c] = told[c]
        BY <1>1, <1>7, <1>8
      <3>3. Stream(inbox'[c], Len(taken'[c]), given'[c], told'[c], Kind(c)', Size(Kind(c))',
                   Size("stop")')
        BY <1>1, <2>4, <3>1, <3>2, SizesStay, Zenon
      <3>4. QED
        BY <3>3, Zenon DEF Reads
    <2>6. Takes(c)'
      <3> DEFINE v == ValueOf(c, bytes)
      <3>1. CASE n < g
        <4>1. v = n + 1
          <5>1. \A k \in 1 .. sz : bytes[k] = <<Kind(c), n + 1, k>>
            BY <1>3, <1>4, <1>8, <3>1 DEF Begins
          <5>2. QED
            BY <1>2, <1>4, <1>8, <3>1, <5>1, MessageIsTaken
        <4> HIDE DEF v
        <4>2. InOrder(Append(taken[c], v), g)
          BY <1>2, <1>6, <3>1, <4>1 DEF InOrder
        <4>3. ~(n + 1 > g)
          BY <1>2, <3>1
        <4>4. taken'[c] = Append(taken[c], v) /\ given'[c] = g
          BY <1>1, <2>2 DEF v
        <4>5. QED
          BY <2>4, <4>2, <4>3, <4>4, Zenon DEF Takes
      <3>2. CASE n >= g
        <4>1. /\ Len(in) = IF told[c] THEN stop - sz * (n - g) ELSE 0
              /\ \A k \in 1 .. Len(in) : in[k] = <<"stop", 0, sz * (n - g) + k>>
          BY <1>3, <3>2 DEF Begins
        <4>2. told[c] /\ stop = 4 /\ sz = 2 /\ n =< g + 1 /\ mark # "10"
          <5>1. stop = IF mark = "10" THEN 1 ELSE 4
            BY Sizes
          <5>2. told[c]
            BY <1>2, <2>1, <4>1
          <5>3. stop - sz * (n - g) >= sz
            BY <2>1, <4>1, <5>2
          <5>4. QED
            BY <1>2, <3>2, <5>1, <5>2, <5>3
        <4>3. type[c] \in {"second", "third"}
          <5>1. type[c] # "first"
            BY <1>1 DEF OneInv, Connection
          <5>2. Kind(c) = "pin"
            BY <4>2, Sizes
          <5>3. type[c] \in {"first", "second", "third"}
            BY <5>2, Sizes
          <5>4. QED
            BY <5>1, <5>3
        <4>4. v = Ghost
          <5>1. bytes[1] = <<"stop", 0, sz * (n - g) + 1>>
            <6>1. 1 \in 1 .. Len(in) /\ 1 \in 1 .. Len(bytes)
              BY <1>2, <1>4, <1>8, <2>1
            <6>2. QED
              BY <1>4, <4>1, <6>1, Zenon
          <5>2. QED
            BY <5>1, StopIsTaken
        <4> HIDE DEF v
        <4>5. InOrder(Append(taken[c], v), g)
          BY <1>2, <1>6, <3>2, <4>4 DEF InOrder, Ghost
        <4>6. n + 1 =< g + 2
          BY <1>2, <4>2
        <4>7. taken'[c] = Append(taken[c], v) /\ given'[c] = g
          BY <1>1, <2>2 DEF v
        <4>8. told'[c] /\ mark' # "10" /\ type'[c] \in {"second", "third"}
          BY <1>1, <4>2, <4>3
        <4>9. QED
          BY <2>4, <4>5, <4>6, <4>7, <4>8, Zenon DEF Takes
      <3>3. QED
        BY <1>2, <3>1, <3>2
    <2>7. QED
      BY <1>5, <2>2, <2>5, <2>6
  <1>9. CASE Len(bytes) # sz
    <2>1. Len(in) < sz /\ Len(bytes) = Len(in)
      BY <1>2, <1>4, <1>9
    <2>2. /\ taken' = taken
          /\ pc'[c] = IF conn[c] # "reset" /\ ReceivesAgain(c, bytes) THEN "take" ELSE "failed"
      BY <1>1, <1>9 DEF Types
    <2>3. CASE in = <<>>
      <3>1. inbox'[c] = inbox[c]
        BY <1>7, <2>1, <2>3
      <3>2. StreamStays(c)
        BY <1>1, <2>2, <3>1 DEF StreamStays
      <3>3. Reads(c)' /\ Takes(c)'
        BY <1>1, <3>2, StreamStaysRight DEF OneInv
      <3>4. QED
        BY <1>1, <1>5, <2>2, <2>3, <3>3
    <2>4. CASE in # <<>>
      <3>1. pc'[c] = "failed"
        <4>1. bytes # <<>>
          BY <1>2, <1>4, <2>1, <2>4
        <4>2. QED
          BY <2>2, <4>1 DEF ReceivesAgain
      <3>2. told[c]
        <4>1. ~(n < g)
          <5>1. n < g => Len(in) >= sz
            BY <1>3, Zenon DEF Begins
          <5>2. QED
            BY <1>2, <2>1, <5>1
        <4>2. Len(in) # 0
          BY <1>2, <2>4
        <4>3. QED
          BY <1>2, <1>3, <4>1, <4>2 DEF Begins
      <3>3. Reads(c)' /\ Takes(c)'
        <4>1. Reads(c)'
          BY <3>1 DEF Reads
        <4>2. Takes(c)'
          BY <1>1, <2>2 DEF OneInv, Takes
        <4>3. QED
          BY <4>1, <4>2
      <3>4. QED
        BY <1>5, <1>6, <3>1, <3>2, <3>3
    <2>5. QED
      BY <2>3, <2>4
  <1>10. QED
    BY <1>8, <1>9

\* No step changes the programs.
LEMMA ProgramsStay ==
    ASSUME Next
    PROVE  mark' = mark /\ type' = type
  BY DEF Next, Close, ServerNext, ClientNext, Step, ServerSends, ServerTakesPin, Tell, Connect,
         Check, Take, Give, Ask, Menu, Interrupt, Make, programs

-----------------------------------------------------------------------------
(* Each step keeps the invariant of each client.                           *)

LEMMA OneStep ==
    ASSUME ConstantsOK, Types, Types', NEW d \in Clients, OneInv(d), Next
    PROVE  OneInv(d)'
  <1>0. /\ pc[d] \in {"start", "check", "make", "recheck", "take", "give", "menu", "ask", "ok",
                      "failed", "killed"}
        /\ conn[d] \in {"none", "open", "fin", "reset", "dead"}
        /\ told[d] \in BOOLEAN /\ quit[d] \in BOOLEAN
    BY DEF Types
  <1>1. ASSUME NEW c \in Clients, ServerNext(c) \/ ClientNext(c), c # d PROVE OneInv(d)'
    BY <1>1, OthersStay, StaysRight
  <1>2. CASE Close
    <2>1. /\ pc' = pc /\ quit' = quit /\ type' = type /\ told' = told
          /\ \/ conn'[d] = conn[d]
             \/ conn[d] = "open" /\ ~Ended(d) /\ conn'[d] \in {"fin", "reset"}
             \/ ~Ended(d) /\ conn[d] = "fin" /\ conn'[d] = "dead"
      BY <1>2 DEF Close, Up, programs, server
    <2>2. StreamStays(d)
      BY <1>2 DEF Close, StreamStays, programs, server
    <2>3. Reads(d)' /\ Takes(d)'
      BY <2>1, <2>2, StreamStaysRight DEF OneInv
    <2>4. conn[d] # "none" => conn'[d] # "none"
      BY <2>1
    <2>5. conn[d] # "open" => conn'[d] # "open"
      BY <2>1
    <2>6. conn[d] = "none" => conn'[d] = "none"
      BY <2>1
    <2>7. Connection(d)'
      BY <1>0, <2>1, <2>4, <2>5, <2>6 DEF OneInv, Connection
    <2>8. Ends(d)'
      <3>1. taken'[d] = taken[d] /\ given'[d] = given[d]
        BY <2>2 DEF StreamStays
      <3>2. QED
        BY <2>1, <2>5, <3>1 DEF OneInv, Ends, Ended
    <2>9. QED
      BY <2>3, <2>7, <2>8 DEF OneInv
  <1>3. CASE ServerSends(d)
    <2>1. Reads(d)' /\ Takes(d)'
      BY <1>3, SentRight
    <2>2. /\ ~Ended(d) /\ pc' = pc /\ conn' = conn /\ told' = told /\ quit' = quit /\ type' = type
      BY <1>3, Zenon DEF ServerSends, Up, programs
    <2>3. Connection(d)' /\ Ends(d)'
      BY <2>2 DEF OneInv, Connection, Ends, Ended
    <2>4. QED
      BY <2>1, <2>3 DEF OneInv
  <1>4. CASE Tell(d)
    <2>1. Reads(d)' /\ Takes(d)'
      BY <1>4, ToldRight
    <2>2. /\ ~Ended(d) /\ conn[d] = "open" /\ conn'[d] = "fin" /\ pc' = pc /\ type' = type
          /\ quit' = quit
      BY <1>4 DEF Tell, Up, BecomesOf, programs, Types
    <2>3. Connection(d)' /\ Ends(d)'
      BY <2>2 DEF OneInv, Connection, Ends, Ended
    <2>4. QED
      BY <2>1, <2>3 DEF OneInv
  <1>5. CASE Take(d)
    <2>1. /\ Reads(d)' /\ Takes(d)'
          /\ pc'[d] \in {"take", "check", "recheck"} \/ (conn'[d] # "open" /\ pc'[d] = "failed")
          /\ pc'[d] = "take" => pc[d] = "take"
          /\ conn'[d] = conn[d] \/ (conn[d] = "reset" /\ conn'[d] = "dead")
      BY <1>5, TakenRight
    <2>2. told' = told /\ quit' = quit /\ type' = type
      BY <1>5 DEF Take, programs
    <2>3. Connection(d)' /\ Ends(d)'
      BY <1>0, <2>1, <2>2 DEF OneInv, Connection, Ends, Ended
    <2>4. QED
      BY <2>1, <2>3 DEF OneInv
  <1>6. ASSUME StreamStays(d), pc[d] = "failed" => pc'[d] = "failed",
               Connection(d)', Ends(d)'
        PROVE  OneInv(d)'
    BY <1>6, StreamStaysRight DEF OneInv
  <1>7. CASE ServerTakesPin(d)
    <2>1. StreamStays(d) /\ pc' = pc /\ conn' = conn /\ quit' = quit
      BY <1>7 DEF ServerTakesPin, StreamStays, programs, server
    <2>2. QED
      BY <2>1, StaysRight
  <1>8. CASE Connect(d)
    <2>1. /\ StreamStays(d) /\ quit' = quit /\ pc[d] = "start" /\ type' = type
          /\ \/ conn'[d] = "open" /\ pc'[d] = "check"
             \/ conn'[d] = conn[d] /\ pc'[d] = "failed"
      BY <1>8 DEF Connect, StreamStays, BecomesOf, Goto, programs, server, Types
    <2>2. conn[d] = "none" /\ ~told[d]
      BY <2>1 DEF OneInv, Connection
    <2>3. told'[d] = told[d]
      BY <2>1 DEF StreamStays
    <2>4. Connection(d)' /\ Ends(d)'
      BY <2>1, <2>2, <2>3 DEF Connection, Ends, Ended
    <2>5. QED
      BY <1>6, <2>1, <2>4
  <1>9. CASE Check(d)
    <2>1. /\ StreamStays(d) /\ quit' = quit /\ type' = type /\ told' = told
          /\ pc[d] \in {"check", "recheck"}
          /\ given' = given /\ taken' = taken
          /\ conn'[d] = conn[d] \/ (conn[d] = "reset" /\ conn'[d] = "dead")
      BY <1>9 DEF Check, StreamStays, ErrorIsTold, programs, server, Types
    <2>2. /\ ShouldStop(d) => pc'[d] = "ok"
          /\ ~ShouldStop(d) => pc'[d] \in {"give", "make", "menu", "take"}
          /\ pc'[d] \in {"take", "menu"} => type[d] # "first"
      <3>1. pc'[d] = CASE ShouldStop(d) -> "ok"
                       [] ~ShouldStop(d) /\ pc[d] = "recheck" -> "give"
                       [] ~ShouldStop(d) /\ pc[d] = "check" ->
                            CASE type[d] = "first" -> "make"
                              [] type[d] = "manager" -> "menu"
                              [] OTHER -> "take"
        BY <1>9, Zenon DEF Check, Goto, Types
      <3>2. CASE ShouldStop(d)
        BY <3>1, <3>2, Zenon
      <3>3. CASE ~ShouldStop(d)
        <4>1. CASE pc[d] = "recheck"
          BY <3>1, <3>3, <4>1, Zenon
        <4>2. CASE pc[d] = "check"
          <5>1. pc'[d] = CASE type[d] = "first" -> "make"
                           [] type[d] = "manager" -> "menu"
                           [] OTHER -> "take"
            BY <3>1, <3>3, <4>2, Zenon
          <5>2. QED
            BY <3>3, <5>1
        <4>3. QED
          BY <2>1, <4>1, <4>2
      <3>4. QED
        BY <3>2, <3>3
    <2>3. ShouldStop(d) => Len(taken[d]) >= given[d] /\ conn[d] # "open"
      BY <2>1, StopSeen
    <2>4. Connection(d)'
      BY <1>0, <2>1, <2>2 DEF OneInv, Connection
    <2>5. Ends(d)'
      BY <2>1, <2>2, <2>3 DEF Ends, Ended
    <2>6. QED
      BY <1>6, <2>1, <2>4, <2>5
  <1>10. ASSUME NEW after \in {"check", "take"}, SendTo(d, after),
                UNCHANGED <<programs, server, taken, pin, quit>>,
                pc[d] \notin {"start", "failed"}, after = "take" => type[d] # "first"
         PROVE  OneInv(d)'
    <2>1. /\ pc'[d] \in {after, "failed", "killed"} /\ conn'[d] \in {conn[d], "dead"}
          /\ conn[d] = "open" => conn'[d] = "open" /\ pc'[d] = after
          /\ conn[d] \in {"open", "fin", "reset", "dead"}
      BY <1>10, SendTypes
    <2>2. StreamStays(d) /\ quit' = quit /\ type' = type /\ told' = told
      BY <1>10 DEF StreamStays, programs, server
    <2>3. conn'[d] # "none"
      BY <2>1
    <2>4. Connection(d)'
      BY <1>0, <1>10, <2>1, <2>2, <2>3 DEF OneInv, Connection
    <2>5. Ends(d)'
      BY <2>1, <2>2, <2>3 DEF OneInv, Ends, Ended
    <2>6. QED
      BY <1>6, <1>10, <2>2, <2>4, <2>5
  <1>11. CASE Give(d)
    <2>1. pc[d] = "give" /\ SendTo(d, "check") /\ UNCHANGED <<programs, server, taken, pin, quit>>
      BY <1>11, Zenon DEF Give
    <2>2. QED
      BY <1>10, <2>1
  <1>12. CASE Menu(d)
    <2>1. /\ StreamStays(d) /\ conn' = conn /\ type' = type /\ pc[d] = "menu" /\ told' = told
          /\ pc'[d] = "ask" \/ (pc'[d] = "ok" /\ quit'[d])
      BY <1>12 DEF Menu, Goto, StreamStays, programs, server, Types
    <2>2. Connection(d)' /\ Ends(d)'
      BY <2>1 DEF OneInv, Connection, Ends, Ended
    <2>3. QED
      BY <1>6, <2>1, <2>2
  <1>13. CASE Interrupt(d)
    <2>1. /\ StreamStays(d) /\ conn' = conn /\ type' = type /\ ~Ended(d) /\ told' = told
          /\ pc'[d] = "killed" /\ quit'[d]
      BY <1>13 DEF Interrupt, Goto, StreamStays, programs, server, Types
    <2>2. Connection(d)' /\ Ends(d)'
      BY <2>1 DEF OneInv, Connection, Ends, Ended
    <2>3. QED
      BY <1>6, <2>1, <2>2 DEF Ended
  <1>14. ASSUME NEW crooked \in BOOLEAN, Make(d, crooked) PROVE OneInv(d)'
    <2>1. /\ StreamStays(d) /\ conn' = conn /\ type' = type /\ pc[d] = "make" /\ told' = told
          /\ pc'[d] \in {"check", "recheck"}
      BY <1>14 DEF Make, Goto, StreamStays, programs, server, Types
    <2>2. Connection(d)' /\ Ends(d)'
      BY <2>1 DEF OneInv, Connection, Ends, Ended
    <2>3. QED
      BY <1>6, <2>1, <2>2
  <1>15. CASE Ask(d)
    <2>1. pc[d] = "ask" /\ SendTo(d, "take") /\ UNCHANGED <<programs, server, taken, pin, quit>>
      BY <1>15, Zenon DEF Ask
    <2>2. type[d] # "first"
      BY <2>1 DEF OneInv, Connection
    <2>3. QED
      BY <1>10, <2>1, <2>2
  <1>16. QED
    BY <1>1, <1>2, <1>3, <1>4, <1>5, <1>7, <1>8, <1>9, <1>11, <1>12, <1>13, <1>14, <1>15, Zenon
       DEF Next, ServerNext, ClientNext, Step

-----------------------------------------------------------------------------
(* What no step takes back.                                                *)

\* A client keeps its type, stays told, stays ended, and its connection is not unmade.
Forward(d) ==
    /\ type' = type /\ (told[d] => told'[d]) /\ (Ended(d) => pc'[d] = pc[d])
    /\ (conn'[d] = "none" => conn[d] = "none")

LEMMA StepsForward ==
    ASSUME ConstantsOK, Types, Types', NEW d \in Clients, OneInv(d), Next
    PROVE  Forward(d)
  <1>0. /\ pc[d] \in {"start", "check", "make", "recheck", "take", "give", "menu", "ask", "ok",
                      "failed", "killed"}
        /\ conn[d] \in {"none", "open", "fin", "reset", "dead"} /\ told[d] \in BOOLEAN
    BY DEF Types
  <1>1. type' = type
    BY ProgramsStay
  <1>2. ASSUME NEW c \in Clients, ServerNext(c) \/ ClientNext(c), c # d
        PROVE  Forward(d)
    BY <1>2, OthersStay DEF StreamStays, Forward
  <1>3. CASE Close
    BY <1>1, <1>3 DEF Forward, Close, Up, server
  <1>4. CASE ServerSends(d) \/ ServerTakesPin(d)
    BY <1>1, <1>4 DEF Forward, ServerSends, ServerTakesPin, server
  <1>5. CASE Tell(d)
    BY <1>1, <1>5 DEF Forward, Tell, BecomesOf, Types
  <1>6. CASE Connect(d)
    BY <1>1, <1>6 DEF Forward, Connect, BecomesOf, Goto, Ended, Types, server
  <1>7. CASE Check(d)
    BY <1>1, <1>7 DEF Forward, Check, ErrorIsTold, Ended, Types, server
  <1>8. CASE Take(d)
    BY <1>1, <1>8 DEF Forward, Take, ErrorIsTold, Ended, Types, server
  <1>9. ASSUME NEW after \in {"check", "take"}, SendTo(d, after), pc[d] \in {"give", "ask"},
               UNCHANGED <<programs, server, taken, pin, quit>>
        PROVE  ~Ended(d) /\ told' = told /\ (conn'[d] = "none" => conn[d] = "none")
    BY <1>9, SendTypes DEF Ended, server
  <1>10. CASE Give(d)
    <2>1. ~Ended(d) /\ told' = told /\ (conn'[d] = "none" => conn[d] = "none")
      BY <1>9, <1>10, Zenon DEF Give
    <2>2. QED
      BY <1>1, <2>1 DEF Forward
  <1>11. CASE Ask(d)
    <2>1. ~Ended(d) /\ told' = told /\ (conn'[d] = "none" => conn[d] = "none")
      BY <1>9, <1>11, Zenon DEF Ask
    <2>2. QED
      BY <1>1, <2>1 DEF Forward
  <1>12. CASE Menu(d) \/ Interrupt(d)
    BY <1>1, <1>12 DEF Forward, Menu, Interrupt, Goto, Ended, server
  <1>13. CASE \E crooked \in BOOLEAN : Make(d, crooked)
    BY <1>1, <1>13 DEF Forward, Make, Goto, Ended, server
  <1>14. CASE ServerNext(d) \/ ClientNext(d)
    <2>1. CASE ServerNext(d)
      BY <1>4, <1>5, <2>1, Zenon DEF ServerNext
    <2>2. CASE ClientNext(d)
      BY <1>6, <1>7, <1>8, <1>10, <1>11, <1>12, <1>13, <2>2, Zenon DEF ClientNext, Step
    <2>3. QED
      BY <1>14, <2>1, <2>2
  <1>15. QED
    BY <1>2, <1>3, <1>14, Zenon DEF Next

-----------------------------------------------------------------------------
(* The invariant holds, and the clients are right.                         *)

\* A stream is as long as its messages: it fits.  Who has failed gets nothing any more.
LEMMA RoomStep ==
    ASSUME ConstantsOK, Types, Types', Room, \A c \in Clients : OneInv(c),
           \A c \in Clients : OneInv(c)', Next
    PROVE  Room'
  <1> SUFFICES ASSUME NEW d \in Clients
               PROVE  Len(inbox'[d]) =< MaxMessages * Size(Kind(d))' + Size("stop")'
    BY DEF Room
  <1>1. mark' = mark /\ type' = type
    BY ProgramsStay
  <1>2. Size(Kind(d))' = Size(Kind(d)) /\ Size("stop")' = Size("stop")
    BY <1>1, SizesStay
  <1>3. /\ Size(Kind(d)) \in {2, 6} /\ Size("stop") \in Nat /\ MaxMessages \in Nat
        /\ Len(inbox'[d]) \in Nat
    <2>1. inbox'[d] \in Seq(Bytes)
      BY DEF Types
    <2>2. Size(Kind(d)) \in {2, 6} /\ Size("stop") = IF mark = "10" THEN 1 ELSE 4
      BY Sizes
    <2>3. QED
      BY <2>1, <2>2 DEF ConstantsOK
  <1>4. CASE pc'[d] # "failed"
    <2>1. Stream(inbox'[d], Len(taken'[d]), given'[d], told'[d], Kind(d)', Size(Kind(d)),
                 Size("stop"))
      BY <1>2, <1>4, Zenon DEF OneInv, Reads
    <2>2. Len(inbox'[d]) = Size(Kind(d)) * (given'[d] - Len(taken'[d]))
                           + (IF told'[d] THEN Size("stop") ELSE 0)
      BY <2>1, Zenon DEF Stream, Lengths
    <2>3. given'[d] \in 0 .. MaxMessages /\ taken'[d] \in Seq(Nat)
      BY DEF Types
    <2>4. Len(taken'[d]) \in Nat
      BY <2>3
    <2>5. Len(inbox'[d]) =< MaxMessages * Size(Kind(d)) + Size("stop")
      BY SMTT(60), <1>3, <2>2, <2>3, <2>4
    <2>6. QED
      BY <1>2, <2>5
  <1>5. CASE pc'[d] = "failed"
    <2>0. inbox[d] \in Seq(Bytes) /\ Len(inbox[d]) \in Nat
      BY DEF Types
    <2>1. Len(inbox'[d]) =< Len(inbox[d])
      <3>1. ASSUME inbox'[d] = inbox[d] PROVE Len(inbox'[d]) =< Len(inbox[d])
        BY <2>0, <3>1
      <3>2. CASE Close
        BY <3>1, <3>2 DEF Close, server
      <3>3. ASSUME NEW c \in Clients, c # d, ServerNext(c) \/ ClientNext(c)
            PROVE  Len(inbox'[d]) =< Len(inbox[d])
        BY <3>1, <3>3, OthersStay DEF StreamStays
      <3>4. CASE ServerSends(d) \/ Tell(d)
        BY <1>5, <3>4 DEF ServerSends, Tell, Up, Ended
      <3>5. CASE Take(d)
        <4> DEFINE l == Len(First(inbox[d], Size(Kind(d))))
        <4>1. inbox'[d] = SubSeq(inbox[d], l + 1, Len(inbox[d]))
          BY <3>5 DEF Take, Types
        <4>2. l \in Nat
          <5>1. Size(Kind(d)) \in Nat
            BY <1>3
          <5>2. QED
            BY <2>0, <5>1, FirstBytes
        <4> HIDE DEF l
        <4>3. Len(SubSeq(inbox[d], l + 1, Len(inbox[d]))) =< Len(inbox[d])
          BY <2>0, <4>2
        <4>4. QED
          BY <4>1, <4>3, Zenon
      <3>6. CASE \/ ServerTakesPin(d) \/ Connect(d) \/ Check(d) \/ Give(d) \/ Ask(d) \/ Menu(d)
                 \/ Interrupt(d) \/ \E crooked \in BOOLEAN : Make(d, crooked)
        BY <3>1, <3>6 DEF ServerTakesPin, Connect, Check, Give, Ask, Menu, Interrupt, Make, server
      <3>7. QED
        BY <3>2, <3>3, <3>4, <3>5, <3>6, Zenon DEF Next, ServerNext, ClientNext, Step
    <2>2. QED
      BY <1>2, <1>3, <2>1 DEF Room
  <1>6. QED
    BY <1>4, <1>5

LEMMA InitInv ==
    ASSUME ConstantsOK, Init
    PROVE  Inv
  <1>1. Types
    BY DEF Init, Types, ConstantsOK, Ghost
  <1>2. ASSUME NEW c \in Clients PROVE OneInv(c)
    <2>1. /\ pc[c] = "start" /\ conn[c] = "none" /\ told[c] = FALSE /\ taken[c] = <<>>
          /\ given[c] = 0 /\ inbox[c] = <<>>
      BY DEF Init
    <2>2. Stream(<<>>, 0, 0, FALSE, Kind(c), Size(Kind(c)), Size("stop"))
      <3>1. Size(Kind(c)) \in {2, 6}
        BY <1>1, Sizes
      <3>2. QED
        BY <3>1 DEF Stream, Lengths, Waiting, StopWaits
    <2>3. Reads(c)
      BY <2>1, <2>2 DEF Reads
    <2>4. Connection(c) /\ Takes(c) /\ Ends(c)
      BY <2>1 DEF Connection, Takes, InOrder, Ends, Ended
    <2>5. QED
      BY <2>3, <2>4 DEF OneInv
  <1>3. Room
    <2>1. ASSUME NEW c \in Clients
          PROVE  Len(inbox[c]) =< MaxMessages * Size(Kind(c)) + Size("stop")
      <3>1. inbox[c] = <<>>
        BY DEF Init
      <3>2. /\ Size(Kind(c)) \in {2, 6} /\ Size("stop") = IF mark = "10" THEN 1 ELSE 4
        BY <1>1, Sizes
      <3>3. QED
        BY <3>1, <3>2 DEF ConstantsOK
    <2>2. QED
      BY <2>1 DEF Room
  <1>4. QED
    BY <1>1, <1>2, <1>3 DEF Inv

LEMMA NextInv ==
    ASSUME ConstantsOK, Inv, [Next]_vars
    PROVE  Inv'
  <1>1. CASE Next
    <2>1. Types'
      BY <1>1, TypesStep DEF Inv
    <2>2. ASSUME NEW c \in Clients PROVE OneInv(c)'
      BY <1>1, <2>1, OneStep DEF Inv
    <2>3. Room'
      BY <1>1, <2>1, <2>2, RoomStep DEF Inv
    <2>4. QED
      BY <2>1, <2>2, <2>3, Zenon DEF Inv
  <1>2. CASE UNCHANGED vars
    <2>1. Types' /\ Room'
      BY <1>2 DEF Inv, Types, Room, vars, Size, Kind
    <2>2. ASSUME NEW c \in Clients PROVE OneInv(c)'
      <3>1. StreamStays(c) /\ pc'[c] = pc[c] /\ conn'[c] = conn[c] /\ quit'[c] = quit[c]
        BY <1>2 DEF vars, StreamStays
      <3>2. QED
        BY <3>1, StaysRight DEF Inv
    <2>3. QED
      BY <2>1, <2>2, Zenon DEF Inv
  <1>3. QED
    BY <1>1, <1>2

\* A client that was told to end finds something in its stream when it has taken all whole
\* messages: they and the shutdown message are not of lengths that add up.
LEMMA InvTellsNoSpinner ==
    ASSUME Inv
    PROVE  ToldNeverSpins
  <1> SUFFICES ASSUME NEW c \in Clients, told[c], Spins(c) PROVE FALSE
    BY DEF ToldNeverSpins
  <1>1. Types /\ Reads(c) /\ Takes(c)
    BY DEF Inv, OneInv
  <1>2. pc[c] = "take" /\ inbox[c] = <<>> /\ (mark = "10" \/ type[c] = "collector")
    BY DEF Spins, AsksAgain
  <1> DEFINE n == Len(taken[c])
             g == given[c]
  <1>3. /\ n \in Nat /\ g \in Nat /\ Size(Kind(c)) \in {2, 6} /\ Size("stop") \in Nat
        /\ Stream(inbox[c], n, g, told[c], Kind(c), Size(Kind(c)), Size("stop"))
    BY <1>1, <1>2, ClientFacts
  <1>4. Len(inbox[c]) = Size(Kind(c)) * (g - n) + (IF told[c] THEN Size("stop") ELSE 0)
    BY <1>3, Zenon DEF Stream, Lengths
  <1>5. Size(Kind(c)) * (g - n) + Size("stop") = 0
    BY <1>2, <1>3, <1>4
  <1>6. n =< g
    BY <1>1, <1>2, <1>3 DEF Takes
  <1>7. Size("stop") > 0
    BY <1>1, Sizes
  <1>8. QED
    BY <1>3, <1>5, <1>6, <1>7

LEMMA InvIsRight ==
    ASSUME Inv
    PROVE  ClientsAreRight
  <1>1. TypeOK
    BY TypeParts DEF Inv
  <1>2. OnlyStopIsMistaken
    <2> SUFFICES ASSUME NEW c \in Clients
                 PROVE  \E real \in 0 .. Len(taken[c]) :
                           /\ \A k \in 1 .. Len(taken[c]) :
                                 taken[c][k] = IF k =< real THEN k ELSE Ghost
                           /\ real < Len(taken[c]) =>
                                 /\ mark # "10" /\ type[c] \in {"second", "third"} /\ told[c]
                                 /\ real = given[c] /\ Len(taken[c]) - real =< 2
      BY DEF OnlyStopIsMistaken
    <2>1. Takes(c) /\ given[c] \in Nat /\ taken[c] \in Seq(Nat) /\ Len(taken[c]) \in Nat
      BY DEF Inv, OneInv, Types
    <2>2. CASE Len(taken[c]) =< given[c]
      <3>1. \A k \in 1 .. Len(taken[c]) : taken[c][k] = k
        BY <2>1, <2>2 DEF Takes, InOrder
      <3>2. WITNESS Len(taken[c]) \in 0 .. Len(taken[c])
      <3>3. QED
        BY <2>1, <3>1
    <2>3. CASE Len(taken[c]) > given[c]
      <3>1. given[c] \in 0 .. Len(taken[c]) /\ Len(taken[c]) - given[c] =< 2
        BY <2>1, <2>3 DEF Takes
      <3> USE <3>1
      <3>2. WITNESS given[c] \in 0 .. Len(taken[c])
      <3>3. QED
        BY <2>1, <2>3 DEF Takes, InOrder
    <2>4. QED
      BY SMTT(60), <2>1, <2>2, <2>3
  <1>3. NothingIsLeft /\ EndsForAReason
    BY DEF Inv, OneInv, Ends, NothingIsLeft, EndsForAReason
  <1>4. QED
    BY <1>1, <1>2, <1>3, InvTellsNoSpinner DEF ClientsAreRight

\* TcpClients!ClientsAreRight: whatever the server does and whenever it closes the
\* connections, a client takes the messages for what they are, but for the shutdown message
\* before mark 10, ends well only with its work done, ends at all only for a reason, and does
\* not turn for ever when it was told to end.
THEOREM ClientsTakeWhatWasSent ==
    ConstantsOK /\ Spec => []ClientsAreRight
  <1> SUFFICES ASSUME ConstantsOK PROVE Spec => []ClientsAreRight
    OBVIOUS
  <1>1. Inv => ClientsAreRight
    BY InvIsRight
  <1>2. Init => Inv
    BY InitInv
  <1>3. Inv /\ [Next]_vars => Inv'
    BY NextInv
  <1>4. QED
    BY <1>1, <1>2, <1>3, PTL DEF Spec
=============================================================================
