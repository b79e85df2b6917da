----------------------------- MODULE TextRelay ------------------------------
(***************************************************************************)
(* os_hw10: the first client sends the lines a user types to a TCP server, *)
(* which passes on what it receives to the second client.  A connection is *)
(* a stream: recv returns some of the bytes that have been sent.  "The     *)
(* End" is the line that ends all three.                                   *)
(***************************************************************************)
EXTENDS Naturals, Sequences, SequencesExt, FiniteSets

CONSTANTS
    MaxLines,       \* that are typed before the end of the input
    BufferSize      \* MESSAGE_BUFFER_SIZE

\* A line is sent with the zero that ends it.
END_MESSAGE == <<"e", "f">>
Lines == {END_MESSAGE, <<"x">>, <<>>, END_MESSAGE \o <<"x">>}
Bytes(line) == Append(line, "0")

VARIABLES
    typed,                  \* the lines the user has not typed yet
    pc,                     \* of "first", "second" and "server"
    accepted,               \* the clients in the order in which they connected
    sent,                   \* the lines that the first client has sent
    toServer, toSecond,     \* the two streams
    got,                    \* the bytes that the second client has received
    whole                   \* every recv has returned exactly one line

vars == <<typed, pc, accepted, sent, toServer, toSecond, got, whole>>

Clients == {"first", "second"}
Ended == {"ok", "refused", "failed", "killed"}

Init ==
    /\ typed \in BoundedSeq(Lines, MaxLines)
    /\ pc = [p \in Clients \union {"server"} |-> IF p = "server" THEN "listen" ELSE "connect"]
    /\ accepted = <<>> /\ sent = <<>> /\ toServer = <<>> /\ toSecond = <<>> /\ got = <<>>
    /\ whole = TRUE

Goto(p, to) == pc' = [pc EXCEPT ![p] = to]
Closed(p) == pc[p] \in Ended

\* The bytes that a recv may return.
Pieces(stream) ==
    LET most == IF Len(stream) < BufferSize THEN Len(stream) ELSE BufferSize IN
    {SubSeq(stream, 1, n) : n \in 1 .. most}
Rest(stream, piece) == SubSeq(stream, Len(piece) + 1, Len(stream))
IsLine(piece) == \E line \in Lines : piece = Bytes(line)

-----------------------------------------------------------------------------
(* The clients connect; the server takes the first it accepts for the one  *)
(* that sends.                                                             *)

\* There is no socket, or no server yet; without a server nobody connects any more.
FailToStart(p) ==
    /\ pc[p] \in {"connect", "listen"} /\ pc["server"] = "listen"
    /\ pc' = [q \in DOMAIN pc |->
                 IF q = p \/ (p = "server" /\ pc[q] = "connect") THEN "refused" ELSE pc[q]]
    /\ UNCHANGED <<typed, accepted, sent, toServer, toSecond, got, whole>>

Connect(c) ==
    /\ pc[c] = "connect" /\ pc["server"] = "listen"
    /\ accepted' = Append(accepted, c)
    /\ pc' = [pc EXCEPT ![c] = IF c = "first" THEN "type" ELSE "receive",
                        !["server"] = IF Len(accepted) = 1 THEN "pass on" ELSE "listen"]
    /\ UNCHANGED <<typed, sent, toServer, toSecond, got, whole>>

\* The server listens to the wrong client.
Swapped == accepted # <<>> /\ accepted[1] = "second"

-----------------------------------------------------------------------------
(* The first client.                                                       *)

\* A send to a server that has ended may be lost or end the client.
TypeAndSend ==
    /\ pc["first"] = "type" /\ typed # <<>>
    /\ typed' = Tail(typed)
    /\ \/ /\ sent' = Append(sent, Head(typed))
          /\ toServer' = toServer \o Bytes(Head(typed))
          /\ IF Head(typed) = END_MESSAGE THEN Goto("first", "ok") ELSE UNCHANGED pc
       \/ Closed("server") /\ Goto("first", "killed") /\ UNCHANGED <<sent, toServer>>
    /\ UNCHANGED <<accepted, toSecond, got, whole>>

EndOfInput ==
    /\ pc["first"] = "type" /\ typed = <<>> /\ Goto("first", "failed")
    /\ UNCHANGED <<typed, accepted, sent, toServer, toSecond, got, whole>>

-----------------------------------------------------------------------------
(* The server.                                                             *)

\* Mutant: the zero is left out.
PassOnWithoutZero(piece) == SelectSeq(piece, LAMBDA b : b # "0")

PassedOn(piece) == piece

\* END_MESSAGE_LENGTH does not count the zero: a line that has come as a whole is not it.
ReceiveAndPassOn ==
    /\ pc["server"] = "pass on" /\ ~Swapped
    /\ \E piece \in Pieces(toServer) :
          /\ toServer' = Rest(toServer, piece) /\ whole' = (whole /\ IsLine(piece))
          /\ \/ /\ toSecond' = toSecond \o PassedOn(piece)
                /\ Goto("server", IF piece = END_MESSAGE THEN "ok" ELSE "pass on")
             \/ Closed("second") /\ Goto("server", "killed") /\ UNCHANGED toSecond
    /\ UNCHANGED <<typed, accepted, sent, got>>

\* The client it listens to has closed the connection.
FirstClientIsGone ==
    /\ pc["server"] = "pass on" /\ Goto("server", "failed")
    /\ IF Swapped THEN Closed("second") ELSE toServer = <<>> /\ Closed("first")
    /\ UNCHANGED <<typed, accepted, sent, toServer, toSecond, got, whole>>

-----------------------------------------------------------------------------
(* The second client.                                                      *)

\* Mutant: the length counts the zero, as in the server.
LooksLikeEnd(piece) == piece = END_MESSAGE

IsEndMessage(piece) == SubSeq(piece, 1, Len(piece) - 1) = END_MESSAGE

ReceiveAndPrint ==
    /\ pc["second"] = "receive"
    /\ \E piece \in Pieces(toSecond) :
          /\ toSecond' = Rest(toSecond, piece) /\ got' = got \o piece
          /\ whole' = (whole /\ IsLine(piece))
          /\ IF IsEndMessage(piece) THEN Goto("second", "ok")
             ELSE UNCHANGED pc
    /\ UNCHANGED <<typed, accepted, sent, toServer>>

\* Mutant: the client goes on when the server is gone.
NeverGone == FALSE

ServerIsGone == toSecond = <<>> /\ Closed("server")

StopReceiving ==
    /\ pc["second"] = "receive" /\ ServerIsGone /\ Goto("second", "failed")
    /\ UNCHANGED <<typed, accepted, sent, toServer, toSecond, got, whole>>

First == Connect("first") \/ TypeAndSend \/ EndOfInput
Second == Connect("second") \/ ReceiveAndPrint \/ StopReceiving
Server == ReceiveAndPassOn \/ FirstClientIsGone

Next ==
    \/ First \/ Second \/ Server
    \/ \E p \in {"first", "second", "server"} : FailToStart(p)

\* The processes run, the user types, and what was sent arrives.
Spec == Init /\ [][Next]_vars /\ WF_vars(First) /\ WF_vars(Second) /\ WF_vars(Server)

-----------------------------------------------------------------------------
(* Properties.                                                             *)

\* The type of the state.
TypeOK ==
    /\ typed \in BoundedSeq(Lines, MaxLines) /\ sent \in BoundedSeq(Lines, MaxLines)
    /\ ToSet(pc) \subseteq {"listen", "connect", "type", "pass on", "receive"} \union Ended
    /\ IsInjective(accepted) /\ Len(accepted) <= 2

\* The second client gets the bytes of the lines in their order, whatever recv returned
\* (run_server_impl, the two run_client_impl).
BytesInOrder ==
    IsPrefix(got, FlattenSeq([i \in DOMAIN sent |-> Bytes(sent[i])]))

\* When recv has returned line by line, the second client ends well if and only if the
\* last line was "The End" (received_end_message).
EndIsRecognised ==
    whole /\ pc["second"] \in {"ok", "failed"} /\ ~Swapped /\ Len(accepted) = 2
        /\ pc["server"] \notin {"listen", "killed"} =>
        (pc["second"] = "ok") = (sent # <<>> /\ Last(sent) = END_MESSAGE)

\* accept waits for a client that could not connect.
WaitsForClient == pc["server"] = "listen" /\ \E c \in Clients : pc[c] = "refused"

\* All three end, with The End and without, when the input ends or one of them is gone, unless
\* the server waits for a client that could not connect or listens to the one that came too
\* early (accept_client).
RelayEnds == <>((\A p \in DOMAIN pc : Closed(p)) \/ Swapped \/ WaitsForClient)
=============================================================================
