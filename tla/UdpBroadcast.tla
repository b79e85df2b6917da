---------------------------- MODULE UdpBroadcast ----------------------------
(***************************************************************************)
(* os_hw11: a server sends the lines a user types as UDP broadcasts to all *)
(* clients that listen.  A datagram can be lost, come twice or come late.  *)
(***************************************************************************)
EXTENDS Naturals, Sequences, FiniteSets

CONSTANTS
    Clients,
    Lines,          \* how many lines are typed
    MaxCopies       \* of a datagram that a client gets: a bound

VARIABLES
    ends,           \* the last line is "The End"; else the input ends after it
    sent, sPc,      \* server
    cPc,            \* each client
    net             \* for each client the datagrams under way: how often each line

vars == <<ends, sent, sPc, cPc, net>>

Init ==
    /\ ends \in BOOLEAN /\ sent = 0 /\ sPc = "send"
    /\ cPc = [c \in Clients |-> "off"]
    /\ net = [c \in Clients |-> [l \in 1 .. Lines |-> 0]]

\* Mutant: the end is a message like others.
NoEndMessage(l) == FALSE

IsEndMessage(l) == ends /\ l = Lines

\* A client that has bound its socket gets each datagram, or not, or twice.
Send ==
    /\ sPc = "send" /\ sent < Lines /\ sent' = sent + 1
    /\ \E copies \in [Clients -> 0 .. MaxCopies] :
          net' = [c \in Clients |->
                     [net[c] EXCEPT ![sent'] = IF cPc[c] = "receive" THEN copies[c] ELSE 0]]
    /\ sPc' = (IF IsEndMessage(sent') THEN "ok" ELSE "send")
    /\ UNCHANGED <<ends, cPc>>

\* sendto fails or there is no more input.
StopSending ==
    /\ sPc = "send" /\ sPc' = "failed" /\ UNCHANGED <<ends, sent, cPc, net>>

Bind(c) ==
    /\ cPc[c] = "off" /\ \E to \in {"receive", "failed"} : cPc' = [cPc EXCEPT ![c] = to]
    /\ UNCHANGED <<ends, sent, sPc, net>>

\* Mutant: the first line is taken for the end.
ReceiveAny(c) ==
    /\ cPc[c] = "receive"
    /\ \E l \in 1 .. Lines :
          /\ net[c][l] > 0 /\ net' = [net EXCEPT ![c][l] = @ - 1]
          /\ cPc' = [cPc EXCEPT ![c] = "ok"]
    /\ UNCHANGED <<ends, sent, sPc>>

\* In any order.
Receive(c) ==
    /\ cPc[c] = "receive"
    /\ \E l \in 1 .. Lines :
          /\ net[c][l] > 0 /\ net' = [net EXCEPT ![c][l] = @ - 1]
          /\ cPc' = [cPc EXCEPT ![c] = IF IsEndMessage(l) THEN "ok" ELSE "receive"]
    /\ UNCHANGED <<ends, sent, sPc>>

Server == Send \/ StopSending
Next == Server \/ \E c \in Clients : Bind(c) \/ Receive(c)

\* What is under way arrives.
Spec == Init /\ [][Next]_vars /\ WF_vars(Server) /\ \A c \in Clients : WF_vars(Receive(c))

\* The type of the state.
TypeOK ==
    /\ sent \in 0 .. Lines /\ sPc \in {"send", "ok", "failed"}
    /\ cPc \in [Clients -> {"off", "receive", "ok", "failed"}]
    /\ net \in [Clients -> [1 .. Lines -> 0 .. MaxCopies]]

\* A client ends well only after the server has, also when lines come late or twice
\* (is_end_message on both sides).
EndWasSent == \A c \in Clients : cPc[c] = "ok" => sPc = "ok"

\* A client to which the end is under way comes to its end (run_client_impl).
ReceiversEnd ==
    \A c \in Clients : (ends /\ cPc[c] = "receive" /\ net[c][Lines] > 0) ~> cPc[c] = "ok"
=============================================================================
