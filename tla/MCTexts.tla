------------------------------ MODULE MCTexts -------------------------------
\* The text reversal of os_ihw1 in all its marks, the pipe of os_hw9, the relay of os_hw10,
\* the broadcasts of os_hw11, the copy of os_hw4 and the calculations of os_hw3: program is
\* the one that runs, the variables of the others stay as they are.
EXTENDS TextReversal, Transfers

CONSTANTS c1, c2        \* clients of os_hw11

VARIABLES
    program,
    typed, rPc, accepted, rSent, toServer, toSecond, got, whole,
    asked, kPc, fib, fact, n, fibmatrix, pow_matrix, fib_num, fib_overflow, i, ans,
    fact_overflow

Relay == INSTANCE TextRelay WITH MaxLines <- 2, BufferSize <- 4, pc <- rPc, sent <- rSent
Calculate == INSTANCE Calculations WITH
    Inputs <- {0, 1, 2, 3, 20, 21, 65, 66, 92, 93}, input <- asked, pc <- kPc

relay == <<typed, rPc, accepted, rSent, toServer, toSecond, got, whole>>
calculations == <<asked, kPc, fib, fact, n, fibmatrix, pow_matrix, fib_num, fib_overflow, i,
                  ans, fact_overflow>>
all == <<program, vars, stream, talk, relay, broadcast, copy, calculations>>

Chosen(p) == program = p

\* The inputs of the programs that do not run are fixed.
MCInit ==
    /\ program \in {"reversal", "stream", "talk", "relay", "broadcast", "copy", "calculations"}
    /\ Chosen("reversal") \/ (mark = "4" /\ input = "text" /\ writable = TRUE)
    /\ Chosen("stream") \/ (sMark = "9" /\ length = 0 /\ ok = TRUE /\ start_n = 0 /\ end_n = 0)
    /\ Chosen("relay") \/ typed = <<>>
    /\ Chosen("broadcast") \/ ends = TRUE
    /\ Chosen("copy") \/ (source = 0 /\ old = 0)
    /\ Chosen("calculations") \/ asked = 0
    /\ Init /\ Stream!Init /\ Talk!Init /\ Relay!Init /\ Broadcast!Init /\ Copy!Init
    /\ Calculate!Init

MCNext ==
    /\ UNCHANGED program
    /\ \/ /\ program = "reversal" /\ Next
          /\ UNCHANGED <<stream, talk, relay, broadcast, copy, calculations>>
       \/ /\ program = "stream" /\ Stream!Next
          /\ UNCHANGED <<vars, talk, relay, broadcast, copy, calculations>>
       \/ /\ program = "talk" /\ Talk!Next
          /\ UNCHANGED <<vars, stream, relay, broadcast, copy, calculations>>
       \/ /\ program = "relay" /\ Relay!Next
          /\ UNCHANGED <<vars, stream, talk, broadcast, copy, calculations>>
       \/ /\ program = "broadcast" /\ Broadcast!Next
          /\ UNCHANGED <<vars, stream, talk, relay, copy, calculations>>
       \/ /\ program = "copy" /\ Copy!Next
          /\ UNCHANGED <<vars, stream, talk, relay, broadcast, calculations>>
       \/ /\ program = "calculations" /\ Calculate!Next
          /\ UNCHANGED <<vars, stream, talk, relay, broadcast, copy>>

\* The fairness of each, for the behaviours in which it runs.
Reversing(A) ==
    /\ program = "reversal" /\ A
    /\ UNCHANGED <<program, stream, talk, relay, broadcast, copy, calculations>>
Streaming(A) ==
    /\ program = "stream" /\ A
    /\ UNCHANGED <<program, vars, talk, relay, broadcast, copy, calculations>>
Talking(A) ==
    /\ program = "talk" /\ A
    /\ UNCHANGED <<program, vars, stream, relay, broadcast, copy, calculations>>
Relaying(A) ==
    /\ program = "relay" /\ A
    /\ UNCHANGED <<program, vars, stream, talk, broadcast, copy, calculations>>
Broadcasting(A) ==
    /\ program = "broadcast" /\ A
    /\ UNCHANGED <<program, vars, stream, talk, relay, copy, calculations>>
Copying(A) ==
    /\ program = "copy" /\ A
    /\ UNCHANGED <<program, vars, stream, talk, relay, broadcast, calculations>>

MCSpec ==
    /\ MCInit /\ [][MCNext]_all
    /\ \A q \in Processes : WF_all(Reversing(Step(q)))
    /\ WF_all(Streaming(Stream!Handler)) /\ WF_all(Streaming(Stream!Processor))
    /\ \A q \in {"parent", "child"} :
          /\ WF_all(Talking(Talk!Step(q))) /\ SF_all(Talking(Talk!SemWait(q)))
          /\ WF_all(Talking(Talk!HandleSignal(q)))
    /\ WF_all(Talking(Talk!WaitChild)) /\ WF_all(Talking(Talk!RemoveSemaphore))
    /\ WF_all(Relaying(Relay!First)) /\ WF_all(Relaying(Relay!Second))
    /\ WF_all(Relaying(Relay!Server))
    /\ WF_all(Broadcasting(Broadcast!Server))
    /\ \A c \in Receivers : WF_all(Broadcasting(Broadcast!Receive(c)))
    /\ WF_all(Copying(Copy!Next))

\* TextReversal: main succeeds for a reversed text only, and nobody writes to a pipe without
\* a reader.  TextRelay: the bytes arrive in their order, and the second client knows the end.
TextsAreRight ==
    /\ TypeOK /\ SuccessMeansReversed /\ NoBrokenPipe
    /\ Relay!TypeOK /\ Relay!BytesInOrder /\ Relay!EndIsRecognised

\* Calculations: the number and its overflow, the factorial and its overflow.
ResultsAreRight == Calculate!TypeOK /\ Calculate!FibonacciIsRight /\ Calculate!FactorialIsRight

\* TextReversal: what is not a hang ends, and a good text is reversed.  TextStream:
\* io_handler ends, and text_processor of mark9.  PipeTalk: Ctrl-C ends both processes.
\* TextRelay: all three end.  UdpBroadcast: whom the end reaches ends.  FileCopy: the copy
\* ends.
ProgramsEnd ==
    /\ program = "reversal" => NobodyIsLeft /\ GoodInputSucceeds
    /\ program = "stream" => Stream!HandlerEnds /\ Stream!ProcessorEnds
    /\ Talk!CtrlCEnds
    /\ program = "relay" => Relay!RelayEnds
    /\ Broadcast!ReceiversEnd
    /\ program = "copy" => Copy!CopyEnds
=============================================================================
