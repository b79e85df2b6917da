---------------------------- MODULE MCExercises -----------------------------
\* Five programs whose threads or processes share memory or send signals: program is the
\* one that runs, the variables of the others stay as they are.
EXTENDS TextEncoder, SharedMemory

CONSTANTS w1, w2, r1, r2, r3

VARIABLES
    program,
    queue_data, read_index, write_index, queue_lock, read_semaphore, aPc, number, mPc, iter,
    num1, num2, started, result,
    bNumber, bsPc, sPending, sReady, sem, sent, brPc, rPending, rReady, stack, read_number,
    write_bit, late, missed

Sum == INSTANCE NumberAdders WITH N <- 4, MaxSize <- 4, pc <- aPc
Bits == INSTANCE BitTransfer WITH Bits <- 3, number <- bNumber, sPc <- bsPc, rPc <- brPc

adding == <<queue_data, read_index, write_index, queue_lock, read_semaphore, aPc, number,
            mPc, iter, num1, num2, started, result>>
sending == <<bNumber, bsPc, sPending, sReady, sem, sent, brPc, rPending, rReady, stack,
             read_number, write_bit, late, missed>>
all == <<program, vars, adding, sending, sharing, reading>>

\* The ring: a writer and two readers, or two writers and a reader, with one Ctrl-C.  The crowd,
\* where nobody writes yet: a writer and three readers with one, two writers and a reader with two.
Absent == {p \in Writers \union Readers : ringPc[p] = "ended"}
Casts == [ring |-> {{w2, r3}, {r2, r3}}, crowd |-> {{w2}, {r2, r3}}]

\* The inputs of the programs that do not run are fixed.
MCInit ==
    /\ Init /\ Sum!Init /\ Bits!Init /\ Cell!Init /\ Ring!Init
    /\ program \in {"encoder", "adders", "bits", "cell", "ring", "crowd"}
    /\ program # "encoder" => version = 1 /\ source = "given" /\ typed = 0
    /\ program # "bits" => bNumber = 0
    /\ program # "cell" => by_signal
    /\ IF program \in DOMAIN Casts
       THEN Absent \in Casts[program] /\ ctrl_c = (IF program = "crowd" /\ w2 \notin Absent THEN 2 ELSE 1)
       ELSE Absent = {} /\ ctrl_c = 0

\* What runs when the program of that name does.
Encoding(A) ==
    program = "encoder" /\ A /\ UNCHANGED <<program, adding, sending, sharing, reading>>
Adding(A) == program = "adders" /\ A /\ UNCHANGED <<program, vars, sending, sharing, reading>>
Sending(A) == program = "bits" /\ A /\ UNCHANGED <<program, vars, adding, sharing, reading>>
Sharing(A) == program = "cell" /\ A /\ UNCHANGED <<program, vars, adding, sending, reading>>
Followed(A) ==
    program \in DOMAIN Casts /\ ~spoilt /\ A /\ (program = "crowd" => UNCHANGED empty)
Reading(A) == Followed(A) /\ UNCHANGED <<program, vars, adding, sending, sharing>>

MCNext ==
    \/ Encoding(Next) \/ Adding(Sum!Next) \/ Sending(Bits!Next) \/ Sharing(Cell!Next)
    \/ Reading(Ring!Next)

\* The fairness of each, for the behaviours in which it runs.
MCSpec ==
    /\ MCInit /\ [][MCNext]_all
    /\ WF_all(Encoding(Main)) /\ \A t \in Threads : WF_all(Encoding(Encoder(t)))
    /\ WF_all(Adding(Sum!Main)) /\ \A t \in 1 .. 7 : WF_all(Adding(Sum!Thread(t)))
    /\ WF_all(Sending(Bits!Sender)) /\ WF_all(Sending(Bits!Receiver))
    /\ WF_all(Sending(Bits!Handler))
    /\ \A s \in {"USR1", "USR2"} :
          WF_all(Sending(Bits!SenderHandles(s))) /\ WF_all(Sending(Bits!ReceiverEnters(s)))
    /\ WF_all(Sharing(Cell!Server)) /\ WF_all(Sharing(Cell!Client))
    /\ \A w \in Writers : WF_reading(Followed(Ring!Writer(w)))
    /\ \A r \in Readers : WF_reading(Followed(Ring!Reader(r)))

\* TextEncoder: the chunks that threads took come out once each and in order, whatever the
\* order of the threads; the list and the array of results are whole at every step.
EncodingIsRight == TypeOK /\ TextIsEncoded /\ ListIsWhole /\ NoEmptySlot /\ OneLogWriter

\* NumberAdders: no number is lost, and the sum of all is printed.  BitTransfer: the bits are
\* kept when no signal comes late.
NumbersAreRight ==
    /\ Sum!TypeOK /\ Sum!SumIsKept /\ Sum!ResultIsSum
    /\ Bits!TypeOK /\ Bits!BitsAreKept

\* The programs that end by themselves do (EncoderEnds, AddersEnd, TransferEnds).  SharedNumber:
\* Ctrl-C ends both (BothEnd).  ReadersWriter: Ctrl-C ends whoever works (WorkersEnd).  One
\* program runs in a behaviour, and what is due there comes.
EndIsDue ==
    /\ program = "cell" => Cell!EndIsDue
    /\ program \in DOMAIN Casts => known # {}

ProgramEnded ==
    /\ program = "encoder" => MainEnded
    /\ program = "adders" => Sum!MainEnded
    /\ program = "bits" => Bits!TransferEnded
    /\ program = "cell" => Cell!BothEnded
    /\ program \in DOMAIN Casts => Ring!WorkersEnded

ProgramsEnd == EndIsDue ~> ProgramEnded
=============================================================================
