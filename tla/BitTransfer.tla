---------------------------- MODULE BitTransfer -----------------------------
(***************************************************************************)
(* os_hw5: sender tells receiver a number bit by bit with SIGUSR1 (zero)   *)
(* and SIGUSR2 (one), and receiver answers every bit with SIGUSR1.  Before *)
(* that each tells the other with SIGUSR2 that it is ready.  A signal that *)
(* is pending is not queued again, and a handler is interrupted by the     *)
(* other signal only.                                                      *)
(***************************************************************************)
EXTENDS Naturals, Sequences

CONSTANTS
    Bits            \* sizeof(int32_t) * CHAR_BIT

Signals == {"USR1", "USR2"}

VARIABLES
    number,                             \* what is to be sent
    sPc, sPending, sReady, sem, sent,   \* sender; sent: the bits that were sent
    rPc, rPending, rReady,              \* receiver
    stack, read_number, write_bit,      \* its handlers, the innermost last: <<signal, step>>
    late,       \* a signal was not handled while sender slept or the user typed
    missed      \* the last signal came between the test of a loop and its pause

sender == <<sPc, sReady, sem, sent>>
receiver == <<rPc, rReady, stack, read_number, write_bit>>
vars == <<number, sender, sPending, receiver, rPending, late, missed>>

Bit(n, i) == (n \div 2 ^ i) % 2
Max == 2 ^ Bits - 1

\* Both run and the user has seen their process ids.
Init ==
    /\ number \in 0 .. Max
    /\ sPc = "pid" /\ sPending = {} /\ sReady = FALSE /\ sem = 1 /\ sent = 0
    /\ rPc = "pid" /\ rPending = {} /\ rReady = FALSE
    /\ stack = <<>> /\ read_number = 0 /\ write_bit = 0
    /\ late = FALSE /\ missed = FALSE

-----------------------------------------------------------------------------
(* sender.  pid, test and pause: the loop that waits for the other.        *)

SenderReadsPid ==
    /\ sPc = "pid" /\ sPc' = "test" /\ rPending' = rPending \union {"USR2"}
    /\ UNCHANGED <<number, sReady, sem, sent, sPending, receiver, late, missed>>

SenderTests ==
    /\ sPc = "test" /\ sPc' = IF sReady THEN "type" ELSE "before pause"
    /\ UNCHANGED <<number, sReady, sem, sent, sPending, receiver, rPending, late, missed>>

SenderPauses ==
    /\ sPc = "before pause" /\ sPc' = "pause" /\ missed' = (missed \/ sReady)
    /\ UNCHANGED <<number, sReady, sem, sent, sPending, receiver, rPending, late>>

\* The user types a number, which takes as long as a signal does.
SenderReadsNumber ==
    /\ sPc = "type" /\ sPc' = "send" /\ late' = (late \/ rPending # {} \/ stack # <<>>)
    /\ UNCHANGED <<number, sReady, sem, sent, sPending, receiver, rPending, missed>>

SendLastBit ==
    /\ sPc = "send" /\ sent' = sent + 1 /\ sPc' = "wait"
    /\ rPending' = rPending \union {IF Bit(number, sent) = 1 THEN "USR2" ELSE "USR1"}
    /\ UNCHANGED <<number, sReady, sem, sPending, receiver, late, missed>>

\* wait_for_approval: the semaphore begins at one.
SemWait ==
    /\ sPc = "wait" /\ sem > 0 /\ sem' = sem - 1 /\ sPc' = "sleep"
    /\ UNCHANGED <<number, sReady, sent, sPending, receiver, rPending, late, missed>>

Answered == rPending = {} /\ stack = <<>> /\ sPending = {}
AfterSleep == IF sent = Bits THEN "done" ELSE "send"

WakeUp ==
    /\ sPc = "sleep" /\ sPc' = AfterSleep /\ late' = (late \/ ~Answered)
    /\ UNCHANGED <<number, sReady, sem, sent, sPending, receiver, rPending, missed>>

\* approve_signal_handler, ready_signal_handler.  A handler ends a pause and a sleep.
SenderHandles(s) ==
    /\ sPc # "done" /\ s \in sPending /\ sPending' = sPending \ {s}
    /\ IF s = "USR1" THEN sem' = sem + 1 /\ UNCHANGED sReady
       ELSE sReady' = TRUE /\ UNCHANGED sem
    /\ sPc' = (CASE sPc = "pause" -> "test" [] sPc = "sleep" -> AfterSleep [] OTHER -> sPc)
    /\ UNCHANGED <<number, sent, receiver, rPending, late, missed>>

-----------------------------------------------------------------------------
(* receiver.                                                               *)

Waiting == IF rReady THEN write_bit < Bits ELSE TRUE

ReceiverReadsPid ==
    /\ rPc = "pid" /\ stack = <<>> /\ rPc' = "test" /\ sPending' = sPending \union {"USR2"}
    /\ UNCHANGED <<number, sender, rReady, stack, read_number, write_bit, rPending, late, missed>>

ReceiverTests ==
    /\ rPc = "test" /\ stack = <<>>
    /\ rPc' = (IF ~rReady THEN "before pause" ELSE "test bits")
    /\ UNCHANGED <<number, sender, sPending, rReady, stack, read_number, write_bit, rPending,
                   late, missed>>

ReceiverTestsBits ==
    /\ rPc = "test bits" /\ stack = <<>>
    /\ rPc' = (IF write_bit < Bits THEN "before pause" ELSE "done")
    /\ UNCHANGED <<number, sender, sPending, rReady, stack, read_number, write_bit, rPending,
                   late, missed>>

ReceiverPauses ==
    /\ rPc = "before pause" /\ stack = <<>> /\ rPc' = "pause"
    /\ missed' = (missed \/ ~Waiting)
    /\ UNCHANGED <<number, sender, sPending, rReady, stack, read_number, write_bit, rPending, late>>

\* A signal is not handled while its own handler runs.
ReceiverEnters(s) ==
    /\ rPc \notin {"done", "aborted"} /\ s \in rPending
    /\ \A i \in DOMAIN stack : stack[i][1] # s
    /\ rPending' = rPending \ {s} /\ stack' = Append(stack, <<s, "enter">>)
    /\ UNCHANGED <<number, sender, sPending, rPc, rReady, read_number, write_bit, late, missed>>

Top == stack[Len(stack)]
Under == SubSeq(stack, 1, Len(stack) - 1)
After(step) == stack' = Append(Under, <<Top[1], step>>)

\* A return from the last handler ends a pause.
Return ==
    /\ stack' = Under
    /\ rPc' = IF rPc = "pause" /\ Under = <<>>
              THEN IF rReady' THEN "test bits" ELSE "test" ELSE rPc

\* Mutant: the signal that says ready is a bit, too.
OrBitAlways ==
    /\ stack # <<>> /\ Top[2] = "enter"
    /\ rReady' = (rReady \/ Top[1] = "USR2")
    /\ read_number' = (IF Top[1] = "USR2" /\ Bit(read_number, write_bit) = 0
                       THEN read_number + 2 ^ write_bit ELSE read_number)
    /\ After("or") /\ UNCHANGED <<rPc, write_bit>>
    /\ UNCHANGED <<number, sender, sPending, rPending, late, missed>>

ReadyOrBit ==
    /\ stack # <<>> /\ Top[2] = "enter"
    /\ IF Top[1] = "USR2" /\ ~rReady
       THEN rReady' = TRUE /\ Return /\ UNCHANGED read_number
       ELSE /\ read_number' = (IF Top[1] = "USR2" /\ Bit(read_number, write_bit) = 0
                               THEN read_number + 2 ^ write_bit ELSE read_number)
            /\ After("or") /\ UNCHANGED <<rPc, rReady>>
    /\ UNCHANGED <<number, sender, sPending, write_bit, rPending, late, missed>>

NextBit ==
    /\ stack # <<>> /\ Top[2] = "or" /\ write_bit' = write_bit + 1 /\ After("kill")
    /\ UNCHANGED <<number, sender, sPending, rPc, rReady, read_number, rPending, late, missed>>

\* The assertion fails when sender has ended.
Approve ==
    /\ stack # <<>> /\ Top[2] = "kill"
    /\ IF sPc = "done" THEN rPc' = "aborted" /\ stack' = <<>> /\ UNCHANGED <<sPending, rReady>>
       ELSE sPending' = sPending \union {"USR1"} /\ UNCHANGED rReady /\ Return
    /\ UNCHANGED <<number, sender, read_number, write_bit, rPending, late, missed>>

Handler == ReadyOrBit \/ NextBit \/ Approve
Sender ==
    \/ SenderReadsPid \/ SenderTests \/ SenderPauses \/ SenderReadsNumber
    \/ SendLastBit \/ SemWait \/ WakeUp
Receiver == ReceiverReadsPid \/ ReceiverTests \/ ReceiverTestsBits \/ ReceiverPauses

Next ==
    \/ Sender \/ Receiver \/ Handler
    \/ \E s \in Signals : SenderHandles(s) \/ ReceiverEnters(s)

\* The processes run and a signal is delivered in the end.
Spec ==
    /\ Init /\ [][Next]_vars /\ WF_vars(Sender) /\ WF_vars(Receiver) /\ WF_vars(Handler)
    /\ \A s \in Signals : WF_vars(SenderHandles(s)) /\ WF_vars(ReceiverEnters(s))

-----------------------------------------------------------------------------
(* Properties.                                                             *)

\* The type of the state.  At most one bit more than there are can be noted.
TypeOK ==
    /\ number \in 0 .. Max /\ read_number \in 0 .. Max
    /\ sPending \subseteq Signals /\ rPending \subseteq Signals
    /\ sPc \in {"pid", "test", "before pause", "pause", "type", "send", "wait", "sleep", "done"}
    /\ rPc \in {"pid", "test", "before pause", "pause", "test bits", "done", "aborted"}
    /\ sem \in 0 .. Bits + 1 /\ sent \in 0 .. Bits /\ write_bit \in 0 .. Bits
    /\ Len(stack) <= 2

\* If every signal was handled in time, what has been noted are the first bits of
\* the number, and in the end the number itself (send_last_bit, signal_handler).
BitsAreKept ==
    ~late => /\ rPc # "aborted"
             /\ stack = <<>> => read_number = number % 2 ^ write_bit
             /\ rPc = "done" => read_number = number

\* Both end, but for a signal that was handled late and for a pause that began when the
\* last signal was already there (the loops around pause).
TransferEnded == (sPc = "done" /\ rPc = "done") \/ late \/ missed
TransferEnds == <>TransferEnded
=============================================================================
