------------------------------ MODULE Transfers ------------------------------
(***************************************************************************)
(* Four exercises in which data goes from one place to another: chunks     *)
(* over FIFOs or queues (os_ihw1, marks 9 and 10: TextStream), messages    *)
(* over one pipe (os_hw9: PipeTalk), broadcasts (os_hw11: UdpBroadcast)    *)
(* and pieces of a file (os_hw4: FileCopy).  They share no state.          *)
(***************************************************************************)
EXTENDS Naturals, Sequences, FiniteSets

CONSTANTS
    MaxLength, ChunkSize, Junk, EndChar,    \* TextStream; MaxLength of FileCopy, too
    MaxSignals,                             \* PipeTalk
    Receivers, LastLine, MaxCopies,         \* UdpBroadcast
    MAX_READ_SIZE                           \* FileCopy

\* A buffer has room for a byte.
ASSUME TransfersAssumption ==
    /\ MaxLength \in Nat /\ ChunkSize \in Nat \ {0} /\ MaxSignals \in Nat
    /\ LastLine \in Nat /\ MaxCopies \in Nat /\ MAX_READ_SIZE \in Nat \ {0}

VARIABLES
    sMark, length, ok, start_n, end_n, hPc, sent, sOut, pPc, current, chunk, early, toP, toH,
    tPc, is_running, pending, result, sem, exists, tPipe, pressed,
    ends, bSent, sPc, cPc, net,
    source, old, file, fPc, read, piece, written, short

Stream == INSTANCE TextStream WITH Marks <- {"9", "10"}, mark <- sMark, out <- sOut
Talk == INSTANCE PipeTalk WITH pc <- tPc, pipe <- tPipe
Broadcast == INSTANCE UdpBroadcast WITH
    Clients <- Receivers, Lines <- LastLine, sent <- bSent
Copy == INSTANCE FileCopy WITH pc <- fPc

stream == <<sMark, length, ok, start_n, end_n, hPc, sent, sOut, pPc, current, chunk,
            early, toP, toH>>
talk == <<tPc, is_running, pending, result, sem, exists, tPipe, pressed>>
broadcast == <<ends, bSent, sPc, cPc, net>>
copy == <<source, old, file, fPc, read, piece, written, short>>

\* TextStream: a range in the first chunk is reversed, the rest stays as it was, however the
\* text is cut (reverse_substring, and the loops of io_handler and text_processor).
StreamIsRight == Stream!TypeOK /\ Stream!RangeIsReversed /\ Stream!OutsideIsUntouched

\* PipeTalk: one message, for whoever has the semaphore, and the semaphore until both have
\* ended (run_main_process_impl, run_child_process_impl).
TalkIsRight == Talk!TypeOK /\ Talk!OneMessage

\* UdpBroadcast: no client ends well before the server has sent the end (is_end_message).
BroadcastIsRight == Broadcast!TypeOK /\ Broadcast!EndWasSent

\* FileCopy: the copy is the source and behind it what was there before (copy_file_impl).
CopyIsRight == Copy!TypeOK /\ Copy!CopyIsWhole

\* What arrives is what was sent: all that the four exercises have to say of it.
TransfersAreRight == StreamIsRight /\ TalkIsRight /\ BroadcastIsRight /\ CopyIsRight
=============================================================================
