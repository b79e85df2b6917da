----------------------------- MODULE TextStream -----------------------------
(***************************************************************************)
(* The text reversal of os_ihw1, marks 9 and 10: io_handler sends a file   *)
(* chunk by chunk to text_processor and writes what comes back, over FIFOs *)
(* (mark9) or POSIX message queues (mark10).  At the end it sends one more *)
(* byte.  A text is the sequence 1 .. length, Junk a byte from outside.    *)
(***************************************************************************)
EXTENDS Naturals, Sequences, FiniteSets

CONSTANTS
    Marks,          \* of {"9", "10"}
    MaxLength,      \* of a text
    ChunkSize,      \* TRANSFER_BUFFER_SIZE - 1
    Junk, EndChar

Min(a, b) == IF a < b THEN a ELSE b
Max(a, b) == IF a < b THEN b ELSE a

VARIABLES
    mark, length, ok,   \* ok: both files could be opened
    start_n, end_n,
    hPc, sent, out,     \* io_handler, the bytes it has sent, the output file
    pPc, current, chunk, early,     \* text_processor; early: it took a stale byte for the end
    toP, toH            \* the FIFOs or queues

given == <<mark, length, ok, start_n, end_n>>
handler == <<hPc, sent, out>>
processor == <<pPc, current, chunk, early>>
vars == <<given, handler, processor, toP, toH>>

\* A FIFO is opened by both or by none, and mark9 begins there.  A queue is there for
\* whoever comes first, and text_processor of mark10 may come late.
Init ==
    /\ mark \in Marks /\ length \in 0 .. MaxLength /\ ok \in BOOLEAN
    /\ start_n \in 0 .. MaxLength /\ end_n \in start_n .. MaxLength
    /\ hPc = "read" /\ sent = 0 /\ out = <<>>
    /\ pPc = (IF mark = "9" THEN "receive" ELSE "off")
    /\ current = 0 /\ chunk = <<>> /\ early = FALSE /\ toP = <<>> /\ toH = <<>>

Ended == {"ok", "failed", "killed"}
Gone(pc) == mark = "9" /\ pc \in Ended    \* the other end of a FIFO is closed

-----------------------------------------------------------------------------
(* io_handler.                                                             *)

OpenFails ==
    /\ hPc = "read" /\ ~ok /\ hPc' = "fail"
    /\ UNCHANGED <<given, sent, out, processor, toP, toH>>

\* SIGPIPE ends a handler that writes when the processor is gone.
ReadAndSend ==
    /\ hPc = "read" /\ ok
    /\ IF sent = length THEN hPc' = "notify" /\ UNCHANGED <<sent, toP>>
       ELSE IF Gone(pPc) THEN hPc' = "killed" /\ UNCHANGED <<sent, toP>>
       ELSE LET n == Min(ChunkSize, length - sent) IN
            /\ toP' = Append(toP, [i \in 1 .. n |-> sent + i])
            /\ sent' = sent + n /\ hPc' = "receive"
    /\ UNCHANGED <<given, out, processor, toH>>

ReceiveAndWrite ==
    /\ hPc = "receive"
    /\ \/ toH # <<>> /\ out' = out \o Head(toH) /\ toH' = Tail(toH)
       \/ toH = <<>> /\ Gone(pPc) /\ UNCHANGED <<out, toH>>
    /\ hPc' = "read" /\ UNCHANGED <<given, sent, processor, toP>>

\* mark10 removes the queues, too: a processor that comes later finds new ones.
NotifyEndOfCommunication ==
    /\ hPc \in {"notify", "fail"}
    /\ IF Gone(pPc) THEN hPc' = "killed" /\ UNCHANGED toP
       ELSE /\ toP' = IF pPc = "off" THEN <<>> ELSE Append(toP, <<EndChar>>)
            /\ hPc' = IF hPc = "notify" THEN "ok" ELSE "failed"
    /\ UNCHANGED <<given, sent, out, processor, toH>>

-----------------------------------------------------------------------------
(* text_processor.                                                         *)

Start ==
    /\ pPc = "off" /\ pPc' = "receive"
    /\ UNCHANGED <<given, handler, current, chunk, early, toP, toH>>

Receive ==
    /\ pPc = "receive"
    /\ \/ toP # <<>> /\ chunk' = Head(toP) /\ toP' = Tail(toP) /\ pPc' = "check"
       \/ toP = <<>> /\ Gone(hPc) /\ pPc' = "ok" /\ UNCHANGED <<chunk, toP>>
    /\ UNCHANGED <<given, handler, current, early, toH>>

\* read_buffer[string_length] is one beyond what was received: whatever was there.
CheckEnd ==
    /\ pPc = "check"
    /\ \/ pPc' = "answer" /\ UNCHANGED early
       \/ pPc' = "ok" /\ early' = TRUE
    /\ UNCHANGED <<given, handler, current, chunk, toP, toH>>

\* Mutant: the right end is one too far to the left.
ReverseSubstringShort(c, l, r) ==
    [i \in DOMAIN c |->
        IF i - 1 \notin l .. r - 1 THEN c[i]
        ELSE IF l + r - i < Len(c) THEN c[l + r - i + 1] ELSE Junk]

\* What lies beyond the chunk is swapped in when r is beyond its end.
ReverseSubstring(c, l, r) ==
    [i \in DOMAIN c |->
        IF i - 1 \notin l .. r THEN c[i]
        ELSE IF l + r - i + 1 < Len(c) THEN c[l + r - i + 2] ELSE Junk]

\* The right end of the first case is not made relative to the chunk, as l is.
FirstPart == current <= start_n /\ start_n < current + Len(chunk)
LastPart == current <= end_n /\ end_n < current + Len(chunk)

\* Mutant: a chunk that ends the range is reversed as a whole.
ReversedWhole ==
    IF FirstPart
    THEN ReverseSubstring(chunk, start_n - current, Min(end_n, current + Len(chunk) - 1))
    ELSE IF LastPart THEN ReverseSubstring(chunk, 0, Len(chunk) - 1) ELSE chunk

Reversed ==
    IF FirstPart
    THEN ReverseSubstring(chunk, start_n - current, Min(end_n, current + Len(chunk) - 1))
    ELSE IF LastPart
    THEN ReverseSubstring(chunk, Max(start_n, current) - current, end_n - current)
    ELSE chunk

\* Mutant: a chunk that is left as it is gets no answer.
AnswerChanged ==
    /\ pPc = "answer"
    /\ pPc' = (IF Gone(hPc) THEN "killed" ELSE "receive")
    /\ toH' = (IF Gone(hPc) \/ ~(FirstPart \/ LastPart) THEN toH ELSE Append(toH, Reversed))
    /\ current' = current + Len(chunk)
    /\ UNCHANGED <<given, handler, chunk, early, toP>>

\* Writing beyond the array may also end the process.
Answer ==
    /\ pPc = "answer"
    /\ \/ /\ Gone(hPc) \/ (FirstPart /\ Min(end_n, current + Len(chunk) - 1) > ChunkSize)
          /\ pPc' = "killed" /\ UNCHANGED <<current, toH>>
       \/ /\ ~Gone(hPc)
          /\ toH' = Append(toH, Reversed) /\ current' = current + Len(chunk)
          /\ pPc' = "receive"
    /\ UNCHANGED <<given, handler, chunk, early, toP>>

Handler == OpenFails \/ ReadAndSend \/ ReceiveAndWrite \/ NotifyEndOfCommunication
Processor == Start \/ Receive \/ CheckEnd \/ Answer

Next == Handler \/ Processor

\* The kernel runs both programs.
Fairness == WF_vars(Handler) /\ WF_vars(Processor)

Spec == Init /\ [][Next]_vars /\ Fairness

-----------------------------------------------------------------------------
(* Properties.                                                             *)

Bytes == 1 .. MaxLength \union {Junk, EndChar}

TypeOK ==
    /\ hPc \in {"read", "receive", "notify", "fail"} \union Ended
    /\ pPc \in {"off", "receive", "check", "answer"} \union Ended
    /\ sent \in 0 .. length /\ current \in 0 .. MaxLength + 1
    /\ \A i \in DOMAIN out : out[i] \in Bytes
    /\ Len(chunk) <= ChunkSize /\ Len(toP) <= 1 /\ Len(toH) <= 1

InRange(k) == k - 1 \in start_n .. end_n

\* With a range inside of the first chunk, io_handler succeeds only with the whole
\* text, the range of it reversed.
RangeIsReversed ==
    hPc = "ok" /\ ~early /\ end_n < Min(length, ChunkSize) =>
        out = [k \in 1 .. length |-> IF InRange(k) THEN start_n + end_n + 2 - k ELSE k]

\* What lies outside of the range comes out as it went in and where it was, if the range
\* starts in the first chunk, however the chunks are cut.
OutsideIsUntouched ==
    start_n < ChunkSize => \A k \in DOMAIN out : ~InRange(k) => out[k] = k

\* io_handler ends, unless in mark10 the processor stopped before it or was killed.
HandlerEnds ==
    <>(hPc \in Ended \/ (mark = "10" /\ (early \/ pPc = "killed")))

\* text_processor of mark9 ends.  The one of mark10 waits for ever, as the byte that
\* tells the end is not looked at.
ProcessorEnds == mark = "9" => <>(pPc \in Ended)
=============================================================================
