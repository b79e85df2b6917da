------------------------------ MODULE FileCopy ------------------------------
(***************************************************************************)
(* os_hw4: copies a file in pieces of at most MAX_READ_SIZE bytes into     *)
(* another, which is created when it does not exist and is not emptied     *)
(* when it does.  Signals are reported and do not stop the copy.           *)
(***************************************************************************)
EXTENDS Naturals, Sequences

CONSTANTS
    MaxLength,          \* of either file
    MAX_READ_SIZE

VARIABLES
    source, old,        \* lengths of the source and of what was in the destination before
    file,               \* the destination: the bytes of the source are 1, 2, ..., old ones 0
    pc, read, piece,    \* bytes that were read, and by the last read
    written, short      \* position in the destination; a write took less than it was given

vars == <<source, old, file, pc, read, piece, written, short>>

Init ==
    /\ source \in 0 .. MaxLength /\ old \in 0 .. MaxLength
    /\ file = [i \in 1 .. old |-> 0]
    /\ pc = "open" /\ read = 0 /\ piece = 0 /\ written = 0 /\ short = FALSE

\* open and fstat of the source, its type, open of the destination.
Open ==
    /\ pc = "open" /\ pc' \in {"read", "failed"}
    /\ UNCHANGED <<source, old, file, read, piece, written, short>>

ReadSize(left) == IF left < MAX_READ_SIZE THEN left ELSE MAX_READ_SIZE

Read ==
    /\ pc = "read"
    /\ \/ pc' = "write" /\ piece' = ReadSize(source - read) /\ read' = read + piece'
       \/ pc' = "failed" /\ UNCHANGED <<read, piece>>
    /\ UNCHANGED <<source, old, file, written, short>>

\* The destination with the next n bytes of the piece at its position.
Extended(n) ==
    [i \in 1 .. (IF written + n > Len(file) THEN written + n ELSE Len(file)) |->
        IF i \in written + 1 .. written + n THEN read - piece + i - written ELSE file[i]]

\* Mutant: a piece of the greatest size is taken for the last.
AnyIsLast == TRUE

\* Mutant: no piece is.
NoneIsLast == FALSE

\* The loop ends with a piece that is not of the greatest size.
IsLast == piece # MAX_READ_SIZE

\* A disk that is full takes fewer bytes, which is no failure to the program.
Write ==
    /\ pc = "write"
    /\ \/ \E n \in 0 .. piece :
             /\ file' = Extended(n) /\ written' = written + n
             /\ short' = (short \/ n < piece) /\ pc' = (IF IsLast THEN "done" ELSE "read")
       \/ pc' = "failed" /\ UNCHANGED <<file, written, short>>
    /\ UNCHANGED <<source, old, read, piece>>

Next == Open \/ Read \/ Write
Spec == Init /\ [][Next]_vars /\ WF_vars(Next)

-----------------------------------------------------------------------------
(* Properties.                                                             *)

\* The type of the state.
TypeOK ==
    /\ pc \in {"open", "read", "write", "done", "failed"} /\ short \in BOOLEAN
    /\ read \in 0 .. source /\ piece \in 0 .. MAX_READ_SIZE /\ written \in 0 .. read
    /\ file \in Seq(0 .. MaxLength)

\* The copy is whole once copy_file has ended without a failure that it could not see: the
\* source comes first, also when its length is a multiple of the piece, and behind it there
\* is what the file was longer before, as it is opened without O_TRUNC.
CopyIsWhole ==
    pc = "done" /\ ~short =>
        /\ Len(file) = (IF old > source THEN old ELSE source)
        /\ \A i \in DOMAIN file : file[i] = (IF i <= source THEN i ELSE 0)

\* The loop of copy_file_impl ends.
CopyEnds == <>(pc \in {"done", "failed"})
=============================================================================
