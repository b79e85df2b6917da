---------------------------- MODULE TextEncoder -----------------------------
(***************************************************************************)
(* The parallel text encoder ihw4 in its three versions: threads take      *)
(* chunks of the text, encode and store them, and main prints the codes in *)
(* the order of the text.  Version 1 has a mutex for each shared thing and *)
(* a sorted list, version 2 atomic counters and an array, version 3 the    *)
(* array and OpenMP's one critical section.  A character is its position,  *)
(* and at most one is not a letter: a space.                               *)
(***************************************************************************)
EXTENDS Integers, Sequences, SequencesExt, FiniteSets

CONSTANTS
    Versions,       \* of {1, 2, 3}
    Threads,        \* THREADS_SIZE
    Nobody,         \* who holds a lock that is free
    MaxLength,      \* of the typed text
    ChunkSize       \* ENCODE_CHUNK_SIZE

NULL == -1
NO_CODE == 0

VARIABLES
    version, source, typed, space,  \* which program; how it gets the text; its length; its space, or 0
    string,                         \* the characters that were read
    main, output,
    pc, chunk, place,               \* of each thread; place: current_node of version 1, else index
    failed, lost,                   \* the threads without memory, and their chunks
    next_chunk, holder,             \* holder of each lock
    head, tail, next, prev,         \* store_list of version 1
    results                         \* results_array[0 .. current_array_size - 1]

given == <<version, source, typed, space>>
list == <<head, tail, next, prev>>
vars == <<given, string, main, output, pc, chunk, place, failed, lost, next_chunk,
          holder, list, results>>

Chunks == 0 .. MaxLength    \* threads + chunks bounds what is taken

Locks == {"get", "store", "write", "critical"}

Init ==
    /\ version \in Versions /\ source \in {"given", "stdin"}
    /\ typed \in 0 .. MaxLength /\ space \in 0 .. typed
    /\ string = <<>> /\ main = "init" /\ output = <<>>
    /\ pc = [t \in Threads |-> "off"] /\ chunk = [t \in Threads |-> 0]
    /\ place = [t \in Threads |-> NULL]
    /\ failed = {} /\ lost = {} /\ next_chunk = 0
    /\ holder = [l \in Locks |-> Nobody]
    /\ head = NULL /\ tail = NULL
    /\ next = [c \in Chunks |-> NULL] /\ prev = [c \in Chunks |-> NULL]
    /\ results = <<>>

-----------------------------------------------------------------------------
(* main.                                                                   *)

\* scanf("%s") passes over a space at the beginning and stops at the next one.
Characters ==
    LET all == [i \in 1 .. typed |-> i] IN
    IF source # "stdin" \/ space = 0 THEN all
    ELSE IF space = 1 THEN Tail(all) ELSE SubSeq(all, 1, space - 1)

ChunkCount == (Len(string) + ChunkSize - 1) \div ChunkSize

InitThreadsContext ==
    /\ main = "init" /\ (source = "stdin" => Characters # <<>>)
    /\ string' = Characters /\ main' = "run" /\ pc' = [t \in Threads |-> "take"]
    /\ UNCHANGED <<given, output, chunk, place, failed, lost, next_chunk, holder, list, results>>

\* A lock, the text or the array cannot be had, or nothing is typed.
InitFails ==
    /\ main = "init" /\ main' = "failed"
    /\ UNCHANGED <<given, string, output, pc, chunk, place, failed, lost, next_chunk,
                   holder, list, results>>

EncodeChar(i) == IF i = space THEN NO_CODE ELSE i

\* What is printed of a chunk: its codes up to the first NO_CODE.
Codes(c) ==
    LET first == c * ChunkSize + 1
        codes == [i \in 1 .. ChunkSize |->
                     IF first + i - 1 > Len(string) THEN NO_CODE
                     ELSE EncodeChar(string[first + i - 1])]
        end == SelectInSeq(codes, LAMBDA code : code = NO_CODE)
    IN  IF end = 0 THEN codes ELSE SubSeq(codes, 1, end - 1)

\* store_list in the order of its next pointers.
StoreList ==
    LET node[k \in 0 .. MaxLength] ==
            IF k = 0 THEN head
            ELSE IF node[k - 1] = NULL THEN NULL ELSE next[node[k - 1]]
    IN  SelectSeq([k \in 1 .. MaxLength + 1 |-> node[k - 1]], LAMBDA n : n # NULL)

Sorted == IF version = 1 THEN StoreList ELSE SortSeq(results, <)

JoinAndPrint ==
    /\ main = "run" /\ \A t \in Threads : pc[t] = "off"
    /\ output' = FlattenSeq([k \in DOMAIN Sorted |-> Codes(Sorted[k])])
    /\ main' = "done"
    /\ UNCHANGED <<given, string, pc, chunk, place, failed, lost, next_chunk, holder,
                   list, results>>

-----------------------------------------------------------------------------
(* The threads.                                                            *)

LockOf(l) == IF version = 3 THEN "critical" ELSE l
Lock(t, l) == holder[LockOf(l)] = Nobody /\ holder' = [holder EXCEPT ![LockOf(l)] = t]
Unlock(l) == holder' = [holder EXCEPT ![LockOf(l)] = Nobody]
Goto(t, to) == pc' = [pc EXCEPT ![t] = to]
Begin(t, c) == Goto(t, IF c < ChunkCount THEN "announce" ELSE "off")

main_vars == <<given, string, main, output>>

\* version 2: an atomic ++.
TakeChunk(t) ==
    /\ pc[t] = "take" /\ version = 2
    /\ chunk' = [chunk EXCEPT ![t] = next_chunk] /\ next_chunk' = next_chunk + 1
    /\ Begin(t, next_chunk)
    /\ UNCHANGED <<main_vars, place, failed, lost, holder, list, results>>

\* Mutant: the counter is read before the lock is taken.
ReadChunkUnlocked(t) ==
    /\ pc[t] = "take" /\ version # 2
    /\ chunk' = [chunk EXCEPT ![t] = next_chunk] /\ Goto(t, "advance")
    /\ UNCHANGED <<main_vars, place, failed, lost, next_chunk, holder, list, results>>

ReadChunk(t) ==
    /\ pc[t] = "take" /\ version # 2 /\ Lock(t, "get")
    /\ chunk' = [chunk EXCEPT ![t] = next_chunk] /\ Goto(t, "advance")
    /\ UNCHANGED <<main_vars, place, failed, lost, next_chunk, list, results>>

AdvanceChunk(t) ==
    /\ pc[t] = "advance" /\ next_chunk' = chunk[t] + 1 /\ Unlock("get")
    /\ Begin(t, chunk[t])
    /\ UNCHANGED <<main_vars, chunk, place, failed, lost, list, results>>

\* Mutant: the log is not locked.
StartLogUnlocked(t) ==
    /\ pc[t] \in {"announce", "report"}
    /\ Goto(t, IF pc[t] = "announce" THEN "announcing" ELSE "reporting")
    /\ UNCHANGED <<main_vars, chunk, place, failed, lost, next_chunk, holder, list, results>>

StartLog(t) ==
    /\ pc[t] \in {"announce", "report"} /\ Lock(t, "write")
    /\ Goto(t, IF pc[t] = "announce" THEN "announcing" ELSE "reporting")
    /\ UNCHANGED <<main_vars, chunk, place, failed, lost, next_chunk, list, results>>

\* Mutant: the lock is kept.
EndLogLocked(t) ==
    /\ pc[t] \in {"announcing", "reporting"}
    /\ Goto(t, IF pc[t] = "announcing" THEN "encode" ELSE "take")
    /\ UNCHANGED <<main_vars, chunk, place, failed, lost, next_chunk, holder, list, results>>

EndLog(t) ==
    /\ pc[t] \in {"announcing", "reporting"} /\ Unlock("write")
    /\ Goto(t, IF pc[t] = "announcing" THEN "encode" ELSE "take")
    /\ UNCHANGED <<main_vars, chunk, place, failed, lost, next_chunk, list, results>>

\* A thread without memory stops, and its chunk is nobody's.
Encode(t) ==
    /\ pc[t] = "encode"
    /\ \/ Goto(t, "store") /\ UNCHANGED <<failed, lost>>
       \/ Goto(t, "off") /\ failed' = failed \union {t} /\ lost' = lost \union {chunk[t]}
    /\ UNCHANGED <<main_vars, chunk, place, next_chunk, holder, list, results>>

\* version 1: from the tail to the last node of a lower chunk.
FindPlace(t) ==
    /\ pc[t] = "store" /\ version = 1 /\ Lock(t, "store")
    /\ LET lower == {n \in ToSet(StoreList) : n < chunk[t]} IN
       place' = [place EXCEPT ![t] =
                    IF lower = {} THEN NULL ELSE CHOOSE n \in lower : \A m \in lower : m <= n]
    /\ Goto(t, "insert")
    /\ UNCHANGED <<main_vars, chunk, failed, lost, next_chunk, list, results>>

\* Mutant: the node after the new one is not told.
LinkBackOne(n, before, after) == [prev EXCEPT ![n] = before]

LinkBack(n, before, after) ==
    [m \in Chunks |-> IF m = n THEN before ELSE IF m = after THEN n ELSE prev[m]]

Insert(t) ==
    LET n == chunk[t]
        before == place[t]
        after == IF before = NULL THEN head ELSE next[before]
    IN
    /\ pc[t] = "insert"
    /\ IF before = NULL THEN head' = n ELSE UNCHANGED head
    /\ next' = [m \in Chunks |-> IF m = n THEN after ELSE IF m = before THEN n ELSE next[m]]
    /\ prev' = LinkBack(n, before, after)
    /\ tail' = IF after = NULL THEN n ELSE tail
    /\ Unlock("store") /\ Goto(t, "report")
    /\ UNCHANGED <<main_vars, chunk, place, failed, lost, next_chunk, results>>

\* The array grows by a slot that is written later; version 2: an atomic ++.
ReserveSlot(t) ==
    /\ pc[t] = "store" /\ version = 2
    /\ place' = [place EXCEPT ![t] = Len(results) + 1] /\ results' = Append(results, NULL)
    /\ Goto(t, "write")
    /\ UNCHANGED <<main_vars, chunk, failed, lost, next_chunk, holder, list>>

ReadSize(t) ==
    /\ pc[t] = "store" /\ version = 3 /\ Lock(t, "store")
    /\ place' = [place EXCEPT ![t] = Len(results) + 1] /\ Goto(t, "grow")
    /\ UNCHANGED <<main_vars, chunk, failed, lost, next_chunk, list, results>>

AdvanceSize(t) ==
    /\ pc[t] = "grow" /\ Unlock("store") /\ Goto(t, "write")
    /\ results' = Append(results, NULL)
    /\ UNCHANGED <<main_vars, chunk, place, failed, lost, next_chunk, list>>

\* Mutant: a thread writes at the end of the array as it is now.
WriteLastSlot(t) ==
    /\ pc[t] = "write" /\ results' = [results EXCEPT ![Len(results)] = chunk[t]]
    /\ Goto(t, "report")
    /\ UNCHANGED <<main_vars, chunk, place, failed, lost, next_chunk, holder, list>>

WriteSlot(t) ==
    /\ pc[t] = "write" /\ results' = [results EXCEPT ![place[t]] = chunk[t]]
    /\ Goto(t, "report")
    /\ UNCHANGED <<main_vars, chunk, place, failed, lost, next_chunk, holder, list>>

Encoder(t) ==
    \/ TakeChunk(t) \/ ReadChunk(t) \/ AdvanceChunk(t) \/ StartLog(t) \/ EndLog(t)
    \/ Encode(t) \/ FindPlace(t) \/ Insert(t)
    \/ ReserveSlot(t) \/ ReadSize(t) \/ AdvanceSize(t) \/ WriteSlot(t)

Main == InitThreadsContext \/ InitFails \/ JoinAndPrint

Next == Main \/ \E t \in Threads : Encoder(t)

\* The threads run until they end, and a lock that is free is taken.
Spec == Init /\ [][Next]_vars /\ WF_vars(Main) /\ \A t \in Threads : WF_vars(Encoder(t))

-----------------------------------------------------------------------------
(* Properties.                                                             *)

\* The type of the state (main.c, encoder_types.h).
TypeOK ==
    /\ version \in Versions /\ string \in Seq(1 .. MaxLength) /\ output \in Seq(1 .. MaxLength)
    /\ main \in {"init", "run", "done", "failed"}
    /\ chunk \in [Threads -> 0 .. MaxLength + Cardinality(Threads)]
    /\ place \in [Threads -> NULL .. MaxLength]
    /\ holder \in [Locks -> Threads \union {Nobody}]
    /\ lost \subseteq Chunks /\ failed \subseteq Threads
    /\ next \in [Chunks -> Chunks \union {NULL}] /\ prev \in [Chunks -> Chunks \union {NULL}]
    /\ \A i \in DOMAIN results : results[i] \in Chunks \union {NULL}

\* The characters that are to be printed: those of a chunk up to its space.
Before(i) == {j \in 1 .. i : (j - 1) \div ChunkSize = (i - 1) \div ChunkSize}
Expected(chunks) ==
    LET wanted(i) == /\ (i - 1) \div ChunkSize \in chunks
                     /\ \A j \in Before(i) : string[j] # space
    IN  SelectSeq(string, LAMBDA x : \E i \in DOMAIN string : string[i] = x /\ wanted(i))

\* Whatever thread took and stored what when, the codes are printed in the order of the
\* text, and only the chunks of threads without memory are missing, as long as one thread
\* is left to encode the others (encoder, store_result, print_encoding_results).
TextIsEncoded ==
    main = "done" /\ failed # Threads => output = Expected((0 .. ChunkCount - 1) \ lost)

\* Between two insertions the list of version 1 is sorted and can be walked both ways
\* (store_result).
ListIsWhole ==
    version = 1 /\ holder["store"] = Nobody =>
        LET walk == StoreList IN
        /\ \A k \in 1 .. Len(walk) - 1 : walk[k] < walk[k + 1] /\ prev[walk[k + 1]] = walk[k]
        /\ IF walk = <<>> THEN tail = NULL ELSE prev[head] = NULL /\ tail = Last(walk)

\* The comparer of qsort reads every slot: none is empty when the threads have ended.
NoEmptySlot ==
    (\A t \in Threads : pc[t] = "off") => \A i \in DOMAIN results : results[i] # NULL

\* One thread writes to the log at a time (write_lock, omp critical).
OneLogWriter ==
    \A t, u \in Threads :
        pc[t] \in {"announcing", "reporting"} /\ pc[u] \in {"announcing", "reporting"} => t = u

\* main comes to its end.
MainEnded == main \in {"done", "failed"}
EncoderEnds == <>MainEnded
=============================================================================
