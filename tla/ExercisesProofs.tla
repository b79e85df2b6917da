--------------------------- MODULE ExercisesProofs ---------------------------
(***************************************************************************)
(* What is proved of the exercises: the ring and the cell in shared memory *)
(* (SharedMemory), and the four transfers (Transfers).  Each part defines  *)
(* an inductive invariant, shows that it implies the property, that the    *)
(* initial states satisfy it, and that every action keeps it.              *)
(***************************************************************************)
EXTENDS SharedMemory, Transfers, FiniteSetTheorems, TLAPS

-----------------------------------------------------------------------------
(* ReadersWriter.                                                          *)

RingProcesses == Writers \union Readers
Cells == 0 .. BUF_SIZE - 1
Places == {"off", "map", "pass", "newer", "elsewhere", "role", "sem", "enter", "check", "claim",
           "set_up", "raise", "check_full", "register", "release", "wait", "mutex", "cell",
           "advance", "unlock", "close", "rm_ring", "rm_admin", "rm_memory", "ended"}

\* Where there is one writer at most, and where a reader has the mutex.
Active == {"set_up", "raise", "wait", "mutex", "cell", "unlock"}
InReader == {"cell", "advance", "unlock"}

RingTypes ==
    /\ ringPc \in [RingProcesses -> Places]
    /\ full \in Nat /\ empty \in Nat /\ store \in [Cells -> {-1, 0, 1}]
    /\ read_mutex \in 0 .. 1 /\ write_mutex \in 0 .. 1 /\ admin \in 0 .. 1
    /\ writer \in 0 .. 1 /\ first_writer \in 0 .. 1
    /\ ring_read \in Cells /\ ring_write \in Cells
    /\ writer_pid \in Writers \union {NoPid}

\* The writers pass one by one, the first takes first_writer and admin is raised by it.
WritersApart ==
    /\ first_writer = 1 => admin = 0
    /\ \A v, w \in Writers : v # w =>
          /\ ringPc[v] \in {"check", "claim"} => ringPc[w] \notin {"check", "claim"}
          /\ ringPc[v] \in Active => ringPc[w] \notin Active
    /\ \A w \in Writers :
          /\ ringPc[w] \in {"check", "claim"} => writer = 0
          /\ ringPc[w] = "claim" => first_writer = 1
          /\ ringPc[w] \in Active => first_writer = 0
          /\ ringPc[w] \in {"cell", "unlock"} => write_mutex = 0
          /\ ringPc[w] \in {"set_up", "raise"} => admin = 0
          /\ ringPc[w] \in {"wait", "mutex", "cell", "unlock"} => admin = 1
          /\ ringPc[w] = "raise" => writer_pid # NoPid
          /\ ringPc[w] \notin {"advance", "release"}

\* The readers come after the writer has raised admin, and take numbers one by one.
ReadersApart ==
    /\ \A q, r \in Readers : q # r /\ ringPc[q] \in InReader => ringPc[r] \notin InReader
    /\ \A r \in Readers :
          /\ ringPc[r] \in InReader => read_mutex = 0
          /\ ringPc[r] \notin {"off", "pass", "elsewhere", "close", "ended"} => admin = 1
          /\ ringPc[r] \notin {"check", "claim", "set_up", "raise"}

\* Before admin is raised nobody has used the ring; afterwards the writer is known.
SetUpFirst ==
    /\ admin = 0 =>
          /\ full = 0 /\ empty = BUF_SIZE /\ ring_read = 0 /\ ring_write = 0
          /\ (\E w \in Writers : ringPc[w] = "raise") => \A i \in Cells : store[i] = -1
    /\ admin = 1 => writer_pid # NoPid

\* The k-th cell from the read index on.
CellAt(k) == IF ring_read + k < BUF_SIZE THEN ring_read + k ELSE ring_read + k - BUF_SIZE

\* Who has taken a unit of full, or of empty, and not used it yet.
Reading == {r \in Readers : ringPc[r] \in {"mutex", "cell"}}
Writing == IF \E w \in Writers : ringPc[w] \in {"mutex", "cell"} THEN 1 ELSE 0

\* The ring holds n numbers.  One more cell lies before them that a reader has emptied and not
\* left behind (o = 1): it is at it, or was ended there and the mutex stays locked.
RingHolds(o, n) ==
    /\ o \in {0, 1} /\ n \in Nat /\ o + n =< BUF_SIZE
    /\ \A k \in Cells : store[CellAt(k)] = IF o =< k /\ k < o + n THEN 1 ELSE -1
    /\ ring_write = IF o + n = BUF_SIZE THEN ring_read ELSE CellAt(o + n)
    /\ full + Cardinality(Reading) =< n
    /\ empty + Writing =< BUF_SIZE - n - o
    /\ o = 1 => read_mutex = 0 /\ \A r \in Readers : ringPc[r] \notin {"cell", "unlock"}
    /\ o = 0 => \A r \in Readers : ringPc[r] # "advance"
RingIsFilled == admin = 1 => \E o, n : RingHolds(o, n)

RingInv ==
    RingTypes /\ WritersApart /\ ReadersApart /\ SetUpFirst /\ RingIsFilled

\* One process goes to another place.
RingMove(p, l) == ringPc' = [ringPc EXCEPT ![p] = l]

LEMMA RingMoved ==
    ASSUME RingTypes, NEW p \in RingProcesses, NEW l \in Places, RingMove(p, l)
    PROVE  /\ ringPc' \in [RingProcesses -> Places] /\ ringPc'[p] = l
           /\ \A q \in RingProcesses \ {p} : ringPc'[q] = ringPc[q]
  BY DEF RingTypes, RingMove

\* The readers with a unit of full are finitely many; what a step does to their number.
LEMMA ReadingFinite == IsFiniteSet(Reading) /\ Cardinality(Reading) \in Nat
  BY FS_Subset, FS_CardinalityType, SharedMemoryAssumption DEF Reading

LEMMA ReadingAfter ==
    ASSUME RingTypes, NEW p \in RingProcesses, NEW l \in Places, RingMove(p, l)
    PROVE  /\ p \notin Readers => Reading' = Reading
           /\ p \in Readers /\ (l \in {"mutex", "cell"} <=> ringPc[p] \in {"mutex", "cell"}) =>
                  Reading' = Reading
           /\ l \notin {"mutex", "cell"} => Cardinality(Reading') =< Cardinality(Reading)
           /\ p \in Readers /\ l \notin {"mutex", "cell"} /\ ringPc[p] \in {"mutex", "cell"} =>
                  Cardinality(Reading') = Cardinality(Reading) - 1
           /\ p \in Readers /\ l \in {"mutex", "cell"} /\ ringPc[p] \notin {"mutex", "cell"} =>
                  Cardinality(Reading') = Cardinality(Reading) + 1
           /\ Cardinality(Reading') \in Nat
  <1>1. /\ ringPc'[p] = l /\ \A q \in RingProcesses \ {p} : ringPc'[q] = ringPc[q]
    BY RingMoved
  <1>2. Readers \subseteq RingProcesses
    BY DEF RingProcesses
  <1>3. Reading' = {r \in Readers : ringPc'[r] \in {"mutex", "cell"}}
    BY DEF Reading
  <1>4. p \notin Readers => Reading' = Reading
    BY <1>1, <1>2, <1>3 DEF Reading
  <1>5. p \in Readers /\ (l \in {"mutex", "cell"} <=> ringPc[p] \in {"mutex", "cell"}) =>
            Reading' = Reading
    BY <1>1, <1>2, <1>3 DEF Reading
  <1>6. p \in Readers /\ l \notin {"mutex", "cell"} /\ ringPc[p] \in {"mutex", "cell"} =>
            p \in Reading /\ Reading' = Reading \ {p}
    BY <1>1, <1>2, <1>3 DEF Reading
  <1>7. p \in Readers /\ l \in {"mutex", "cell"} /\ ringPc[p] \notin {"mutex", "cell"} =>
            p \notin Reading /\ Reading' = Reading \union {p}
    BY <1>1, <1>2, <1>3 DEF Reading
  <1>8. p \in Reading => Cardinality(Reading \ {p}) = Cardinality(Reading) - 1
    BY ReadingFinite, FS_RemoveElement
  <1>9. p \notin Reading => Cardinality(Reading \union {p}) = Cardinality(Reading) + 1
    BY ReadingFinite, FS_AddElement
  <1>10. Cardinality(Reading) \in Nat
    BY ReadingFinite
  <1>11. CASE p \notin Readers
    BY <1>4, <1>10, <1>11
  <1>12. CASE p \in Readers /\ (l \in {"mutex", "cell"} <=> ringPc[p] \in {"mutex", "cell"})
    BY <1>5, <1>10, <1>12
  <1>13. CASE p \in Readers /\ l \notin {"mutex", "cell"} /\ ringPc[p] \in {"mutex", "cell"}
    <2>1. Cardinality(Reading') = Cardinality(Reading) - 1 /\ Cardinality(Reading') \in Nat
      <3>1. IsFiniteSet(Reading \ {p})
        BY ReadingFinite, FS_RemoveElement
      <3>2. QED
        BY <1>6, <1>8, <1>13, <3>1, FS_CardinalityType
    <2>2. QED
      BY <1>10, <1>13, <2>1
  <1>14. CASE p \in Readers /\ l \in {"mutex", "cell"} /\ ringPc[p] \notin {"mutex", "cell"}
    <2>1. /\ Reading' = Reading \union {p}
         /\ Cardinality(Reading \union {p}) = Cardinality(Reading) + 1
      BY <1>7, <1>9, <1>14
    <2>2. Cardinality(Reading') = Cardinality(Reading) + 1
      BY <2>1
    <2>3. Cardinality(Reading') \in Nat
      BY <1>10, <2>2
    <2>4. QED
      BY <1>14, <2>2, <2>3
  <1>15. QED
    BY <1>11, <1>12, <1>13, <1>14

\* What a step of one process does not touch when it stays away from the cells.
RingQuiet ==
    UNCHANGED <<full, empty, store, ring_read, ring_write, read_mutex>>

LEMMA FilledAfterQuiet ==
    ASSUME RingInv, NEW p \in RingProcesses, NEW l \in Places, RingMove(p, l), RingQuiet,
           l \notin {"mutex", "cell", "unlock", "advance"}, admin' = admin
    PROVE  RingIsFilled'
  <1>1. /\ ringPc'[p] = l /\ \A q \in RingProcesses \ {p} : ringPc'[q] = ringPc[q]
    BY RingMoved DEF RingInv
  <1>2. \A q \in RingProcesses : ringPc'[q] \in {"mutex", "cell", "unlock", "advance"} =>
            ringPc'[q] = ringPc[q]
    BY <1>1
  <1>3. Writing' =< Writing
    BY <1>2 DEF Writing, RingProcesses
  <1>4. Cardinality(Reading') =< Cardinality(Reading) /\ Cardinality(Reading') \in Nat
    BY ReadingAfter DEF RingInv
  <1>5. ASSUME NEW o, NEW n, RingHolds(o, n) PROVE RingHolds(o, n)'
    <2>1. \A k : CellAt(k)' = CellAt(k)
      BY DEF CellAt, RingQuiet
    <2>2. full' + Cardinality(Reading') =< n
      BY <1>4, <1>5, ReadingFinite DEF RingHolds, RingQuiet, RingInv, RingTypes
    <2>3. empty' + Writing' =< BUF_SIZE - n - o
      BY <1>3, <1>5, SharedMemoryAssumption
         DEF RingHolds, RingQuiet, RingInv, RingTypes, Writing
    <2>4. \A r \in Readers : ringPc'[r] \in {"cell", "unlock", "advance"} => ringPc'[r] = ringPc[r]
      BY <1>2 DEF RingProcesses
    <2>5. /\ o = 1 => \A r \in Readers : ringPc'[r] \notin {"cell", "unlock"}
          /\ o = 0 => \A r \in Readers : ringPc'[r] # "advance"
      BY <1>5, <2>4 DEF RingHolds
    <2>6. QED
      BY <1>5, <2>1, <2>2, <2>3, <2>5 DEF RingHolds, RingQuiet
  <1>6. QED
    BY <1>5 DEF RingInv, RingIsFilled

\* A step that changes nothing the invariant speaks of.
LEMMA RingUnmoved ==
    ASSUME RingInv,
           UNCHANGED <<ringPc, full, empty, read_mutex, write_mutex, admin, writer, first_writer,
                       store, ring_write, ring_read, writer_pid>>
    PROVE  RingInv'
  <1>1. RingTypes' /\ WritersApart' /\ ReadersApart' /\ SetUpFirst'
    BY DEF RingInv, RingTypes, WritersApart, ReadersApart, SetUpFirst
  <1>2. \A o, n : RingHolds(o, n)' <=> RingHolds(o, n)
    BY DEF RingHolds, CellAt, Reading, Writing
  <1>3. QED
    BY <1>1, <1>2 DEF RingInv, RingIsFilled

\* A process goes on where it uses neither the ring nor what keeps the writers apart; a reader
\* does so beyond admin once it is raised.  What an ended process has locked stays locked.
LEMMA ProcessMoves ==
    ASSUME RingInv, NEW p \in RingProcesses, NEW l \in Places, RingMove(p, l), RingQuiet,
           UNCHANGED <<admin, writer, first_writer, write_mutex, writer_pid>>,
           p \in Writers => l \in {"map", "newer", "elsewhere", "role", "enter", "close",
                                   "rm_ring", "rm_admin", "rm_memory", "ended"},
           p \in Readers =>
               \/ l \in {"pass", "elsewhere", "close", "ended"}
               \/ admin = 1 /\ l \in {"map", "sem", "enter", "check_full", "register", "release",
                                      "wait"}
    PROVE  RingInv'
  <1>1. /\ ringPc' \in [RingProcesses -> Places] /\ ringPc'[p] = l
        /\ \A q \in RingProcesses \ {p} : ringPc'[q] = ringPc[q]
    BY RingMoved DEF RingInv
  <1>2. RingTypes'
    BY <1>1 DEF RingInv, RingTypes, RingQuiet
  <1>3. WritersApart'
    BY <1>1, SharedMemoryAssumption DEF RingInv, WritersApart, RingProcesses, Active
  <1>4. ReadersApart'
    BY <1>1, SharedMemoryAssumption DEF RingInv, ReadersApart, RingProcesses, InReader, RingQuiet
  <1>5. SetUpFirst'
    BY <1>1, SharedMemoryAssumption DEF RingInv, SetUpFirst, RingProcesses, RingQuiet
  <1>6. RingIsFilled'
    BY FilledAfterQuiet, SharedMemoryAssumption DEF RingProcesses
  <1>7. QED
    BY <1>2, <1>3, <1>4, <1>5, <1>6 DEF RingInv

\* Any process opens the common semaphores; a writer opens the memory and its own two.
LEMMA WriterOpens ==
    ASSUME RingInv, NEW w \in Writers,
           Ring!OpenNewerMemory(w) \/ Ring!CreateMemory(w) \/ Ring!OpenRoles(w)
    PROVE  RingInv'
  <1>1. /\ RingQuiet /\ UNCHANGED <<admin, writer, first_writer, write_mutex, writer_pid>>
        /\ \/ RingMove(w, "elsewhere") \/ RingMove(w, "role") \/ RingMove(w, "enter")
           \/ UNCHANGED ringPc
    BY DEF Ring!OpenNewerMemory, Ring!CreateMemory, Ring!OpenRoles, Ring!Spoil, Ring!Goto,
       RingMove, RingQuiet, Ring!shared, Ring!mutexes, Ring!counters, Ring!roles, Ring!ring,
       Ring!pids
  <1>2. w \in RingProcesses /\ w \notin Readers
    BY SharedMemoryAssumption DEF RingProcesses
  <1>3. "elsewhere" \in Places /\ "role" \in Places /\ "enter" \in Places
    BY DEF Places
  <1>4. QED
    BY <1>1, <1>2, <1>3, ProcessMoves, RingUnmoved DEF RingQuiet

LEMMA ProcessStarts ==
    ASSUME RingInv, NEW p \in RingProcesses, Ring!OpenSemaphores(p) PROVE RingInv'
  <1>1. /\ RingQuiet /\ UNCHANGED <<admin, writer, first_writer, write_mutex, writer_pid>>
        /\ \/ p \in Writers /\ (RingMove(p, "map") \/ RingMove(p, "newer"))
           \/ p \notin Writers /\ (RingMove(p, "pass") \/ RingMove(p, "elsewhere"))
           \/ UNCHANGED ringPc
    BY DEF Ring!OpenSemaphores, Ring!Spoil, Ring!Goto, RingMove, RingQuiet, Ring!shared,
       Ring!mutexes, Ring!counters, Ring!roles, Ring!ring, Ring!pids
  <1>2. p \in Writers => p \notin Readers
    BY SharedMemoryAssumption
  <1>3. "map" \in Places /\ "newer" \in Places /\ "pass" \in Places /\ "elsewhere" \in Places
    BY DEF Places
  <1>4. QED
    BY <1>1, <1>2, <1>3, ProcessMoves, RingUnmoved DEF RingQuiet

\* A writer enters, and sees whether it is the first.
LEMMA WriterEnters ==
    ASSUME RingInv, NEW w \in Writers, Ring!EnterWriters(w) \/ Ring!CheckFirst(w)
    PROVE  RingInv'
  <1>1. PICK l \in Places :
            /\ RingMove(w, l) /\ RingQuiet
            /\ UNCHANGED <<admin, first_writer, write_mutex, writer_pid>>
            /\ \/ l = "check" /\ writer = 1 /\ writer' = 0
               \/ l = "claim" /\ writer' = writer /\ ringPc[w] = "check" /\ first_writer = 1
               \/ l = "ended" /\ writer' = writer + 1 /\ ringPc[w] = "check"
    <2>2. CASE Ring!EnterWriters(w)
      BY <2>2 DEF Ring!EnterWriters, Ring!Goto, RingMove, RingQuiet,
             Ring!mutexes, Ring!counters,
         Ring!ring, Ring!pids, Places, RingInv, RingTypes
    <2>3. CASE Ring!CheckFirst(w)
      BY <2>3 DEF Ring!CheckFirst, Ring!Goto, Ring!At, RingMove, RingQuiet,
             Ring!mutexes, Ring!counters,
         Ring!ring, Ring!pids, Places, RingInv, RingTypes
    <2>4. QED
      BY <2>2, <2>3
  <1>2. /\ ringPc' \in [RingProcesses -> Places] /\ ringPc'[w] = l /\ w \in RingProcesses
        /\ \A q \in RingProcesses \ {w} : ringPc'[q] = ringPc[q]
    BY <1>1, RingMoved DEF RingInv, RingProcesses
  <1>3. RingTypes'
    BY <1>1, <1>2 DEF RingInv, RingTypes, RingQuiet, WritersApart
  <1>4. WritersApart'
    BY <1>1, <1>2 DEF RingInv, RingTypes, WritersApart, RingProcesses, Active
  <1>5. ReadersApart'
    BY <1>1, <1>2, SharedMemoryAssumption DEF RingInv, ReadersApart, RingProcesses, RingQuiet
  <1>6. SetUpFirst'
    BY <1>1, <1>2 DEF RingInv, SetUpFirst, RingProcesses, RingQuiet
  <1>7. RingIsFilled'
    BY <1>1, <1>2, FilledAfterQuiet
  <1>8. QED
    BY <1>3, <1>4, <1>5, <1>6, <1>7 DEF RingInv

\* The first writer takes first_writer: there is no other.
LEMMA WriterClaims ==
    ASSUME RingInv, NEW w \in Writers, Ring!ClaimFirst(w) PROVE RingInv'
  <1>1. /\ RingMove(w, "set_up") /\ RingQuiet /\ "set_up" \in Places
        /\ UNCHANGED <<admin, write_mutex, writer_pid>>
        /\ ringPc[w] = "claim" /\ first_writer' = first_writer - 1 /\ writer' = writer + 1
    BY DEF Ring!ClaimFirst, Ring!Goto, Ring!At, RingMove, RingQuiet,
             Ring!mutexes, Ring!counters,
       Ring!ring, Ring!pids, Places
  <1>2. /\ ringPc' \in [RingProcesses -> Places] /\ ringPc'[w] = "set_up" /\ w \in RingProcesses
        /\ \A q \in RingProcesses \ {w} : ringPc'[q] = ringPc[q]
    BY <1>1, RingMoved DEF RingInv, RingProcesses
  <1>3. writer = 0 /\ first_writer = 1 /\ admin = 0
    BY <1>1 DEF RingInv, WritersApart
  <1>4. RingTypes'
    BY <1>1, <1>2, <1>3 DEF RingInv, RingTypes, RingQuiet
  <1>5. WritersApart'
    BY <1>1, <1>2, <1>3 DEF RingInv, WritersApart, RingProcesses, Active
  <1>6. ReadersApart'
    BY <1>1, <1>2, SharedMemoryAssumption DEF RingInv, ReadersApart, RingProcesses, RingQuiet
  <1>7. SetUpFirst'
    BY <1>1, <1>2 DEF RingInv, SetUpFirst, RingProcesses, RingQuiet
  <1>8. RingIsFilled'
    BY <1>1, <1>2, FilledAfterQuiet
  <1>9. QED
    BY <1>4, <1>5, <1>6, <1>7, <1>8 DEF RingInv

\* It empties the ring while nobody sees it.
LEMMA WriterSetsUp ==
    ASSUME RingInv, NEW w \in Writers, Ring!SetUp(w) PROVE RingInv'
  <1>1. /\ RingMove(w, "raise") /\ "raise" \in Places
        /\ UNCHANGED <<full, empty, read_mutex, write_mutex, admin, writer, first_writer>>
        /\ ringPc[w] = "set_up" /\ store' = [i \in Cells |-> -1]
        /\ ring_write' = 0 /\ ring_read' = 0
        /\ writer_pid' = w
    BY DEF Ring!SetUp, Ring!Goto, Ring!At, RingMove, Ring!signals, Ring!mutexes, Ring!counters,
       Ring!roles, Places, Cells
  <1>2. /\ ringPc' \in [RingProcesses -> Places] /\ ringPc'[w] = "raise" /\ w \in RingProcesses
        /\ \A q \in RingProcesses \ {w} : ringPc'[q] = ringPc[q]
    BY <1>1, RingMoved DEF RingInv, RingProcesses
  <1>3. admin = 0
    BY <1>1 DEF RingInv, WritersApart
  <1>4. RingTypes'
    <2>1. store' \in [Cells -> {-1, 0, 1}] /\ 0 \in Cells
      BY <1>1, SharedMemoryAssumption DEF Cells
    <2>2. QED
      BY <1>1, <1>2, <2>1 DEF RingInv, RingTypes
  <1>5. WritersApart'
    BY <1>1, <1>2, SharedMemoryAssumption DEF RingInv, WritersApart, RingProcesses, Active
  <1>6. ReadersApart'
    BY <1>1, <1>2, SharedMemoryAssumption DEF RingInv, ReadersApart, RingProcesses
  <1>7. SetUpFirst' /\ RingIsFilled'
    BY <1>1, <1>3 DEF RingInv, SetUpFirst, RingIsFilled
  <1>8. QED
    BY <1>4, <1>5, <1>6, <1>7 DEF RingInv

\* It lets the readers in: the ring is empty.
LEMMA WriterRaises ==
    ASSUME RingInv, NEW w \in Writers, Ring!RaiseAdmin(w) PROVE RingInv'
  <1>1. /\ RingMove(w, "wait") /\ RingQuiet /\ "wait" \in Places
        /\ UNCHANGED <<writer, first_writer, write_mutex, writer_pid>>
        /\ ringPc[w] = "raise" /\ admin' = IF admin = 0 THEN 1 ELSE admin
    BY DEF Ring!RaiseAdmin, Ring!Goto, Ring!At, RingMove, RingQuiet, Ring!mutexes,
       Ring!counters, Ring!ring, Ring!pids, Places
  <1>2. /\ ringPc' \in [RingProcesses -> Places] /\ ringPc'[w] = "wait" /\ w \in RingProcesses
        /\ \A q \in RingProcesses \ {w} : ringPc'[q] = ringPc[q]
    BY <1>1, RingMoved DEF RingInv, RingProcesses
  <1>3. admin = 0 /\ admin' = 1 /\ writer_pid # NoPid /\ first_writer = 0
    BY <1>1 DEF RingInv, WritersApart, Active
  <1>4. RingTypes'
    BY <1>1, <1>2, <1>3 DEF RingInv, RingTypes, RingQuiet
  <1>5. WritersApart'
    BY <1>1, <1>2, <1>3 DEF RingInv, WritersApart, RingProcesses, Active
  <1>6. ReadersApart'
    BY <1>1, <1>2, <1>3, SharedMemoryAssumption
       DEF RingInv, ReadersApart, RingProcesses, RingQuiet
  <1>7. SetUpFirst'
    BY <1>1, <1>3 DEF RingInv, SetUpFirst
  <1>8. RingHolds(0, 0)'
    <2>1. Reading' = {} /\ Cardinality(Reading') = 0 /\ \A r \in Readers : ringPc'[r] # "advance"
      <3>1. \A r \in Readers : ringPc'[r] \notin {"mutex", "cell", "advance"}
        BY <1>2, <1>3, SharedMemoryAssumption DEF RingInv, ReadersApart, RingProcesses
      <3>2. Reading' = {}
        BY <3>1 DEF Reading
      <3>3. QED
        BY <3>1, <3>2, FS_EmptySet
    <2>2. Writing' = 0
      BY <1>1, <1>2 DEF RingInv, WritersApart, Writing, RingProcesses, Active
    <2>3. /\ full' = 0 /\ empty' = BUF_SIZE /\ ring_read' = 0 /\ ring_write' = 0
          /\ \A i \in Cells : store'[i] = -1
      BY <1>1, <1>3 DEF RingInv, SetUpFirst, RingQuiet
    <2>4. \A k \in Cells : CellAt(k)' = k
      BY <2>3, SharedMemoryAssumption DEF CellAt, Cells
    <2>5. 0 \in Cells /\ BUF_SIZE \in Nat /\ BUF_SIZE # 0 /\ \A k \in Cells : ~(k < 0 + 0)
      BY SharedMemoryAssumption DEF Cells
    <2>6. \A k \in Cells : store'[CellAt(k)'] = -1
      BY <2>3, <2>4
    <2>7. CellAt(0 + 0)' = 0
      BY <2>4, <2>5
    <2>8. QED
      BY <2>1, <2>2, <2>3, <2>5, <2>6, <2>7 DEF RingHolds
  <1>9. RingIsFilled'
    BY <1>8 DEF RingIsFilled
  <1>10. QED
    BY <1>4, <1>5, <1>6, <1>7, <1>9 DEF RingInv

\* The writer takes a unit of empty.
LEMMA WriterWaits ==
    ASSUME RingInv, NEW w \in Writers, Ring!WaitEmpty(w) PROVE RingInv'
  <1>1. /\ RingMove(w, "mutex") /\ "mutex" \in Places
        /\ UNCHANGED <<full, store, ring_read, ring_write, read_mutex, write_mutex, admin,
                       writer, first_writer, writer_pid>>
        /\ ringPc[w] = "wait" /\ empty > 0 /\ empty' = empty - 1
    BY DEF Ring!WaitEmpty, Ring!Goto, Ring!At, RingMove, Ring!mutexes, Ring!roles, Ring!ring,
       Ring!pids, Places
  <1>2. /\ ringPc' \in [RingProcesses -> Places] /\ ringPc'[w] = "mutex" /\ w \in RingProcesses
        /\ \A q \in RingProcesses \ {w} : ringPc'[q] = ringPc[q]
    BY <1>1, RingMoved DEF RingInv, RingProcesses
  <1>3. admin = 1
    BY <1>1 DEF RingInv, WritersApart
  <1>4. RingTypes'
    BY <1>1, <1>2 DEF RingInv, RingTypes
  <1>5. WritersApart'
    BY <1>1, <1>2, <1>3 DEF RingInv, WritersApart, RingProcesses, Active
  <1>6. ReadersApart'
    BY <1>1, <1>2, SharedMemoryAssumption DEF RingInv, ReadersApart, RingProcesses
  <1>7. SetUpFirst'
    BY <1>1, <1>3 DEF RingInv, SetUpFirst
  <1>8. ASSUME NEW o, NEW n, RingHolds(o, n) PROVE RingHolds(o, n)'
    <2>1. Writing = 0 /\ Writing' = 1
      BY <1>1, <1>2 DEF RingInv, WritersApart, Writing, RingProcesses, Active
    <2>2. Reading' = Reading
      BY <1>1, <1>2, SharedMemoryAssumption, ReadingAfter DEF RingInv
    <2>3. \A k : CellAt(k)' = CellAt(k)
      BY <1>1 DEF CellAt
    <2>4. empty' + Writing' =< BUF_SIZE - n - o
      BY <1>1, <1>8, <2>1, SharedMemoryAssumption DEF RingHolds, RingInv, RingTypes
    <2>5. \A r \in Readers : ringPc'[r] = ringPc[r]
      BY <1>2, SharedMemoryAssumption DEF RingProcesses
    <2>6. QED
      BY <1>1, <1>8, <2>2, <2>3, <2>4, <2>5 DEF RingHolds
  <1>9. QED
    BY <1>4, <1>5, <1>6, <1>7, <1>8, <1>1 DEF RingInv, RingIsFilled

LEMMA WriterLocks ==
    ASSUME RingInv, NEW w \in Writers, Ring!LockWrite(w) PROVE RingInv'
  <1>1. /\ RingMove(w, "cell") /\ RingQuiet /\ "cell" \in Places
        /\ UNCHANGED <<admin, writer, first_writer, writer_pid>>
        /\ ringPc[w] = "mutex" /\ write_mutex > 0 /\ write_mutex' = write_mutex - 1
    BY DEF Ring!LockWrite, Ring!Goto, Ring!At, RingMove, Ring!counters, Ring!roles, Ring!ring,
       Ring!pids, Places, RingQuiet
  <1>2. /\ ringPc' \in [RingProcesses -> Places] /\ ringPc'[w] = "cell" /\ w \in RingProcesses
        /\ \A q \in RingProcesses \ {w} : ringPc'[q] = ringPc[q]
    BY <1>1, RingMoved DEF RingInv, RingProcesses
  <1>3. admin = 1 /\ write_mutex = 1 /\ write_mutex' = 0
    BY <1>1 DEF RingInv, WritersApart, RingTypes
  <1>4. RingTypes'
    BY <1>1, <1>2, <1>3 DEF RingInv, RingTypes, RingQuiet
  <1>5. WritersApart'
    BY <1>1, <1>2, <1>3 DEF RingInv, WritersApart, RingProcesses, Active
  <1>6. ReadersApart'
    BY <1>1, <1>2, SharedMemoryAssumption DEF RingInv, ReadersApart, RingProcesses, RingQuiet
  <1>7. SetUpFirst'
    BY <1>1, <1>3 DEF RingInv, SetUpFirst
  <1>8. ASSUME NEW o, NEW n, RingHolds(o, n) PROVE RingHolds(o, n)'
    <2>1. Writing = 1 /\ Writing' = 1
      BY <1>1, <1>2 DEF Writing, RingProcesses
    <2>2. Reading' = Reading
      BY <1>1, <1>2, SharedMemoryAssumption, ReadingAfter DEF RingInv
    <2>3. \A k : CellAt(k)' = CellAt(k)
      BY <1>1 DEF CellAt, RingQuiet
    <2>4. \A r \in Readers : ringPc'[r] = ringPc[r]
      BY <1>2, SharedMemoryAssumption DEF RingProcesses
    <2>5. QED
      BY <1>1, <1>8, <2>1, <2>2, <2>3, <2>4 DEF RingHolds, RingQuiet
  <1>9. QED
    BY <1>4, <1>5, <1>6, <1>7, <1>8, <1>1 DEF RingInv, RingIsFilled

\* The index behind one: the remainder wraps around.
LEMMA NextCell ==
    ASSUME NEW i \in Cells
    PROVE  (i + 1) % BUF_SIZE = (IF i + 1 = BUF_SIZE THEN 0 ELSE i + 1)
  <1>1. CASE i + 1 = BUF_SIZE
    BY <1>1, SharedMemoryAssumption DEF Cells
  <1>2. CASE i + 1 < BUF_SIZE
    BY <1>2, SharedMemoryAssumption DEF Cells
  <1>3. QED
    BY <1>1, <1>2, SharedMemoryAssumption DEF Cells

\* A number is put behind the last one: its cell is empty.
LEMMA WriterWrites ==
    ASSUME RingInv, NEW w \in Writers, Ring!WriteCell(w) PROVE RingInv'
  <1>1. /\ RingMove(w, "unlock") /\ "unlock" \in Places
        /\ UNCHANGED <<empty, ring_read, read_mutex, write_mutex, admin, writer,
                       first_writer, writer_pid>>
        /\ ringPc[w] = "cell" /\ store' = [store EXCEPT ![ring_write] = 1]
        /\ ring_write' = (ring_write + 1) % BUF_SIZE /\ full' = full + 1
    BY DEF Ring!WriteCell, Ring!Goto, Ring!At, RingMove, Ring!mutexes, Ring!roles,
       Ring!pids, Places
  <1>2. /\ ringPc' \in [RingProcesses -> Places] /\ ringPc'[w] = "unlock" /\ w \in RingProcesses
        /\ \A q \in RingProcesses \ {w} : ringPc'[q] = ringPc[q]
    BY <1>1, RingMoved DEF RingInv, RingProcesses
  <1>3. admin = 1
    BY <1>1 DEF RingInv, WritersApart
  <1>4. /\ ring_write \in Cells /\ ring_read \in Cells /\ BUF_SIZE \in Nat /\ BUF_SIZE > 0
        /\ ring_write' = (IF ring_write + 1 = BUF_SIZE THEN 0 ELSE ring_write + 1)
        /\ ring_write' \in Cells
    <2>1. ring_write \in Cells /\ ring_read \in Cells
      BY DEF RingInv, RingTypes
    <2>2. ring_write' = (IF ring_write + 1 = BUF_SIZE THEN 0 ELSE ring_write + 1)
      BY <1>1, <2>1, NextCell
    <2>3. QED
      BY <2>1, <2>2, SharedMemoryAssumption DEF Cells
  <1>5. RingTypes'
    BY <1>1, <1>2, <1>4 DEF RingInv, RingTypes
  <1>6. WritersApart'
    BY <1>1, <1>2, <1>3 DEF RingInv, WritersApart, RingProcesses, Active
  <1>7. ReadersApart'
    BY <1>1, <1>2, SharedMemoryAssumption DEF RingInv, ReadersApart, RingProcesses
  <1>8. SetUpFirst'
    BY <1>1, <1>3 DEF RingInv, SetUpFirst
  <1>9. ASSUME NEW o, NEW n, RingHolds(o, n) PROVE RingHolds(o, n + 1)'
    <2>1. Writing = 1 /\ Writing' = 0
      BY <1>1, <1>2 DEF RingInv, WritersApart, Writing, RingProcesses, Active
    <2>2. Reading' = Reading /\ Cardinality(Reading) \in Nat
      BY <1>1, <1>2, SharedMemoryAssumption, ReadingAfter, ReadingFinite DEF RingInv
    <2>3. \A k : CellAt(k)' = CellAt(k)
      BY <1>1 DEF CellAt
    <2>4. o + n < BUF_SIZE /\ o + n \in Cells /\ n \in Nat /\ o \in {0, 1}
      BY <1>4, <1>9, <2>1 DEF RingHolds, RingInv, RingTypes, Cells
    <2>5. ring_write = CellAt(o + n)
      BY <1>9, <2>4, <1>4 DEF RingHolds
    <2>6. empty' + Writing' =< BUF_SIZE - (n + 1) - o
      BY <1>1, <1>4, <1>9, <2>1, <2>4 DEF RingHolds, RingInv, RingTypes
    <2>7. full' + Cardinality(Reading') =< n + 1
      BY <1>1, <1>9, <2>2, <2>4 DEF RingHolds, RingInv, RingTypes
    <2>8. ring_write' = IF o + (n + 1) = BUF_SIZE THEN ring_read' ELSE CellAt(o + (n + 1))'
      BY <1>1, <1>4, <2>3, <2>4, <2>5 DEF CellAt, Cells
    <2>9. ASSUME NEW k \in Cells
          PROVE  store'[CellAt(k)'] = IF o =< k /\ k < o + (n + 1) THEN 1 ELSE -1
      <3>1. CellAt(k) \in Cells /\ (CellAt(k) = CellAt(o + n) => k = o + n)
        BY <1>4, <2>4, <2>9 DEF CellAt, Cells
      <3>2. store'[CellAt(k)] = IF k = o + n THEN 1 ELSE store[CellAt(k)]
        BY <1>1, <2>5, <3>1 DEF RingInv, RingTypes
      <3>3. store[CellAt(k)] = IF o =< k /\ k < o + n THEN 1 ELSE -1
        BY <1>9, <2>9 DEF RingHolds
      <3>4. QED
        BY <2>3, <2>4, <3>2, <3>3 DEF Cells
    <2>10. \A r \in Readers : ringPc'[r] = ringPc[r]
      BY <1>2, SharedMemoryAssumption DEF RingProcesses
    <2>11. o + (n + 1) =< BUF_SIZE /\ n + 1 \in Nat
      BY <1>4, <2>4 DEF Cells
    <2>12. QED
      BY <1>1, <1>9, <2>4, <2>6, <2>7, <2>8, <2>9, <2>10, <2>11 DEF RingHolds
  <1>10. QED
    BY <1>5, <1>6, <1>7, <1>8, <1>9, <1>1 DEF RingInv, RingIsFilled

LEMMA WriterUnlocks ==
    ASSUME RingInv, NEW w \in Writers, Ring!UnlockWrite(w) PROVE RingInv'
  <1>1. /\ RingMove(w, "wait") /\ RingQuiet /\ "wait" \in Places
        /\ UNCHANGED <<admin, writer, first_writer, writer_pid>>
        /\ ringPc[w] = "unlock" /\ write_mutex' = write_mutex + 1
    BY DEF Ring!UnlockWrite, Ring!Goto, Ring!At, RingMove, Ring!counters, Ring!roles, Ring!ring,
       Ring!pids, Places, RingQuiet
  <1>2. /\ ringPc' \in [RingProcesses -> Places] /\ ringPc'[w] = "wait" /\ w \in RingProcesses
        /\ \A q \in RingProcesses \ {w} : ringPc'[q] = ringPc[q]
    BY <1>1, RingMoved DEF RingInv, RingProcesses
  <1>3. admin = 1 /\ write_mutex = 0 /\ write_mutex' = 1
    BY <1>1 DEF RingInv, WritersApart, RingTypes
  <1>4. RingTypes'
    BY <1>1, <1>2, <1>3 DEF RingInv, RingTypes, RingQuiet
  <1>5. WritersApart'
    BY <1>1, <1>2, <1>3 DEF RingInv, WritersApart, RingProcesses, Active
  <1>6. ReadersApart'
    BY <1>1, <1>2, SharedMemoryAssumption DEF RingInv, ReadersApart, RingProcesses, RingQuiet
  <1>7. SetUpFirst'
    BY <1>1, <1>3 DEF RingInv, SetUpFirst
  <1>8. RingIsFilled'
    BY <1>1, <1>2, FilledAfterQuiet
  <1>9. QED
    BY <1>4, <1>5, <1>6, <1>7, <1>8 DEF RingInv

\* A reader waits for admin, opens the memory and its semaphore, enters and is registered, or
\* ends.
LEMMA ReaderEnters ==
    ASSUME RingInv, NEW r \in Readers,
           \/ Ring!PassAdmin(r) \/ Ring!OpenMemory(r) \/ Ring!OpenReaderSem(r)
           \/ Ring!EnterReaders(r) \/ Ring!CheckReaders(r) \/ Ring!Register(r)
           \/ Ring!ReleaseReaders(r)
    PROVE  RingInv'
  <1>1. /\ RingQuiet /\ UNCHANGED <<admin, writer, first_writer, write_mutex, writer_pid>>
        /\ \/ \E l \in {"map", "sem", "enter", "check_full", "register", "release", "wait"} :
                  RingMove(r, l) /\ admin = 1
           \/ RingMove(r, "ended")
           \/ UNCHANGED ringPc
    <2>1. ringPc[r] \in {"map", "sem", "enter", "check_full", "register", "release"} => admin = 1
      BY DEF RingInv, ReadersApart
    <2>2. CASE Ring!PassAdmin(r)
      BY <2>2 DEF Ring!PassAdmin, Ring!Goto, RingMove, RingQuiet, Ring!shared, Ring!mutexes,
         Ring!counters, Ring!roles, Ring!ring, Ring!pids, RingInv, RingTypes
    <2>3. CASE Ring!OpenMemory(r)
      BY <2>1, <2>3 DEF Ring!OpenMemory, Ring!At, Ring!Spoil, Ring!Goto, RingMove, RingQuiet,
         Ring!shared, Ring!mutexes, Ring!counters, Ring!roles, Ring!ring, Ring!pids
    <2>4. CASE Ring!OpenReaderSem(r)
      BY <2>1, <2>4 DEF Ring!OpenReaderSem, Ring!At, Ring!Goto, RingMove, RingQuiet,
         Ring!shared, Ring!mutexes, Ring!counters, Ring!roles, Ring!ring, Ring!pids
    <2>5. CASE Ring!EnterReaders(r)
      BY <2>1, <2>5 DEF Ring!EnterReaders, Ring!At, Ring!Goto, RingMove, RingQuiet,
         Ring!shared, Ring!mutexes, Ring!counters, Ring!roles, Ring!ring, Ring!pids
    <2>6. CASE Ring!CheckReaders(r)
      BY <2>1, <2>6 DEF Ring!CheckReaders, Ring!At, Ring!Goto, RingMove, RingQuiet,
         Ring!shared, Ring!mutexes, Ring!counters, Ring!roles, Ring!ring, Ring!pids
    <2>7. CASE Ring!Register(r)
      BY <2>1, <2>7 DEF Ring!Register, Ring!At, Ring!Goto, RingMove, RingQuiet,
         Ring!mutexes, Ring!counters, Ring!roles, Ring!ring
    <2>8. CASE Ring!ReleaseReaders(r)
      BY <2>1, <2>8 DEF Ring!ReleaseReaders, Ring!At, Ring!Goto, RingMove, RingQuiet,
         Ring!shared, Ring!mutexes, Ring!counters, Ring!roles, Ring!ring, Ring!pids
    <2>9. QED
      BY <2>2, <2>3, <2>4, <2>5, <2>6, <2>7, <2>8
  <1>2. r \in RingProcesses /\ r \notin Writers
    BY SharedMemoryAssumption DEF RingProcesses
  <1>3. \A l \in {"map", "sem", "enter", "check_full", "register", "release", "wait", "ended"} :
            l \in Places
    BY DEF Places
  <1>4. QED
    BY <1>1, <1>2, <1>3, ProcessMoves, RingUnmoved DEF RingQuiet

\* A reader takes a unit of full.
LEMMA ReaderWaits ==
    ASSUME RingInv, NEW r \in Readers, Ring!WaitFull(r) PROVE RingInv'
  <1>1. /\ RingMove(r, "mutex") /\ "mutex" \in Places
        /\ UNCHANGED <<empty, store, ring_read, ring_write, read_mutex, write_mutex, admin,
                       writer, first_writer, writer_pid>>
        /\ ringPc[r] = "wait" /\ full > 0 /\ full' = full - 1
    BY DEF Ring!WaitFull, Ring!Goto, Ring!At, RingMove, Ring!mutexes, Ring!roles, Ring!ring,
       Ring!pids, Places
  <1>2. /\ ringPc' \in [RingProcesses -> Places] /\ ringPc'[r] = "mutex" /\ r \in RingProcesses
        /\ \A q \in RingProcesses \ {r} : ringPc'[q] = ringPc[q]
    BY <1>1, RingMoved DEF RingInv, RingProcesses
  <1>3. admin = 1
    BY <1>1 DEF RingInv, ReadersApart
  <1>4. RingTypes'
    BY <1>1, <1>2 DEF RingInv, RingTypes
  <1>5. WritersApart'
    BY <1>1, <1>2, <1>3, SharedMemoryAssumption DEF RingInv, WritersApart, RingProcesses
  <1>6. ReadersApart'
    BY <1>1, <1>2, <1>3 DEF RingInv, ReadersApart, RingProcesses, InReader
  <1>7. SetUpFirst'
    BY <1>1, <1>3 DEF RingInv, SetUpFirst
  <1>8. ASSUME NEW o, NEW n, RingHolds(o, n) PROVE RingHolds(o, n)'
    <2>1. /\ Cardinality(Reading') = Cardinality(Reading) + 1
          /\ Cardinality(Reading) \in Nat
      BY <1>1, <1>2, ReadingAfter, ReadingFinite DEF RingInv
    <2>2. full' + Cardinality(Reading') =< n
      BY <1>1, <1>8, <2>1 DEF RingHolds, RingInv, RingTypes
    <2>3. Writing' = Writing
      BY <1>2, SharedMemoryAssumption DEF Writing, RingProcesses
    <2>4. \A k : CellAt(k)' = CellAt(k)
      BY <1>1 DEF CellAt
    <2>5. \A q \in Readers : ringPc'[q] = ringPc[q] \/ ringPc'[q] = "mutex"
      BY <1>2 DEF RingProcesses
    <2>6. QED
      BY <1>1, <1>8, <2>2, <2>3, <2>4, <2>5 DEF RingHolds
  <1>9. QED
    BY <1>4, <1>5, <1>6, <1>7, <1>8, <1>1 DEF RingInv, RingIsFilled

\* It locks the mutex: nobody has emptied a cell and not left it behind.
LEMMA ReaderLocks ==
    ASSUME RingInv, NEW r \in Readers, Ring!LockRead(r) PROVE RingInv'
  <1>1. /\ RingMove(r, "cell") /\ "cell" \in Places
        /\ UNCHANGED <<full, empty, store, ring_read, ring_write, write_mutex, admin,
                       writer, first_writer, writer_pid>>
        /\ ringPc[r] = "mutex" /\ read_mutex > 0 /\ read_mutex' = read_mutex - 1
    BY DEF Ring!LockRead, Ring!Goto, Ring!At, RingMove, Ring!counters, Ring!roles, Ring!ring,
       Ring!pids, Places
  <1>2. /\ ringPc' \in [RingProcesses -> Places] /\ ringPc'[r] = "cell" /\ r \in RingProcesses
        /\ \A q \in RingProcesses \ {r} : ringPc'[q] = ringPc[q]
    BY <1>1, RingMoved DEF RingInv, RingProcesses
  <1>3. admin = 1 /\ read_mutex = 1 /\ read_mutex' = 0
    BY <1>1 DEF RingInv, ReadersApart, RingTypes
  <1>4. RingTypes'
    BY <1>1, <1>2, <1>3 DEF RingInv, RingTypes
  <1>5. WritersApart'
    BY <1>1, <1>2, <1>3, SharedMemoryAssumption DEF RingInv, WritersApart, RingProcesses
  <1>6. ReadersApart'
    BY <1>1, <1>2, <1>3 DEF RingInv, ReadersApart, RingProcesses, InReader
  <1>7. SetUpFirst'
    BY <1>1, <1>3 DEF RingInv, SetUpFirst
  <1>8. ASSUME NEW o, NEW n, RingHolds(o, n) PROVE RingHolds(o, n)'
    <2>1. o = 0
      BY <1>3, <1>8 DEF RingHolds
    <2>2. Reading' = Reading
      BY <1>1, <1>2, ReadingAfter DEF RingInv
    <2>3. Writing' = Writing
      BY <1>2, SharedMemoryAssumption DEF Writing, RingProcesses
    <2>4. \A k : CellAt(k)' = CellAt(k)
      BY <1>1 DEF CellAt
    <2>5. \A q \in Readers : ringPc'[q] # "advance"
      BY <1>2, <1>8, <2>1 DEF RingProcesses, RingHolds
    <2>6. QED
      BY <1>1, <1>8, <2>1, <2>2, <2>3, <2>4, <2>5 DEF RingHolds
  <1>9. QED
    BY <1>4, <1>5, <1>6, <1>7, <1>8, <1>1 DEF RingInv, RingIsFilled

\* It empties the first cell with a number.
LEMMA ReaderTakes ==
    ASSUME RingInv, NEW r \in Readers, Ring!TakeNumber(r) PROVE RingInv'
  <1>1. /\ RingMove(r, "advance") /\ "advance" \in Places
        /\ UNCHANGED <<full, empty, ring_read, ring_write, read_mutex, write_mutex, admin,
                       writer, first_writer, writer_pid>>
        /\ ringPc[r] = "cell" /\ store' = [store EXCEPT ![ring_read] = -1]
    BY DEF Ring!TakeNumber, Ring!Goto, Ring!At, RingMove, Ring!counters, Ring!roles,
       Ring!mutexes, Ring!pids, Places
  <1>2. /\ ringPc' \in [RingProcesses -> Places] /\ ringPc'[r] = "advance" /\ r \in RingProcesses
        /\ \A q \in RingProcesses \ {r} : ringPc'[q] = ringPc[q]
    BY <1>1, RingMoved DEF RingInv, RingProcesses
  <1>3. admin = 1 /\ read_mutex = 0
    BY <1>1 DEF RingInv, ReadersApart, InReader
  <1>4. RingTypes'
    BY <1>1, <1>2 DEF RingInv, RingTypes
  <1>5. WritersApart'
    BY <1>1, <1>2, <1>3, SharedMemoryAssumption DEF RingInv, WritersApart, RingProcesses
  <1>6. ReadersApart'
    BY <1>1, <1>2, <1>3 DEF RingInv, ReadersApart, RingProcesses, InReader
  <1>7. SetUpFirst'
    BY <1>1, <1>3 DEF RingInv, SetUpFirst
  <1>8. ASSUME NEW o, NEW n, RingHolds(o, n) PROVE RingHolds(1, n - 1)'
    <2>1. o = 0 /\ n \in Nat
      BY <1>1, <1>8 DEF RingHolds
    <2>2. /\ r \in Reading /\ Cardinality(Reading') = Cardinality(Reading) - 1
          /\ Cardinality(Reading) \in Nat /\ Cardinality(Reading') \in Nat
      BY <1>1, <1>2, ReadingAfter, ReadingFinite DEF RingInv, Reading
    <2>3. /\ n > 0 /\ full' + Cardinality(Reading') =< n - 1
          /\ BUF_SIZE \in Nat /\ BUF_SIZE > 0 /\ n =< BUF_SIZE
      BY <1>1, <1>8, <2>1, <2>2, SharedMemoryAssumption DEF RingHolds, RingInv, RingTypes
    <2>4. Writing' = Writing
      BY <1>2, SharedMemoryAssumption DEF Writing, RingProcesses
    <2>5. \A k : CellAt(k)' = CellAt(k)
      BY <1>1 DEF CellAt
    <2>6. ring_read \in Cells /\ ring_write' = ring_write /\ ring_read' = ring_read
      BY <1>1 DEF RingInv, RingTypes
    <2>7. ring_write' = IF 1 + (n - 1) = BUF_SIZE THEN ring_read' ELSE CellAt(1 + (n - 1))'
      <3>1. 1 + (n - 1) = n /\ 0 + n = n
        BY <2>1
      <3>2. QED
        BY <1>8, <2>1, <2>5, <2>6, <3>1 DEF RingHolds
    <2>8. ASSUME NEW k \in Cells
          PROVE  store'[CellAt(k)'] = IF 1 =< k /\ k < 1 + (n - 1) THEN 1 ELSE -1
      <3>1. CellAt(k) \in Cells /\ (CellAt(k) = ring_read <=> k = 0)
        BY <2>3, <2>6, <2>8 DEF CellAt, Cells
      <3>2. store'[CellAt(k)] = IF k = 0 THEN -1 ELSE store[CellAt(k)]
        BY <1>1, <2>6, <3>1 DEF RingInv, RingTypes
      <3>3. store[CellAt(k)] = IF 0 =< k /\ k < 0 + n THEN 1 ELSE -1
        BY <1>8, <2>1, <2>8 DEF RingHolds
      <3>4. QED
        BY <2>1, <2>3, <2>5, <3>2, <3>3 DEF Cells
    <2>9. empty' + Writing' =< BUF_SIZE - (n - 1) - 1
      BY <1>1, <1>8, <2>1, <2>3, <2>4 DEF RingHolds, RingInv, RingTypes, Writing
    <2>10. read_mutex' = 0 /\ \A q \in Readers : ringPc'[q] \notin {"cell", "unlock"}
      BY <1>1, <1>2, <1>3 DEF RingInv, ReadersApart, InReader, RingProcesses
    <2>11. 1 + (n - 1) =< BUF_SIZE /\ n - 1 \in Nat
      BY <2>1, <2>3
    <2>12. QED
      BY <2>3, <2>7, <2>8, <2>9, <2>10, <2>11 DEF RingHolds
  <1>9. QED
    BY <1>4, <1>5, <1>6, <1>7, <1>8, <1>1 DEF RingInv, RingIsFilled

\* It leaves the cell behind.
LEMMA ReaderAdvances ==
    ASSUME RingInv, NEW r \in Readers, Ring!AdvanceRead(r) PROVE RingInv'
  <1>1. /\ RingMove(r, "unlock") /\ "unlock" \in Places
        /\ UNCHANGED <<full, store, ring_write, read_mutex, write_mutex, admin,
                       writer, first_writer, writer_pid>>
        /\ ringPc[r] = "advance" /\ ring_read' = (ring_read + 1) % BUF_SIZE /\ empty' = empty + 1
    BY DEF Ring!AdvanceRead, Ring!Goto, Ring!At, RingMove, Ring!roles, Ring!mutexes,
       Ring!pids, Places
  <1>2. /\ ringPc' \in [RingProcesses -> Places] /\ ringPc'[r] = "unlock" /\ r \in RingProcesses
        /\ \A q \in RingProcesses \ {r} : ringPc'[q] = ringPc[q]
    BY <1>1, RingMoved DEF RingInv, RingProcesses
  <1>3. admin = 1 /\ read_mutex = 0
    BY <1>1 DEF RingInv, ReadersApart, InReader
  <1>4. /\ ring_read \in Cells /\ ring_write \in Cells /\ BUF_SIZE \in Nat /\ BUF_SIZE > 0
        /\ ring_read' = (IF ring_read + 1 = BUF_SIZE THEN 0 ELSE ring_read + 1)
        /\ ring_read' \in Cells
    <2>1. ring_write \in Cells /\ ring_read \in Cells
      BY DEF RingInv, RingTypes
    <2>2. ring_read' = (IF ring_read + 1 = BUF_SIZE THEN 0 ELSE ring_read + 1)
      BY <1>1, <2>1, NextCell
    <2>3. QED
      BY <2>1, <2>2, SharedMemoryAssumption DEF Cells
  <1>5. RingTypes'
    BY <1>1, <1>2, <1>4 DEF RingInv, RingTypes
  <1>6. WritersApart'
    BY <1>1, <1>2, <1>3, SharedMemoryAssumption DEF RingInv, WritersApart, RingProcesses
  <1>7. ReadersApart'
    BY <1>1, <1>2, <1>3 DEF RingInv, ReadersApart, RingProcesses, InReader
  <1>8. SetUpFirst'
    BY <1>1, <1>3 DEF RingInv, SetUpFirst
  <1>9. ASSUME NEW o, NEW n, RingHolds(o, n) PROVE RingHolds(0, n)'
    <2>1. o = 1 /\ n \in Nat /\ 1 + n =< BUF_SIZE
      BY <1>1, <1>9 DEF RingHolds
    <2>2. Reading' = Reading
      BY <1>1, <1>2, ReadingAfter DEF RingInv
    <2>3. Writing' = Writing
      BY <1>2, SharedMemoryAssumption DEF Writing, RingProcesses
    <2>4. \A k \in Cells : k + 1 < BUF_SIZE => CellAt(k)' = CellAt(k + 1)
      BY <1>4 DEF CellAt, Cells
    <2>5. \A k \in Cells : k + 1 = BUF_SIZE => CellAt(k)' = ring_read
      BY <1>4 DEF CellAt, Cells
    <2>6. ring_write' = IF 0 + n = BUF_SIZE THEN ring_read' ELSE CellAt(0 + n)'
      <3>1. n \in Cells /\ 0 + n = n /\ n # BUF_SIZE
        BY <1>4, <2>1 DEF Cells
      <3>2. ring_write = IF 1 + n = BUF_SIZE THEN ring_read ELSE CellAt(1 + n)
        BY <1>9, <2>1 DEF RingHolds
      <3>3. 1 + n = n + 1 /\ (n + 1 # BUF_SIZE => n + 1 < BUF_SIZE)
        BY <1>4, <2>1
      <3>4. QED
        BY <1>1, <2>4, <2>5, <3>1, <3>2, <3>3
    <2>7. ASSUME NEW k \in Cells
          PROVE  store'[CellAt(k)'] = IF 0 =< k /\ k < 0 + n THEN 1 ELSE -1
      <3>1. CASE k + 1 < BUF_SIZE
        <4>1. k + 1 \in Cells
          BY <1>4, <3>1 DEF Cells
        <4>2. store[CellAt(k + 1)] = IF 1 =< k + 1 /\ k + 1 < 1 + n THEN 1 ELSE -1
          BY <1>9, <2>1, <4>1 DEF RingHolds
        <4>3. QED
          BY <1>1, <2>1, <2>4, <3>1, <4>2 DEF Cells
      <3>2. CASE k + 1 = BUF_SIZE
        <4>1. 0 \in Cells /\ CellAt(0) = ring_read
          BY <1>4 DEF CellAt, Cells
        <4>2. store[CellAt(0)] = IF 1 =< 0 /\ 0 < 1 + n THEN 1 ELSE -1
          BY <1>9, <2>1, <4>1 DEF RingHolds
        <4>3. QED
          BY <1>1, <2>1, <2>5, <3>2, <4>1, <4>2 DEF Cells
      <3>3. QED
        BY <1>4, <3>1, <3>2 DEF Cells
    <2>8. empty' + Writing' =< BUF_SIZE - n - 0
      BY <1>1, <1>4, <1>9, <2>1, <2>3 DEF RingHolds, RingInv, RingTypes, Writing
    <2>9. \A q \in Readers : ringPc'[q] # "advance"
      BY <1>1, <1>2 DEF RingInv, ReadersApart, InReader, RingProcesses
    <2>10. full' + Cardinality(Reading') =< n
      BY <1>1, <1>9, <2>2 DEF RingHolds
    <2>11. 0 + n =< BUF_SIZE
      BY <1>4, <2>1
    <2>12. QED
      BY <2>1, <2>6, <2>7, <2>8, <2>9, <2>10, <2>11 DEF RingHolds
  <1>10. QED
    BY <1>5, <1>6, <1>7, <1>8, <1>9, <1>1 DEF RingInv, RingIsFilled

LEMMA ReaderUnlocks ==
    ASSUME RingInv, NEW r \in Readers, Ring!UnlockRead(r) PROVE RingInv'
  <1>1. /\ RingMove(r, "wait") /\ "wait" \in Places
        /\ UNCHANGED <<full, empty, store, ring_read, ring_write, write_mutex, admin,
                       writer, first_writer, writer_pid>>
        /\ ringPc[r] = "unlock" /\ read_mutex' = read_mutex + 1
    BY DEF Ring!UnlockRead, Ring!Goto, Ring!At, RingMove, Ring!counters, Ring!roles, Ring!ring,
       Ring!pids, Places
  <1>2. /\ ringPc' \in [RingProcesses -> Places] /\ ringPc'[r] = "wait" /\ r \in RingProcesses
        /\ \A q \in RingProcesses \ {r} : ringPc'[q] = ringPc[q]
    BY <1>1, RingMoved DEF RingInv, RingProcesses
  <1>3. admin = 1 /\ read_mutex = 0 /\ read_mutex' = 1
    BY <1>1 DEF RingInv, ReadersApart, InReader
  <1>4. RingTypes'
    BY <1>1, <1>2, <1>3 DEF RingInv, RingTypes
  <1>5. WritersApart'
    BY <1>1, <1>2, <1>3, SharedMemoryAssumption DEF RingInv, WritersApart, RingProcesses
  <1>6. ReadersApart'
    BY <1>1, <1>2, <1>3 DEF RingInv, ReadersApart, RingProcesses, InReader
  <1>7. SetUpFirst'
    BY <1>1, <1>3 DEF RingInv, SetUpFirst
  <1>8. ASSUME NEW o, NEW n, RingHolds(o, n) PROVE RingHolds(o, n)'
    <2>1. o = 0
      BY <1>1, <1>8 DEF RingHolds
    <2>2. Reading' = Reading
      BY <1>1, <1>2, ReadingAfter DEF RingInv
    <2>3. Writing' = Writing
      BY <1>2, SharedMemoryAssumption DEF Writing, RingProcesses
    <2>4. \A k : CellAt(k)' = CellAt(k)
      BY <1>1 DEF CellAt
    <2>5. \A q \in Readers : ringPc'[q] # "advance"
      BY <1>2, <1>8, <2>1 DEF RingProcesses, RingHolds
    <2>6. QED
      BY <1>1, <1>8, <2>1, <2>2, <2>3, <2>4, <2>5 DEF RingHolds
  <1>9. QED
    BY <1>4, <1>5, <1>6, <1>7, <1>8, <1>1 DEF RingInv, RingIsFilled

\* Ctrl-C and the handlers: what a process has locked stays locked.
LEMMA ProcessStops ==
    ASSUME RingInv, NEW p \in RingProcesses,
           \/ Ring!Interrupt(p) \/ Ring!Terminate(p)
           \/ (p \in Writers /\ Ring!RemoveNames(p))
           \/ (p \in Readers /\ Ring!RemoveReaderSem(p))
    PROVE  RingInv'
  <1>1. /\ RingQuiet /\ UNCHANGED <<admin, writer, first_writer, write_mutex, writer_pid>>
        /\ \/ RingMove(p, "close") \/ RingMove(p, "ended") \/ UNCHANGED ringPc
           \/ \E l \in {"rm_ring", "rm_admin", "rm_memory"} : RingMove(p, l) /\ p \in Writers
    <2>1. CASE Ring!Interrupt(p)
      BY <2>1 DEF Ring!Interrupt, Ring!EnterHandler, Ring!Goto, RingMove, RingQuiet,
         Ring!shared, Ring!mutexes, Ring!counters, Ring!roles, Ring!ring, Ring!pids
    <2>2. CASE Ring!Terminate(p)
      BY <2>2 DEF Ring!Terminate, Ring!EnterHandler, Ring!Goto, RingMove, RingQuiet,
         Ring!shared, Ring!mutexes, Ring!counters, Ring!roles, Ring!ring, Ring!pids
    <2>3. CASE p \in Writers /\ Ring!RemoveNames(p)
      BY <2>3 DEF Ring!RemoveNames, Ring!Goto, RingMove, RingQuiet,
         Ring!shared, Ring!mutexes, Ring!counters, Ring!roles, Ring!ring, Ring!pids
    <2>4. CASE p \in Readers /\ Ring!RemoveReaderSem(p)
      BY <2>4 DEF Ring!RemoveReaderSem, Ring!Goto, RingMove, RingQuiet,
         Ring!shared, Ring!mutexes, Ring!counters, Ring!roles, Ring!ring, Ring!pids
    <2>5. QED
      BY <2>1, <2>2, <2>3, <2>4
  <1>2. \A l \in {"close", "ended", "rm_ring", "rm_admin", "rm_memory"} : l \in Places
    BY DEF Places
  <1>3. p \in Writers => p \notin Readers
    BY SharedMemoryAssumption
  <1>4. QED
    BY <1>1, <1>2, <1>3, ProcessMoves, RingUnmoved DEF RingQuiet

LEMMA RingInit == ASSUME Ring!Init PROVE RingInv
  <1>1. /\ ringPc \in [RingProcesses -> {"off", "ended"}]
        /\ full = 0 /\ empty = BUF_SIZE /\ read_mutex = 1 /\ write_mutex = 1 /\ admin = 0
        /\ writer = 1 /\ first_writer = 1
        /\ store = [i \in Cells |-> 0] /\ ring_write = 0 /\ ring_read = 0
        /\ writer_pid = NoPid
    BY DEF Ring!Init, Ring!Processes, RingProcesses, Cells
  <1>2. RingTypes
    <2>1. 0 \in Cells /\ BUF_SIZE \in Nat
      BY SharedMemoryAssumption DEF Cells
    <2>2. ringPc \in [RingProcesses -> Places]
      BY <1>1 DEF Places
    <2>3. QED
      BY <1>1, <2>1, <2>2 DEF RingTypes
  <1>3. WritersApart
    BY <1>1 DEF WritersApart, RingProcesses, Active
  <1>4. ReadersApart
    BY <1>1 DEF ReadersApart, RingProcesses, InReader
  <1>5. SetUpFirst /\ RingIsFilled
    BY <1>1 DEF SetUpFirst, RingIsFilled, RingProcesses
  <1>6. QED
    BY <1>2, <1>3, <1>4, <1>5 DEF RingInv

LEMMA RingStep == ASSUME RingInv, [Ring!Next]_(Ring!vars) PROVE RingInv'
  <1>1. ASSUME NEW w \in Writers, Ring!Writer(w) PROVE RingInv'
    BY <1>1, WriterOpens, WriterEnters, WriterClaims, WriterSetsUp, WriterRaises, WriterWaits,
       WriterLocks, WriterWrites, WriterUnlocks, ProcessStops DEF Ring!Writer, RingProcesses
  <1>2. ASSUME NEW r \in Readers, Ring!Reader(r) PROVE RingInv'
    BY <1>2, ReaderEnters, ReaderWaits, ReaderLocks, ReaderTakes, ReaderAdvances, ReaderUnlocks,
       ProcessStops DEF Ring!Reader, RingProcesses
  <1>3. CASE UNCHANGED Ring!vars
    BY <1>3, RingUnmoved DEF Ring!vars, Ring!shared, Ring!counters, Ring!mutexes, Ring!roles,
       Ring!ring, Ring!pids
  <1>4. QED
    BY <1>1, <1>2, <1>3, ProcessStops, ProcessStarts
       DEF Ring!Next, Ring!Processes, RingProcesses

\* The readers' semaphores: who is between sem_wait and sem_post has locked its own, and while
\* the name was not removed there is one of them.
InRegister == {"check_full", "register", "release"}
RegisterInv ==
    /\ own \in [Readers -> Nat] /\ reader_gen \in Nat /\ reader_pids \in Seq(Readers)
    /\ \A q, r \in Readers : q # r /\ ringPc[q] \in InRegister /\ ringPc[r] \in InRegister =>
          own[q] # own[r]
    /\ \A r \in Readers : ringPc[r] \in InRegister => own[r] \in reader
    /\ reader_gen = 0 => \A r \in Readers :
          own[r] = 0 /\ (ringPc[r] = "register" => Len(reader_pids) < MAX_READERS)
    /\ (\E p \in RingProcesses : ringPc[p] = "newer") => removed # {}
    /\ Ring!SpoiltByRemoval

\* A step after which nobody is between them who was not, where it was.
LEMMA RegisterKept ==
    ASSUME RegisterInv, UNCHANGED <<reader, own, reader_pids>>,
           reader_gen' \in Nat, reader_gen' = 0 => reader_gen = 0,
           removed \subseteq removed', spoilt' => spoilt \/ removed' # {},
           \A p \in RingProcesses : ringPc'[p] = "newer" => ringPc[p] = "newer" \/ removed # {},
           \A r \in Readers : ringPc'[r] \in InRegister => ringPc'[r] = ringPc[r]
    PROVE  RegisterInv'
  <1>1. reader_gen > 0 => reader_gen' > 0
    BY DEF RegisterInv
  <1>2. Ring!SpoiltByRemoval'
    BY <1>1 DEF RegisterInv, Ring!SpoiltByRemoval
  <1>3. ((\E p \in RingProcesses : ringPc[p] = "newer") => removed # {})'
    BY DEF RegisterInv
  <1>4. QED
    BY <1>2, <1>3 DEF RegisterInv, InRegister

LEMMA RegisterInit == ASSUME Ring!Init PROVE RegisterInv
  <1>1. /\ ringPc \in [RingProcesses -> {"off", "ended"}] /\ own = [r \in Readers |-> 0]
        /\ reader_gen = 0 /\ reader_pids = <<>> /\ spoilt = FALSE
    BY DEF Ring!Init, Ring!Processes, RingProcesses
  <1>2. Ring!SpoiltByRemoval
    BY <1>1, SharedMemoryAssumption DEF Ring!SpoiltByRemoval
  <1>3. QED
    BY <1>1, <1>2 DEF RegisterInv, InRegister, RingProcesses

\* The steps of a reader between sem_wait and sem_post, and how it comes to them.
LEMMA RegisterReader ==
    ASSUME RingInv, RegisterInv, ~spoilt, NEW r \in Readers,
           \/ Ring!OpenReaderSem(r) \/ Ring!EnterReaders(r) \/ Ring!CheckReaders(r)
           \/ Ring!Register(r) \/ Ring!ReleaseReaders(r)
    PROVE  RegisterInv'
  <1> USE DEF RegisterInv, InRegister
  <1>1. ringPc \in [RingProcesses -> Places] /\ r \in RingProcesses
    BY DEF RingInv, RingTypes, RingProcesses
  <1>2. CASE Ring!OpenReaderSem(r)
    <2>1. /\ own' = [own EXCEPT ![r] = reader_gen] /\ ringPc' = [ringPc EXCEPT ![r] = "enter"]
          /\ UNCHANGED <<reader, reader_gen, reader_pids, removed, spoilt>>
      BY <1>2 DEF Ring!OpenReaderSem, Ring!Goto, Ring!shared, Ring!pids, Ring!names
    <2>2. Ring!SpoiltByRemoval'
      BY <2>1 DEF Ring!SpoiltByRemoval
    <2>3. QED
      BY <1>1, <2>1, <2>2 DEF RingProcesses
  <1>3. CASE Ring!EnterReaders(r)
    <2>1. /\ own[r] \notin reader /\ reader' = reader \union {own[r]}
          /\ ringPc' = [ringPc EXCEPT ![r] = "check_full"]
          /\ UNCHANGED <<own, reader_gen, reader_pids, removed, spoilt>>
      BY <1>3 DEF Ring!EnterReaders, Ring!Goto, Ring!shared, Ring!pids, Ring!names
    <2>2. Ring!SpoiltByRemoval'
      BY <2>1 DEF Ring!SpoiltByRemoval
    <2>3. QED
      BY <1>1, <2>1, <2>2 DEF RingProcesses
  <1>4. CASE Ring!CheckReaders(r)
    <2>1. /\ ringPc[r] = "check_full" /\ UNCHANGED <<own, reader_gen, reader_pids, removed, spoilt>>
          /\ \/ ringPc' = [ringPc EXCEPT ![r] = "ended"] /\ reader' = reader \ {own[r]}
             \/ /\ ringPc' = [ringPc EXCEPT ![r] = "register"] /\ reader' = reader
                /\ ~(Len(reader_pids) >= MAX_READERS)
      BY <1>4 DEF Ring!CheckReaders, Ring!At, Ring!Goto, Ring!shared, Ring!pids, Ring!names
    <2>2. Ring!SpoiltByRemoval'
      BY <2>1 DEF Ring!SpoiltByRemoval
    <2>3. Len(reader_pids) \in Nat /\ MAX_READERS \in Nat
      BY SharedMemoryAssumption
    <2>4. CASE ringPc' = [ringPc EXCEPT ![r] = "ended"] /\ reader' = reader \ {own[r]}
      BY <1>1, <2>1, <2>2, <2>4 DEF RingProcesses
    <2>5. CASE /\ ringPc' = [ringPc EXCEPT ![r] = "register"] /\ reader' = reader
               /\ ~(Len(reader_pids) >= MAX_READERS)
      <3>1. \A q \in Readers : ringPc'[q] = IF q = r THEN "register" ELSE ringPc[q]
        BY <1>1, <2>5 DEF RingProcesses
      <3>2. Len(reader_pids) < MAX_READERS
        BY <2>3, <2>5
      <3>3. QED
        BY <2>1, <2>2, <2>5, <3>1, <3>2
    <2>6. QED
      BY <2>1, <2>4, <2>5
  <1>5. CASE Ring!Register(r)
    <2>1. /\ ringPc[r] = "register" /\ ringPc' = [ringPc EXCEPT ![r] = "release"]
          /\ reader_pids' = Append(reader_pids, r) /\ spoilt' = (Len(reader_pids) >= MAX_READERS)
          /\ UNCHANGED <<own, reader, reader_gen, removed>>
      BY <1>5 DEF Ring!Register, Ring!At, Ring!Goto, Ring!reader_sem
    <2>2. /\ reader_pids' \in Seq(Readers) /\ Len(reader_pids') = Len(reader_pids) + 1
          /\ Len(reader_pids) \in Nat /\ MAX_READERS \in Nat
      BY <2>1, SharedMemoryAssumption
    <2>3. reader_gen = 0 => Len(reader_pids) < MAX_READERS
      BY <2>1
    <2>4. Ring!SpoiltByRemoval'
      <3>1. CASE reader_gen = 0
        <4>1. ~(Len(reader_pids') > MAX_READERS) /\ ~(Len(reader_pids) >= MAX_READERS)
          BY <2>1, <2>2, <2>3, <3>1
        <4>2. ~spoilt'
          BY <2>1, <4>1, Zenon
        <4>3. QED
          BY <4>1, <4>2 DEF Ring!SpoiltByRemoval
      <3>2. CASE reader_gen > 0
        BY <2>1, <3>2 DEF Ring!SpoiltByRemoval
      <3>3. QED
        BY <3>1, <3>2
    <2>5. reader_gen = 0 => \A q \in Readers \ {r} : ringPc[q] # "register"
      BY <2>1
    <2>6. QED
      BY <1>1, <2>1, <2>2, <2>4, <2>5 DEF RingProcesses
  <1>6. CASE Ring!ReleaseReaders(r)
    <2>1. /\ ringPc[r] = "release" /\ ringPc' = [ringPc EXCEPT ![r] = "wait"]
          /\ reader' = reader \ {own[r]}
          /\ UNCHANGED <<own, reader_gen, reader_pids, removed, spoilt>>
      BY <1>6 DEF Ring!ReleaseReaders, Ring!At, Ring!Goto, Ring!shared, Ring!pids, Ring!names
    <2>2. Ring!SpoiltByRemoval'
      BY <2>1 DEF Ring!SpoiltByRemoval
    <2>3. QED
      BY <1>1, <2>1, <2>2 DEF RingProcesses
  <1>7. QED
    BY <1>2, <1>3, <1>4, <1>5, <1>6

\* Every other step of a reader, and any of a process that starts or is ended.
LEMMA RegisterOthers ==
    ASSUME RingInv, RegisterInv, ~spoilt, NEW p \in RingProcesses,
           \/ Ring!OpenSemaphores(p) \/ Ring!Interrupt(p) \/ Ring!Terminate(p)
           \/ Ring!OpenMemory(p) \/ Ring!PassAdmin(p) \/ Ring!RemoveReaderSem(p)
           \/ Ring!RemoveNames(p) \/ Ring!OpenNewerMemory(p) \/ Ring!CreateMemory(p)
           \/ Ring!OpenRoles(p)
    PROVE  RegisterInv'
  <1>1. ringPc \in [RingProcesses -> Places] /\ reader_gen \in Nat
    BY DEF RingInv, RingTypes, RegisterInv
  <1>2. UNCHANGED <<reader, own, reader_pids>>
    BY DEF Ring!OpenSemaphores, Ring!Interrupt, Ring!Terminate, Ring!OpenMemory, Ring!PassAdmin,
       Ring!RemoveReaderSem, Ring!RemoveNames, Ring!OpenNewerMemory, Ring!CreateMemory,
       Ring!OpenRoles, Ring!shared, Ring!pids, Ring!reader_sem
  <1>3. reader_gen' \in {reader_gen, reader_gen + 1}
    BY DEF Ring!OpenSemaphores, Ring!Interrupt, Ring!Terminate, Ring!OpenMemory, Ring!PassAdmin,
       Ring!RemoveReaderSem, Ring!RemoveNames, Ring!OpenNewerMemory, Ring!CreateMemory,
       Ring!OpenRoles, Ring!reader_sem
  <1>4. removed \subseteq removed' /\ (spoilt' => removed' # {})
    <2>1. CASE UNCHANGED <<removed, spoilt>>
      BY <2>1
    <2>2. CASE UNCHANGED removed /\ removed # {}
      BY <2>2
    <2>3. CASE spoilt' = spoilt /\ \E name : removed' = removed \union {name}
      BY <2>3
    <2>4. CASE Ring!RemoveNames(p)
      BY <2>3, <2>4 DEF Ring!RemoveNames
    <2>5. CASE Ring!OpenSemaphores(p)
      BY <2>1, <2>2, <2>5 DEF Ring!OpenSemaphores, Ring!Spoil, Ring!names
    <2>6. CASE Ring!OpenNewerMemory(p) \/ Ring!CreateMemory(p) \/ Ring!OpenRoles(p)
      BY <2>1, <2>2, <2>6 DEF Ring!OpenNewerMemory, Ring!CreateMemory, Ring!OpenRoles,
         Ring!Spoil, Ring!names, Ring!At, RegisterInv
    <2>7. CASE Ring!OpenMemory(p)
      BY <2>1, <2>2, <2>7 DEF Ring!OpenMemory, Ring!Spoil, Ring!names
    <2>8. CASE \/ Ring!Interrupt(p) \/ Ring!Terminate(p) \/ Ring!PassAdmin(p)
               \/ Ring!RemoveReaderSem(p)
      BY <2>1, <2>8 DEF Ring!Interrupt, Ring!Terminate, Ring!PassAdmin, Ring!RemoveReaderSem,
         Ring!names
    <2>9. QED
      BY <2>4, <2>5, <2>6, <2>7, <2>8
  <1>5. \/ UNCHANGED ringPc
        \/ \E l \in Places \ InRegister : ringPc' = [ringPc EXCEPT ![p] = l]
    BY DEF Ring!OpenSemaphores, Ring!Interrupt, Ring!Terminate, Ring!OpenMemory, Ring!PassAdmin,
       Ring!RemoveReaderSem, Ring!RemoveNames, Ring!OpenNewerMemory, Ring!CreateMemory,
       Ring!OpenRoles, Ring!Spoil, Ring!EnterHandler, Ring!Goto, Places, InRegister
  <1>6. \A r \in Readers : ringPc'[r] \in InRegister => ringPc'[r] = ringPc[r]
    BY <1>1, <1>5 DEF RingProcesses
  <1>7. \/ UNCHANGED ringPc
        \/ \E l \in Places \ {"newer"} : ringPc' = [ringPc EXCEPT ![p] = l]
        \/ removed # {}
    BY DEF Ring!OpenSemaphores, Ring!Interrupt, Ring!Terminate, Ring!OpenMemory, Ring!PassAdmin,
       Ring!RemoveReaderSem, Ring!RemoveNames, Ring!OpenNewerMemory, Ring!CreateMemory,
       Ring!OpenRoles, Ring!Spoil, Ring!EnterHandler, Ring!Goto, Places
  <1>8. \A q \in RingProcesses : ringPc'[q] = "newer" => ringPc[q] = "newer" \/ removed # {}
    BY <1>1, <1>7
  <1>9. QED
    BY <1>1, <1>2, <1>3, <1>4, <1>6, <1>8, RegisterKept

\* Who uses the ring, and the writers; the writer that sets it up does so before any reader.
LEMMA RegisterRing ==
    ASSUME RingInv, RegisterInv, NEW p \in RingProcesses,
           \/ (Ring!EnterWriters(p) /\ p \in Writers)
           \/ Ring!CheckFirst(p) \/ Ring!ClaimFirst(p) \/ Ring!RaiseAdmin(p)
           \/ Ring!WaitEmpty(p) \/ Ring!LockWrite(p) \/ Ring!WriteCell(p) \/ Ring!UnlockWrite(p)
           \/ Ring!WaitFull(p) \/ Ring!LockRead(p) \/ Ring!TakeNumber(p) \/ Ring!AdvanceRead(p)
           \/ Ring!UnlockRead(p)
    PROVE  RegisterInv'
  <1>1. ringPc \in [RingProcesses -> Places] /\ reader_gen \in Nat
    BY DEF RingInv, RingTypes, RegisterInv
  <1>2. UNCHANGED <<reader, own, reader_gen, reader_pids, removed, spoilt>>
    BY DEF Ring!EnterWriters, Ring!CheckFirst, Ring!ClaimFirst, Ring!RaiseAdmin, Ring!WaitEmpty,
       Ring!LockWrite, Ring!WriteCell, Ring!UnlockWrite, Ring!WaitFull, Ring!LockRead,
       Ring!TakeNumber, Ring!AdvanceRead, Ring!UnlockRead, Ring!pids, Ring!reader_sem, Ring!names
  <1>3. \E l \in Places \ (InRegister \union {"newer"}) : ringPc' = [ringPc EXCEPT ![p] = l]
    BY DEF Ring!EnterWriters, Ring!CheckFirst, Ring!ClaimFirst, Ring!RaiseAdmin, Ring!WaitEmpty,
       Ring!LockWrite, Ring!WriteCell, Ring!UnlockWrite, Ring!WaitFull, Ring!LockRead,
       Ring!TakeNumber, Ring!AdvanceRead, Ring!UnlockRead, Ring!Goto, Places, InRegister
  <1>4. \A r \in Readers : ringPc'[r] \in InRegister => ringPc'[r] = ringPc[r]
    BY <1>1, <1>3 DEF RingProcesses
  <1>5. \A q \in RingProcesses : ringPc'[q] = "newer" => ringPc[q] = "newer"
    BY <1>1, <1>3
  <1>6. QED
    BY <1>1, <1>2, <1>4, <1>5, RegisterKept

LEMMA RegisterSetUp ==
    ASSUME RingInv, RegisterInv, NEW w \in Writers, Ring!SetUp(w) PROVE RegisterInv'
  <1>1. /\ ringPc[w] = "set_up" /\ ringPc' = [ringPc EXCEPT ![w] = "raise"] /\ reader_pids' = <<>>
        /\ UNCHANGED <<reader, own, reader_gen, removed, spoilt>>
    BY DEF Ring!SetUp, Ring!At, Ring!Goto, Ring!reader_sem, Ring!names
  <1>2. \A r \in Readers : ringPc'[r] = ringPc[r] /\ ringPc[r] \notin InRegister
    BY <1>1, SharedMemoryAssumption
       DEF RingInv, RingTypes, WritersApart, ReadersApart, RingProcesses, InRegister
  <1>3. Ring!SpoiltByRemoval'
    BY <1>1, SharedMemoryAssumption DEF RegisterInv, Ring!SpoiltByRemoval
  <1>4. \A q \in RingProcesses : ringPc'[q] = "newer" => ringPc[q] = "newer"
    BY <1>1 DEF RingInv, RingTypes
  <1>5. QED
    BY <1>1, <1>2, <1>3, <1>4 DEF RegisterInv, InRegister

LEMMA RegisterStep ==
    ASSUME RingInv, RegisterInv, [Ring!Next]_(Ring!vars) PROVE RegisterInv'
  <1>1. ASSUME NEW w \in Writers, ~spoilt, Ring!Writer(w) PROVE RegisterInv'
    BY <1>1, RegisterOthers, RegisterRing, RegisterSetUp DEF Ring!Writer, RingProcesses
  <1>2. ASSUME NEW r \in Readers, ~spoilt, Ring!Reader(r) PROVE RegisterInv'
    BY <1>2, RegisterOthers, RegisterRing, RegisterReader DEF Ring!Reader, RingProcesses
  <1>3. CASE UNCHANGED Ring!vars
    <2>1. UNCHANGED <<ringPc, reader, own, reader_gen, reader_pids, removed, spoilt>>
      BY <1>3 DEF Ring!vars, Ring!shared, Ring!pids, Ring!reader_sem, Ring!names
    <2>2. reader_gen \in Nat
      BY DEF RegisterInv
    <2>3. QED
      BY <2>1, <2>2, RegisterKept
  <1>4. QED
    BY <1>1, <1>2, <1>3, RegisterOthers DEF Ring!Next, Ring!Processes, RingProcesses

\* What the invariant says of the processes that are at a cell.
LEMMA RingInvImplies == RingInv /\ RegisterInv => RingIsRight
  <1> SUFFICES ASSUME RingInv, RegisterInv PROVE RingIsRight
    OBVIOUS
  <1>1. /\ full =< BUF_SIZE /\ empty =< BUF_SIZE
    <2>1. CASE admin = 0
      BY <2>1, SharedMemoryAssumption DEF RingInv, SetUpFirst
    <2>2. CASE admin = 1
      <3>1. PICK o, n : RingHolds(o, n)
        BY <2>2 DEF RingInv, RingIsFilled
      <3>2. QED
        BY <3>1, ReadingFinite, SharedMemoryAssumption
           DEF RingHolds, Writing, RingInv, RingTypes
    <2>3. QED
      BY <2>1, <2>2 DEF RingInv, RingTypes
  <1>2. Ring!TypeOK
    <2>1. full \in 0 .. BUF_SIZE /\ empty \in 0 .. BUF_SIZE
      BY <1>1, SharedMemoryAssumption DEF RingInv, RingTypes
    <2>2. store \in [0 .. BUF_SIZE - 1 -> -1 .. 10]
      BY DEF RingInv, RingTypes, Cells
    <2>3. Ring!Processes = RingProcesses
      BY DEF Ring!Processes, RingProcesses
    <2>4. ringPc \in [Ring!Processes -> Places]
      BY <2>3 DEF RingInv, RingTypes
    <2>5. /\ read_mutex \in 0 .. 1 /\ write_mutex \in 0 .. 1 /\ admin \in 0 .. 1
          /\ writer \in 0 .. 1 /\ first_writer \in 0 .. 1 /\ writer_pid \in Writers \union {NoPid}
      BY DEF RingInv, RingTypes
    <2>6. \A i \in DOMAIN reader_pids : reader_pids[i] \in Readers
      BY DEF RegisterInv
    <2>7. QED
      BY <2>1, <2>2, <2>4, <2>5, <2>6 DEF Ring!TypeOK, Places
  <1>3. Ring!CellsAreRight
    <2>1. ASSUME NEW r \in Readers, ringPc[r] = "cell" PROVE store[ring_read] = 1
      <3>1. PICK o, n : RingHolds(o, n)
        BY <2>1 DEF RingInv, RingIsFilled, ReadersApart
      <3>2. o = 0 /\ n \in Nat
        BY <2>1, <3>1 DEF RingHolds
      <3>3. Cardinality(Reading) # 0 /\ Cardinality(Reading) \in Nat
        <4>1. r \in Reading
          BY <2>1 DEF Reading
        <4>2. QED
          BY <4>1, ReadingFinite, FS_EmptySet
      <3>4. n > 0
        BY <3>1, <3>2, <3>3 DEF RingHolds, RingInv, RingTypes
      <3>5. 0 \in Cells /\ CellAt(0) = ring_read
        BY SharedMemoryAssumption DEF RingInv, RingTypes, Cells, CellAt
      <3>6. QED
        BY <3>1, <3>2, <3>4, <3>5 DEF RingHolds
    <2>2. ASSUME NEW w \in Writers, ringPc[w] = "cell" PROVE store[ring_write] = -1
      <3>1. PICK o, n : RingHolds(o, n)
        BY <2>2 DEF RingInv, RingIsFilled, WritersApart
      <3>2. Writing = 1
        BY <2>2 DEF Writing
      <3>3. o \in {0, 1} /\ n \in Nat /\ o + n < BUF_SIZE /\ o + n \in Cells
        BY <3>1, <3>2, SharedMemoryAssumption DEF RingHolds, RingInv, RingTypes, Cells
      <3>4. ring_write = CellAt(o + n)
        BY <3>1, <3>3, SharedMemoryAssumption DEF RingHolds
      <3>5. QED
        BY <3>1, <3>3, <3>4 DEF RingHolds
    <2>3. QED
      BY <2>1, <2>2, SharedMemoryAssumption DEF Ring!CellsAreRight, Ring!At, Ring!Processes
  <1>4. Ring!OneWriter
    <2>1. admin = 1 => writer_pid # NoPid
      BY DEF RingInv, SetUpFirst
    <2>2. PICK S : S = {w \in Writers : Ring!Working(w) \/ ringPc[w] \in {"set_up", "raise"}}
      OBVIOUS
    <2>3. \A v, w \in S : v = w
      BY <2>2 DEF Ring!Working, RingInv, WritersApart, Active
    <2>4. Cardinality(S) =< 1
      <3>1. CASE S = {}
        BY <3>1, FS_EmptySet
      <3>2. CASE S # {}
        <4>1. PICK w : S = {w}
          BY <2>3, <3>2
        <4>2. QED
          BY <4>1, FS_Singleton
      <3>3. QED
        BY <3>1, <3>2
    <2>5. Ring!Cardinality(S) = Cardinality(S)
      BY DEF Cardinality, Ring!Cardinality
    <2>6. QED
      BY <2>1, <2>2, <2>4, <2>5 DEF Ring!OneWriter
  <1>5. QED
    BY <1>2, <1>3, <1>4 DEF RingIsRight, RegisterInv

\* os_hw8, for all numbers of writers and readers and all sizes of the ring and of the array of
\* readers, with Ctrl-C anywhere: a reader finds a number where it reads and the writer an
\* empty cell, one writer sets the ring up before readers see it, and before a name is removed
\* readers are registered within the array and nobody meets objects of two ages.
THEOREM RingAlwaysRight == Ring!Spec => []RingIsRight
  <1>1. Ring!Init => RingInv /\ RegisterInv
    BY RingInit, RegisterInit
  <1>2. RingInv /\ RegisterInv /\ [Ring!Next]_(Ring!vars) => (RingInv /\ RegisterInv)'
    BY RingStep, RegisterStep
  <1>3. QED
    BY <1>1, <1>2, RingInvImplies, PTL DEF Ring!Spec
-----------------------------------------------------------------------------
(* SharedNumber.                                                           *)

\* Where client waits for the server's process id, and tells its own.
Unmet == {"start", "wait_pid"}
Meeting == {"pid", "pid_type", "wait_got"}

\* Server when it has not sent its process id, when it gets that of client, and when it polls
\* or ends.
Unsent == {"start", "pid", "pid_type"}
Getting == {"wait_pid", "got_pid"}
Polling == {"poll", "empty"}
Leaving == {"tell_client", "wait_client", "remove", "done", "killed"}

CellTypes ==
    /\ by_signal \in BOOLEAN /\ s_running \in BOOLEAN /\ c_running \in BOOLEAN
    /\ csPc \in Unsent \union Getting \union Polling \union Leaving
    /\ ccPc \in Unmet \union Meeting \union {"test", "number", "number_type", "tell_server",
                                        "done", "killed"}
    /\ interrupted \in SUBSET {"server", "client"} /\ usr1 \in SUBSET {"server", "client"}
    /\ made \in 0 .. Numbers /\ printed \in Seq(1 .. made) /\ retries \in 0 .. MaxRetries
    /\ type \in Cell!Types /\ typed_last \in Cell!Types
    /\ client_id \in {0, 101, 102} /\ server_pid \in {0, 101, 102}
    /\ rand_num \in IF made = 0 THEN {0, 101, 102} ELSE {made}

\* Who exchanges numbers has been answered: client writes a number only when server has left
\* the cell to it, even when one of them was interrupted.
NumbersLate ==
    /\ ccPc = "number_type" \/ type = "NEW_NUMBER" \/ csPc = "empty" => made > 0
    /\ made > 0 => ccPc \notin Unmet \union Meeting
    /\ \A i, j \in DOMAIN printed : i < j => printed[i] =< printed[j]
    /\ by_signal =>
          /\ type = "SERVER_GOT_PROCESS_ID" => csPc \in Polling \union Leaving
          /\ ccPc \in {"number", "number_type"} => csPc \in Polling \union Leaving
          /\ ccPc = "test" /\ c_running => csPc \in Polling \union Leaving
          /\ made > 0 => csPc \in Polling \union Leaving
    /\ ~by_signal => ccPc \notin {"wait_pid"} \union Meeting
    /\ ~by_signal => csPc \notin {"pid", "pid_type"} \union Getting

\* By signal nobody sends a message of the end; and while nobody has pressed Ctrl-C the two
\* go through the exchange of process ids in step.
EndedBySignal ==
    by_signal =>
        type \notin {"CLIENT_SHUTDOWN", "SERVER_SHUTDOWN"} /\ typed_last # "SERVER_SHUTDOWN"
InStep ==
    by_signal /\ interrupted = {} =>
        /\ s_running /\ c_running /\ csPc \notin Leaving /\ ccPc \notin {"tell_server", "done", "killed"}
        /\ csPc \in Unsent => ccPc \in Unmet /\ type = "EMPTY_MESSAGE"
        /\ csPc = "pid_type" => rand_num = 101
        /\ ccPc \in Unmet /\ csPc \notin Unsent =>
              csPc = "wait_pid" /\ type = "SERVER_SENT_PROCESS_ID" /\ rand_num = 101
        /\ ccPc \in {"pid", "pid_type"} => csPc = "wait_pid" /\ type = "SERVER_SENT_PROCESS_ID"
        /\ ccPc \in {"pid_type", "wait_got"} => rand_num = 102
        /\ ccPc = "wait_got" =>
              type = IF csPc \in Getting THEN "CLIENT_SENT_PROCESS_ID"
                                         ELSE "SERVER_GOT_PROCESS_ID"
        /\ ccPc \notin Unmet \union Meeting => csPc \in Polling
        /\ csPc \notin Unsent \union {"wait_pid"} => client_id = 102
        /\ ccPc \notin Unmet => server_pid = 101

CellInv == CellTypes /\ NumbersLate /\ EndedBySignal /\ InStep

LEMMA CellInvImplies ==
    ASSUME SharedMemoryAssumption, CellInv
    PROVE  CellIsRight
  <1>1. 1 .. made \subseteq Nat
    OBVIOUS
  <1>2. \A i \in DOMAIN printed : printed[i] \in 1 .. made
    BY DEF CellInv, CellTypes
  <1>3. Cell!NumbersInOrder
    BY <1>2 DEF CellInv, NumbersLate, Cell!NumbersInOrder
  <1>4. Cell!TypeOK
    BY DEF CellInv, CellTypes, Cell!TypeOK, Cell!ServerPid, Cell!ClientPid, SharedMemoryAssumption
  <1>5. Cell!PidsAreKnown
    BY DEF CellInv, CellTypes, InStep, Unsent, Unmet, Cell!PidsAreKnown,
           Cell!ServerPid, Cell!ClientPid
  <1>6. QED
    BY <1>3, <1>4, <1>5 DEF CellIsRight

LEMMA CellInit == ASSUME SharedMemoryAssumption, Cell!Init PROVE CellInv
  <1>1. CellTypes
    BY DEF Cell!Init, CellTypes, Unsent, Unmet, Getting, Polling, Leaving, Meeting, Cell!Types,
           SharedMemoryAssumption
  <1>2. NumbersLate /\ EndedBySignal /\ InStep
    BY DEF Cell!Init, NumbersLate, EndedBySignal, InStep, Unsent, Unmet, Getting,
           Polling, Leaving, Meeting
  <1>3. QED
    BY <1>1, <1>2 DEF CellInv

\* Server starts, and empties the cell.
LEMMA CellRunServer ==
    ASSUME SharedMemoryAssumption, CellInv, Cell!RunServer PROVE CellInv'
  <1> USE DEF CellInv, CellTypes, NumbersLate, EndedBySignal, InStep, Unsent, Getting, Polling,
              Leaving, Unmet, Meeting, Cell!Types
  <1>1. CellTypes'
    BY DEF Cell!RunServer, Cell!OfServer, Cell!SGoto, Cell!client, Cell!flags
  <1>2. NumbersLate'
    BY DEF Cell!RunServer, Cell!OfServer, Cell!SGoto, Cell!client, Cell!flags
  <1>3. EndedBySignal' /\ InStep'
    BY DEF Cell!RunServer, Cell!OfServer, Cell!SGoto, Cell!client, Cell!flags
  <1>4. QED
    BY <1>1, <1>2, <1>3

\* Server sends its process id.
LEMMA CellSendServerPid ==
    ASSUME SharedMemoryAssumption, CellInv, Cell!SendServerPid PROVE CellInv'
  <1> USE DEF CellInv, CellTypes, NumbersLate, EndedBySignal, InStep, Unsent, Getting, Polling,
              Leaving, Unmet, Meeting, Cell!Types
  <1>1. CellTypes'
    BY DEF Cell!SendServerPid, Cell!OfServer, Cell!SGoto, Cell!client, Cell!flags,
           Cell!ServerPid
  <1>2. NumbersLate'
    BY DEF Cell!SendServerPid, Cell!OfServer, Cell!SGoto, Cell!client, Cell!flags,
           Cell!ServerPid
  <1>3. EndedBySignal' /\ InStep'
    BY DEF Cell!SendServerPid, Cell!OfServer, Cell!SGoto, Cell!client, Cell!flags,
           Cell!ServerPid
  <1>4. QED
    BY <1>1, <1>2, <1>3

\* Server waits for client's process id, and answers.
LEMMA CellGetClientPid ==
    ASSUME SharedMemoryAssumption, CellInv, Cell!GetClientPid PROVE CellInv'
  <1> USE DEF CellInv, CellTypes, NumbersLate, EndedBySignal, InStep, Unsent, Getting, Polling,
              Leaving, Unmet, Meeting, Cell!Types
  <1>1. CellTypes'
    BY DEF Cell!GetClientPid, Cell!OfServer, Cell!SGoto, Cell!client, Cell!flags
  <1>2. NumbersLate'
    BY DEF Cell!GetClientPid, Cell!OfServer, Cell!SGoto, Cell!client, Cell!flags
  <1>3. EndedBySignal' /\ InStep'
    BY DEF Cell!GetClientPid, Cell!OfServer, Cell!SGoto, Cell!client, Cell!flags
  <1>4. QED
    BY <1>1, <1>2, <1>3

\* Server prints a number, or learns that it ends.
LEMMA CellPollCell ==
    ASSUME SharedMemoryAssumption, CellInv, Cell!PollCell PROVE CellInv'
  <1> USE DEF CellInv, CellTypes, NumbersLate, EndedBySignal, InStep, Unsent, Getting, Polling,
              Leaving, Unmet, Meeting, Cell!Types
  <1>1. CellTypes'
    <2>1. s_running' \in BOOLEAN
      BY DEF Cell!PollCell
    <2>2. type = "NEW_NUMBER" => rand_num \in 1 .. made
      OBVIOUS
    <2>3. printed' \in Seq(1 .. made)
      BY <2>2 DEF Cell!PollCell
    <2>4. QED
      BY <2>1, <2>3
      DEF Cell!PollCell, Cell!OfServer, Cell!SGoto, Cell!client, Cell!cell
  <1>2. NumbersLate'
    <2>1. \A i, j \in DOMAIN printed' : i < j => printed'[i] =< printed'[j]
      <3>1. CASE printed' = printed
        BY <3>1
      <3>2. CASE type = "NEW_NUMBER" /\ printed' = Append(printed, rand_num)
        <4>1. rand_num = made /\ made \in Nat /\ printed \in Seq(1 .. made)
          BY <3>2
        <4>2. DOMAIN printed' = 1 .. Len(printed) + 1 /\ DOMAIN printed = 1 .. Len(printed)
          BY <3>2, <4>1
        <4>3. \A i \in DOMAIN printed' :
                 printed'[i] = IF i = Len(printed) + 1 THEN made ELSE printed[i]
          BY <3>2, <4>1, <4>2
        <4>4. \A i \in DOMAIN printed : printed[i] \in 1 .. made
          BY <4>1
        <4>5. QED
          BY <4>1, <4>2, <4>3, <4>4
      <3>3. QED
        BY <3>1, <3>2 DEF Cell!PollCell
    <2>2. QED
      BY <2>1
      DEF Cell!PollCell, Cell!OfServer, Cell!SGoto, Cell!client, Cell!cell
  <1>3. EndedBySignal' /\ InStep'
    BY DEF Cell!PollCell, Cell!OfServer, Cell!SGoto, Cell!client, Cell!cell
  <1>4. QED
    BY <1>1, <1>2, <1>3

\* Server empties the cell.
LEMMA CellEmptyCell ==
    ASSUME SharedMemoryAssumption, CellInv, Cell!EmptyCell PROVE CellInv'
  <1> USE DEF CellInv, CellTypes, NumbersLate, EndedBySignal, InStep, Unsent, Getting, Polling,
              Leaving, Unmet, Meeting, Cell!Types
  <1>1. CellTypes'
    BY DEF Cell!EmptyCell, Cell!OfServer, Cell!SGoto, Cell!client, Cell!flags
  <1>2. NumbersLate'
    BY DEF Cell!EmptyCell, Cell!OfServer, Cell!SGoto, Cell!client, Cell!flags
  <1>3. EndedBySignal' /\ InStep'
    BY DEF Cell!EmptyCell, Cell!OfServer, Cell!SGoto, Cell!client, Cell!flags
  <1>4. QED
    BY <1>1, <1>2, <1>3

\* Server tells client that it ends.
LEMMA CellTellClient ==
    ASSUME SharedMemoryAssumption, CellInv, Cell!TellClient PROVE CellInv'
  <1> USE DEF CellInv, CellTypes, NumbersLate, EndedBySignal, InStep, Unsent, Getting, Polling,
              Leaving, Unmet, Meeting, Cell!Types
  <1>1. /\ csPc = "tell_client" /\ csPc' \in {"remove", "wait_client", "killed"}
        /\ ccPc' \in {ccPc, "killed"}
        /\ UNCHANGED <<by_signal, rand_num, client_id, retries, printed, server_pid, made,
                       typed_last, interrupted>>
        /\ s_running' \in BOOLEAN /\ c_running' \in BOOLEAN /\ (c_running' => c_running)
        /\ usr1' \in SUBSET {"server", "client"}
        /\ type' = type \/ (~by_signal /\ type' = "SERVER_SHUTDOWN")
    <2>1. CASE by_signal
      <3>1. Cell!Told(client_id, "server") \subseteq {"server", "client"}
        BY DEF Cell!Told
      <3>2. /\ csPc = "tell_client" /\ csPc' \in {"remove", "killed"}
            /\ ccPc' \in {ccPc, "killed"} /\ type' = type
            /\ UNCHANGED <<rand_num, client_id, retries, printed, server_pid, made,
                           typed_last, by_signal>>
        BY <2>1 DEF Cell!TellClient, Cell!SGoto, Cell!After
      <3>3. /\ UNCHANGED interrupted /\ usr1' = usr1 \union Cell!Told(client_id, "server")
            /\ s_running' = (s_running /\ "server" \notin Cell!Told(client_id, "server"))
            /\ c_running' = (c_running /\ "client" \notin Cell!Told(client_id, "server"))
        BY <2>1 DEF Cell!TellClient, Cell!Kill
      <3>4. s_running' \in BOOLEAN /\ c_running' \in BOOLEAN /\ (c_running' => c_running)
        BY <3>3, Zenon
      <3>5. usr1' \in SUBSET {"server", "client"}
        BY <3>1, <3>3
      <3>6. QED
        BY <3>2, <3>3, <3>4, <3>5
    <2>2. CASE ~by_signal
      BY <2>2 DEF Cell!TellClient, Cell!SGoto, Cell!flags
    <2>3. QED
      BY <2>1, <2>2
  <1>2. CellTypes'
    BY <1>1, SharedMemoryAssumption
  <1>3. NumbersLate'
    BY <1>1
  <1>4. EndedBySignal' /\ InStep'
    BY <1>1
  <1>5. QED
    BY <1>2, <1>3, <1>4

\* Server waits for client's last message.
LEMMA CellWaitForClient ==
    ASSUME SharedMemoryAssumption, CellInv, Cell!WaitForClient PROVE CellInv'
  <1> USE DEF CellInv, CellTypes, NumbersLate, EndedBySignal, InStep, Unsent, Getting, Polling,
              Leaving, Unmet, Meeting, Cell!Types
  <1>1. CellTypes'
    BY SharedMemoryAssumption
    DEF Cell!WaitForClient, Cell!OfServer, Cell!SGoto, Cell!client, Cell!cell, Cell!flags
  <1>2. NumbersLate'
    BY DEF Cell!WaitForClient, Cell!OfServer, Cell!SGoto, Cell!client, Cell!cell, Cell!flags
  <1>3. EndedBySignal' /\ InStep'
    BY DEF Cell!WaitForClient, Cell!OfServer, Cell!SGoto, Cell!client, Cell!cell, Cell!flags
  <1>4. QED
    BY <1>1, <1>2, <1>3

\* Server removes the memory.
LEMMA CellRemoveSharedMemory ==
    ASSUME SharedMemoryAssumption, CellInv, Cell!RemoveSharedMemory PROVE CellInv'
  <1> USE DEF CellInv, CellTypes, NumbersLate, EndedBySignal, InStep, Unsent, Getting, Polling,
              Leaving, Unmet, Meeting, Cell!Types
  <1>1. CellTypes'
    BY DEF Cell!RemoveSharedMemory, Cell!OfServer, Cell!SGoto, Cell!client, Cell!cell,
           Cell!flags
  <1>2. NumbersLate'
    BY DEF Cell!RemoveSharedMemory, Cell!OfServer, Cell!SGoto, Cell!client, Cell!cell,
           Cell!flags
  <1>3. EndedBySignal' /\ InStep'
    BY DEF Cell!RemoveSharedMemory, Cell!OfServer, Cell!SGoto, Cell!client, Cell!cell,
           Cell!flags
  <1>4. QED
    BY <1>1, <1>2, <1>3

\* Client waits for server's process id.
LEMMA CellGetServerPid ==
    ASSUME SharedMemoryAssumption, CellInv, Cell!GetServerPid PROVE CellInv'
  <1> USE DEF CellInv, CellTypes, NumbersLate, EndedBySignal, InStep, Unsent, Getting, Polling,
              Leaving, Unmet, Meeting, Cell!Types
  <1>1. CellTypes'
    BY DEF Cell!GetServerPid, Cell!OfClient, Cell!CGoto, Cell!server, Cell!cell, Cell!flags
  <1>2. NumbersLate'
    BY DEF Cell!GetServerPid, Cell!OfClient, Cell!CGoto, Cell!server, Cell!cell, Cell!flags
  <1>3. EndedBySignal' /\ InStep'
    BY DEF Cell!GetServerPid, Cell!OfClient, Cell!CGoto, Cell!server, Cell!cell, Cell!flags
  <1>4. QED
    BY <1>1, <1>2, <1>3

\* Client tells its process id, and waits for the answer.
LEMMA CellSendClientPid ==
    ASSUME SharedMemoryAssumption, CellInv, Cell!SendClientPid PROVE CellInv'
  <1> USE DEF CellInv, CellTypes, NumbersLate, EndedBySignal, InStep, Unsent, Getting, Polling,
              Leaving, Unmet, Meeting, Cell!Types
  <1>1. CellTypes'
    BY DEF Cell!SendClientPid, Cell!OfClient, Cell!CGoto, Cell!server, Cell!cell, Cell!flags,
           Cell!ClientPid
  <1>2. NumbersLate'
    BY DEF Cell!SendClientPid, Cell!OfClient, Cell!CGoto, Cell!server, Cell!cell, Cell!flags,
           Cell!ClientPid
  <1>3. EndedBySignal' /\ InStep'
    BY DEF Cell!SendClientPid, Cell!OfClient, Cell!CGoto, Cell!server, Cell!cell, Cell!flags,
           Cell!ClientPid
  <1>4. QED
    BY <1>1, <1>2, <1>3

\* Client looks whether server has ended.
LEMMA CellTestCell ==
    ASSUME SharedMemoryAssumption, CellInv, Cell!TestCell PROVE CellInv'
  <1> USE DEF CellInv, CellTypes, NumbersLate, EndedBySignal, InStep, Unsent, Getting, Polling,
              Leaving, Unmet, Meeting, Cell!Types
  <1>1. CellTypes'
    BY DEF Cell!TestCell, Cell!OfClient, Cell!CGoto, Cell!server, Cell!cell, Cell!flags
  <1>2. NumbersLate'
    BY DEF Cell!TestCell, Cell!OfClient, Cell!CGoto, Cell!server, Cell!cell, Cell!flags
  <1>3. EndedBySignal' /\ InStep'
    BY DEF Cell!TestCell, Cell!OfClient, Cell!CGoto, Cell!server, Cell!cell, Cell!flags
  <1>4. QED
    BY <1>1, <1>2, <1>3

\* Client writes a number.
LEMMA CellSendNumber ==
    ASSUME SharedMemoryAssumption, CellInv, Cell!SendNumber PROVE CellInv'
  <1> USE DEF CellInv, CellTypes, NumbersLate, EndedBySignal, InStep, Unsent, Getting, Polling,
              Leaving, Unmet, Meeting, Cell!Types
  <1>1. CellTypes'
    BY SharedMemoryAssumption
    DEF Cell!SendNumber, Cell!OfClient, Cell!CGoto, Cell!server, Cell!cell, Cell!flags
  <1>2. NumbersLate'
    BY DEF Cell!SendNumber, Cell!OfClient, Cell!CGoto, Cell!server, Cell!cell, Cell!flags
  <1>3. EndedBySignal' /\ InStep'
    BY DEF Cell!SendNumber, Cell!OfClient, Cell!CGoto, Cell!server, Cell!cell, Cell!flags
  <1>4. QED
    BY <1>1, <1>2, <1>3

\* Client tells server that it ends.
LEMMA CellTellServer ==
    ASSUME SharedMemoryAssumption, CellInv, Cell!TellServer PROVE CellInv'
  <1> USE DEF CellInv, CellTypes, NumbersLate, EndedBySignal, InStep, Unsent, Getting, Polling,
              Leaving, Unmet, Meeting, Cell!Types
  <1>1. /\ ccPc = "tell_server" /\ ccPc' \in {"done", "killed"} /\ csPc' \in {csPc, "killed"}
        /\ UNCHANGED <<by_signal, rand_num, client_id, retries, printed, server_pid, made,
                       typed_last, interrupted>>
        /\ s_running' \in BOOLEAN /\ c_running' \in BOOLEAN
        /\ usr1' \in SUBSET {"server", "client"}
        /\ \/ type' = type
           \/ ~by_signal /\ type' = "CLIENT_SHUTDOWN"
           \/ typed_last = "SERVER_SHUTDOWN" /\ type' = "READY_TO_REMOVE_SEGMENT"
    BY ZenonT(60) DEF Cell!TellServer, Cell!CGoto, Cell!flags, Cell!Kill, Cell!Told, Cell!After
  <1>2. CellTypes'
    BY <1>1, SharedMemoryAssumption
  <1>3. NumbersLate'
    BY <1>1
  <1>4. EndedBySignal' /\ InStep'
    BY <1>1
  <1>5. QED
    BY <1>2, <1>3, <1>4

\* Ctrl-C.
LEMMA CellInterrupt ==
    ASSUME SharedMemoryAssumption, CellInv, Cell!Interrupt PROVE CellInv'
  <1> USE DEF CellInv, CellTypes, NumbersLate, EndedBySignal, InStep, Unsent, Getting, Polling,
              Leaving, Unmet, Meeting, Cell!Types
  <1>1. /\ csPc' \in {csPc, "killed"} /\ ccPc' \in {ccPc, "killed"}
        /\ s_running' \in BOOLEAN /\ c_running' \in BOOLEAN /\ (c_running' => c_running)
        /\ interrupted' \in SUBSET {"server", "client"} /\ interrupted' # {}
        /\ UNCHANGED <<by_signal, type, rand_num, client_id, retries, printed, server_pid, made,
                       typed_last, usr1>>
    <2>1. /\ csPc' \in {csPc, "killed"} /\ ccPc' \in {ccPc, "killed"}
          /\ interrupted' \in SUBSET {"server", "client"} /\ interrupted' # {}
          /\ UNCHANGED <<by_signal, type, rand_num, client_id, retries, printed, server_pid, made,
                         typed_last, usr1>>
      BY DEF Cell!Interrupt, Cell!cell
    <2>2. /\ s_running' = s_running \/ s_running' = FALSE
          /\ c_running' = c_running \/ c_running' = FALSE
      BY DEF Cell!Interrupt
    <2>3. s_running \in BOOLEAN /\ c_running \in BOOLEAN
      OBVIOUS
    <2>4. s_running' \in BOOLEAN
      <3>1. CASE s_running' = s_running
        BY <2>3, <3>1, Zenon
      <3>2. CASE s_running' = FALSE
        BY <3>2, Zenon
      <3>3. QED
        BY <2>2, <3>1, <3>2, Zenon
    <2>5. c_running' \in BOOLEAN /\ (c_running' => c_running)
      <3>1. CASE c_running' = c_running
        BY <2>3, <3>1, Zenon
      <3>2. CASE c_running' = FALSE
        BY <3>2, Zenon
      <3>3. QED
        BY <2>2, <3>1, <3>2, Zenon
    <2>6. QED
      BY <2>1, <2>4, <2>5
  <1>2. CellTypes'
    BY <1>1
  <1>3. NumbersLate'
    BY <1>1
  <1>4. EndedBySignal' /\ InStep'
    BY <1>1
  <1>5. QED
    BY <1>2, <1>3, <1>4

\* Every step of either program, and of the user, keeps the invariant.
LEMMA CellStep ==
    ASSUME SharedMemoryAssumption, CellInv, [Cell!Next]_(Cell!vars) PROVE CellInv'
  <1>1. CASE Cell!Server
    BY <1>1, CellRunServer, CellSendServerPid, CellGetClientPid, CellPollCell, CellEmptyCell,
       CellTellClient, CellWaitForClient, CellRemoveSharedMemory DEF Cell!Server
  <1>2. CASE Cell!Client
    BY <1>2, CellGetServerPid, CellSendClientPid, CellTestCell, CellSendNumber,
       CellTellServer DEF Cell!Client
  <1>3. CASE UNCHANGED Cell!vars
    BY <1>3 DEF Cell!vars, Cell!cell, Cell!server, Cell!client, Cell!flags, CellInv, CellTypes,
       NumbersLate, EndedBySignal, InStep
  <1>4. QED
    BY <1>1, <1>2, <1>3, CellInterrupt DEF Cell!Next

\* SharedNumber: what server prints are numbers that client has made, never an older one after
\* a newer, though either can be interrupted at any time; and who exchanges numbers knows the
\* other, unless it was interrupted before (run_server, run_client,
\* exchange_process_ids_with_client, exchange_process_ids_with_server).
THEOREM CellAlwaysRight == Cell!Spec => []CellIsRight
  <1>1. Cell!Init => CellInv
    BY CellInit, SharedMemoryAssumption
  <1>2. CellInv /\ [Cell!Next]_(Cell!vars) => CellInv'
    BY CellStep, SharedMemoryAssumption
  <1>3. CellInv => CellIsRight
    BY CellInvImplies, SharedMemoryAssumption
  <1>4. QED
    BY <1>1, <1>2, <1>3, PTL DEF Cell!Spec
-----------------------------------------------------------------------------
(* PipeTalk.                                                               *)

Talkers == {"parent", "child"}
Using == {"read", "write", "post"}

TalkTypes ==
    /\ tPc \in [Talkers -> {"test", "wait", "sleep", "join", "remove", "ended"} \union Using]
    /\ is_running \in [Talkers -> BOOLEAN] /\ result \in [Talkers -> {"ok", "failed"}]
    /\ pending \in [Talkers -> 0 .. MaxSignals] /\ pressed \in 0 .. MaxSignals
    /\ \A q \in Talkers : pending[q] =< pressed
    /\ sem \in 0 .. 1 /\ exists \in BOOLEAN /\ tPipe \in Seq({"main", "parent", "child"})

\* The semaphore is with one process or free; the message is in the pipe but for the time
\* between the read and the write of that process.
TalkInTurn ==
    /\ sem = IF \E q \in Talkers : tPc[q] \in Using THEN 0 ELSE 1
    /\ tPc["parent"] \in Using => tPc["child"] \notin Using
    /\ Len(tPipe) = IF \E q \in Talkers : tPc[q] = "write" THEN 0 ELSE 1

\* The parent removes the semaphore when the child has ended, and ends then.
ChildFirst ==
    /\ tPc["child"] \notin {"join", "remove"}
    /\ tPc["parent"] \in {"remove", "ended"} => tPc["child"] = "ended"
    /\ ~exists => tPc["parent"] = "ended"

TalkInv == TalkTypes /\ TalkInTurn /\ ChildFirst

LEMMA TalkInvImplies ==
    ASSUME TransfersAssumption, TalkInv
    PROVE  TalkIsRight
  <1>1. Talk!TypeOK
    BY DEF TalkInv, TalkTypes, TalkInTurn, Talk!TypeOK, Talk!Processes, Talkers, Using
  <1>2. \A S : Talk!Cardinality(S) = Cardinality(S)
    BY DEF Cardinality, Talk!Cardinality
  <1>3. /\ Cardinality({}) = 0
        /\ Cardinality({"parent"}) = 1 /\ Cardinality({"child"}) = 1
    BY FS_EmptySet, FS_Singleton
  <1>4. sem + Cardinality(Talk!Holders) = 1
    <2>1. CASE tPc["parent"] \in Using
      <3>1. Talk!Holders = {"parent"}
        BY <2>1 DEF TalkInv, TalkInTurn, Talk!Holders, Talk!Processes, Talkers, Using
      <3>2. Cardinality(Talk!Holders) = 1
        BY <1>3, <3>1
      <3>3. sem = 0
        BY <2>1 DEF TalkInv, TalkInTurn, Talkers
      <3>4. QED
        BY <3>2, <3>3
    <2>2. CASE tPc["child"] \in Using
      <3>1. Talk!Holders = {"child"}
        BY <2>2 DEF TalkInv, TalkInTurn, Talk!Holders, Talk!Processes, Talkers, Using
      <3>2. Cardinality(Talk!Holders) = 1
        BY <1>3, <3>1
      <3>3. sem = 0
        BY <2>2 DEF TalkInv, TalkInTurn, Talkers
      <3>4. QED
        BY <3>2, <3>3
    <2>3. CASE tPc["parent"] \notin Using /\ tPc["child"] \notin Using
      <3>1. Talk!Holders = {}
        BY <2>3 DEF Talk!Holders, Talk!Processes, Using
      <3>2. Cardinality(Talk!Holders) = 0
        BY <1>3, <3>1
      <3>3. sem = 1
        BY <2>3 DEF TalkInv, TalkInTurn, Talkers
      <3>4. QED
        BY <3>2, <3>3
    <2>4. QED
      BY <2>1, <2>2, <2>3
  <1>5. Len(tPipe) + Cardinality({q \in Talk!Processes : Talk!At(q, "write")}) = 1
    <2> DEFINE W == {q \in Talk!Processes : Talk!At(q, "write")}
    <2>1. CASE tPc["parent"] = "write"
      <3>1. W = {"parent"}
        BY <2>1 DEF TalkInv, TalkInTurn, Talk!At, Talk!Processes, Using
      <3>2. Cardinality(W) = 1
        BY <1>3, <3>1
      <3>3. Len(tPipe) = 0
        BY <2>1 DEF TalkInv, TalkInTurn, Talkers
      <3>4. QED
        BY <3>2, <3>3
    <2>2. CASE tPc["child"] = "write"
      <3>1. W = {"child"}
        BY <2>2 DEF TalkInv, TalkInTurn, Talk!At, Talk!Processes, Using
      <3>2. Cardinality(W) = 1
        BY <1>3, <3>1
      <3>3. Len(tPipe) = 0
        BY <2>2 DEF TalkInv, TalkInTurn, Talkers
      <3>4. QED
        BY <3>2, <3>3
    <2>3. CASE tPc["parent"] # "write" /\ tPc["child"] # "write"
      <3>1. W = {}
        BY <2>3 DEF Talk!At, Talk!Processes
      <3>2. Cardinality(W) = 0
        BY <1>3, <3>1
      <3>3. Len(tPipe) = 1
        BY <2>3 DEF TalkInv, TalkInTurn, Talkers
      <3>4. QED
        BY <3>2, <3>3
    <2>4. QED
      BY <2>1, <2>2, <2>3
  <1>6. ~exists => \A q \in Talk!Processes : Talk!At(q, "ended")
    BY DEF TalkInv, ChildFirst, Talk!At, Talk!Processes
  <1>7. QED
    BY <1>1, <1>2, <1>4, <1>5, <1>6 DEF TalkIsRight, Talk!OneMessage

LEMMA TalkInit == ASSUME TransfersAssumption, Talk!Init PROVE TalkInv
  <1>1. tPc = [q \in Talkers |-> "test"] /\ sem = 1 /\ exists = TRUE /\ tPipe = <<"main">>
    BY DEF Talk!Init, Talk!Processes, Talkers
  <1>2. TalkTypes
    BY <1>1 DEF Talk!Init, Talk!Processes, Talkers, TalkTypes, TransfersAssumption
  <1>3. TalkInTurn /\ ChildFirst
    BY <1>1 DEF TalkInTurn, ChildFirst, Talkers, Using
  <1>4. QED
    BY <1>2, <1>3 DEF TalkInv

\* Taking the semaphore, the message, and giving both back.
LEMMA TalkStep ==
    ASSUME TransfersAssumption, TalkInv, NEW q \in Talkers, Talk!Step(q) PROVE TalkInv'
  <1> USE DEF TalkInv, TalkInTurn, ChildFirst, TalkTypes, Talk!At, Talk!Go, Talkers, Using
  <1>1. CASE Talk!TestRunning(q)
    BY <1>1 DEF Talk!TestRunning, Talk!After
  <1>2. CASE Talk!SemWait(q)
    BY <1>2 DEF Talk!SemWait
  <1>3. CASE Talk!ReadMessage(q)
    BY <1>3 DEF Talk!ReadMessage
  <1>4. CASE Talk!WriteMessage(q)
    BY <1>4 DEF Talk!WriteMessage
  <1>5. CASE Talk!SemPost(q)
    BY <1>5 DEF Talk!SemPost
  <1>6. CASE Talk!Awake(q)
    BY <1>6 DEF Talk!Awake
  <1>7. QED
    BY <1>1, <1>2, <1>3, <1>4, <1>5, <1>6 DEF Talk!Step

\* A signal ends the wait for the semaphore, which is then left to the other.
LEMMA TalkHandlesSignal ==
    ASSUME TransfersAssumption, TalkInv, NEW q \in Talkers, Talk!HandleSignal(q) PROVE TalkInv'
  <1> USE DEF TalkInv, TalkInTurn, ChildFirst, TalkTypes, Talk!At, Talk!Go, Talkers, Using
  <1>1. CASE UNCHANGED <<tPc, result>>
    BY <1>1 DEF Talk!HandleSignal
  <1>2. CASE tPc[q] \in {"wait", "sleep"}
    BY <1>2 DEF Talk!HandleSignal, Talk!After
  <1>3. QED
    BY <1>1, <1>2 DEF Talk!HandleSignal

LEMMA TalkEnds ==
    ASSUME TransfersAssumption, TalkInv,
           Talk!WaitChild \/ Talk!RemoveSemaphore \/ Talk!CtrlC \/ UNCHANGED Talk!vars
    PROVE  TalkInv'
  <1> USE DEF TalkInv, TalkInTurn, ChildFirst, TalkTypes, Talk!At, Talk!Go, Talkers, Using
  <1>1. CASE Talk!WaitChild
    BY <1>1 DEF Talk!WaitChild
  <1>2. CASE Talk!RemoveSemaphore
    BY <1>2 DEF Talk!RemoveSemaphore
  <1>3. CASE Talk!CtrlC
    BY <1>3, TransfersAssumption DEF Talk!CtrlC, Talk!Processes
  <1>4. CASE UNCHANGED Talk!vars
    BY <1>4 DEF Talk!vars
  <1>5. QED
    BY <1>1, <1>2, <1>3, <1>4

\* PipeTalk: with the semaphore a process finds exactly one message, so it does not block with
\* the semaphore taken; and the parent removes the semaphore after both have used it
\* (run_main_process_impl, run_child_process_impl).
THEOREM TalkAlwaysRight == Talk!Spec => []TalkIsRight
  <1>1. Talk!Init => TalkInv
    BY TalkInit, TransfersAssumption
  <1>2. TalkInv /\ [Talk!Next]_(Talk!vars) => TalkInv'
    BY TalkStep, TalkHandlesSignal, TalkEnds, TransfersAssumption
    DEF Talk!Next, Talk!Processes, Talkers
  <1>3. TalkInv => TalkIsRight
    BY TalkInvImplies, TransfersAssumption
  <1>4. QED
    BY <1>1, <1>2, <1>3, PTL DEF Talk!Spec

-----------------------------------------------------------------------------
(* UdpBroadcast.                                                           *)

\* A line that is under way was sent, and the last one is the end if there is one.
BroadcastInv ==
    /\ BroadcastIsRight
    /\ \A c \in Receivers, l \in 1 .. LastLine : net[c][l] > 0 => l =< bSent
    /\ ends /\ bSent = LastLine => sPc = "ok" \/ LastLine = 0

LEMMA BroadcastInit == ASSUME TransfersAssumption, Broadcast!Init PROVE BroadcastInv
  BY DEF TransfersAssumption, Broadcast!Init, BroadcastInv, BroadcastIsRight, Broadcast!TypeOK,
         Broadcast!EndWasSent

\* A line that is sent is under way to those who listen, and to them it is the last so far.
LEMMA BroadcastSend ==
    ASSUME TransfersAssumption, BroadcastInv, Broadcast!Send PROVE BroadcastInv'
  <1>1. PICK copies \in [Receivers -> 0 .. MaxCopies] :
           net' = [c \in Receivers |->
                      [net[c] EXCEPT ![bSent'] = IF cPc[c] = "receive" THEN copies[c] ELSE 0]]
    BY DEF Broadcast!Send
  <1>2. /\ sPc = "send" /\ bSent \in 0 .. LastLine /\ bSent < LastLine /\ bSent' = bSent + 1
        /\ cPc' = cPc /\ ends' = ends
        /\ sPc' = (IF ends /\ bSent' = LastLine THEN "ok" ELSE "send")
    BY DEF Broadcast!Send, Broadcast!IsEndMessage, BroadcastInv, BroadcastIsRight,
           Broadcast!TypeOK
  <1>3. net \in [Receivers -> [1 .. LastLine -> 0 .. MaxCopies]] /\ bSent' \in 1 .. LastLine
    BY <1>2, TransfersAssumption DEF BroadcastInv, BroadcastIsRight, Broadcast!TypeOK
  <1>4. \A c \in Receivers :
           /\ net'[c] \in [1 .. LastLine -> 0 .. MaxCopies]
           /\ \A l \in 1 .. LastLine : l # bSent' => net'[c][l] = net[c][l]
    BY <1>1, <1>3, TransfersAssumption
  <1>5. net' \in [Receivers -> [1 .. LastLine -> 0 .. MaxCopies]]
    BY <1>1, <1>4
  <1>6. Broadcast!TypeOK'
    BY <1>2, <1>3, <1>5 DEF BroadcastInv, BroadcastIsRight, Broadcast!TypeOK
  <1>7. Broadcast!EndWasSent'
    BY <1>2 DEF BroadcastInv, BroadcastIsRight, Broadcast!EndWasSent
  <1>8. \A c \in Receivers, l \in 1 .. LastLine : net'[c][l] > 0 => l =< bSent'
    BY <1>2, <1>4 DEF BroadcastInv
  <1>9. QED
    BY <1>2, <1>6, <1>7, <1>8 DEF BroadcastInv, BroadcastIsRight

LEMMA BroadcastReceive ==
    ASSUME TransfersAssumption, BroadcastInv, NEW c \in Receivers, Broadcast!Receive(c)
    PROVE  BroadcastInv'
  <1>1. PICK l \in 1 .. LastLine :
           /\ net[c][l] > 0 /\ net' = [net EXCEPT ![c][l] = @ - 1]
           /\ cPc' = [cPc EXCEPT ![c] = IF Broadcast!IsEndMessage(l) THEN "ok" ELSE "receive"]
    BY DEF Broadcast!Receive
  <1>2. /\ net \in [Receivers -> [1 .. LastLine -> 0 .. MaxCopies]] /\ UNCHANGED <<ends, bSent, sPc>>
        /\ cPc \in [Receivers -> {"off", "receive", "ok", "failed"}]
    BY DEF Broadcast!Receive, BroadcastInv, BroadcastIsRight, Broadcast!TypeOK
  <1>3. net' \in [Receivers -> [1 .. LastLine -> 0 .. MaxCopies]]
    BY <1>1, <1>2, TransfersAssumption
  <1>4. \A d \in Receivers, k \in 1 .. LastLine : net'[d][k] > 0 => net[d][k] > 0
    BY <1>1, <1>2, TransfersAssumption
  <1>5. Broadcast!IsEndMessage(l) => sPc = "ok"
    BY <1>1, TransfersAssumption
    DEF Broadcast!IsEndMessage, BroadcastInv, BroadcastIsRight, Broadcast!TypeOK
  <1>6. Broadcast!TypeOK' /\ Broadcast!EndWasSent'
    BY <1>1, <1>2, <1>3, <1>5
    DEF BroadcastInv, BroadcastIsRight, Broadcast!TypeOK, Broadcast!EndWasSent
  <1>7. QED
    BY <1>2, <1>4, <1>6 DEF BroadcastInv, BroadcastIsRight

LEMMA BroadcastElse ==
    ASSUME TransfersAssumption, BroadcastInv,
           Broadcast!StopSending \/ (\E c \in Receivers : Broadcast!Bind(c))
              \/ UNCHANGED Broadcast!vars
    PROVE  BroadcastInv'
  <1> USE DEF BroadcastInv, BroadcastIsRight, Broadcast!TypeOK, Broadcast!EndWasSent
  <1>1. CASE Broadcast!StopSending
    BY <1>1 DEF Broadcast!StopSending
  <1>2. ASSUME NEW c \in Receivers, Broadcast!Bind(c) PROVE BroadcastInv'
    BY <1>2 DEF Broadcast!Bind
  <1>3. CASE UNCHANGED Broadcast!vars
    BY <1>3 DEF Broadcast!vars
  <1>4. QED
    BY <1>1, <1>2, <1>3

\* UdpBroadcast: whatever is lost, doubled or late, a client that ended well has seen the end,
\* and the server had ended by then (is_end_message on both sides).
THEOREM BroadcastAlwaysRight == Broadcast!Spec => []BroadcastIsRight
  <1>1. Broadcast!Init => BroadcastInv
    BY BroadcastInit, TransfersAssumption
  <1>2. BroadcastInv /\ [Broadcast!Next]_(Broadcast!vars) => BroadcastInv'
    BY BroadcastSend, BroadcastReceive, BroadcastElse, TransfersAssumption
    DEF Broadcast!Next, Broadcast!Server
  <1>3. BroadcastInv => BroadcastIsRight
    BY DEF BroadcastInv
  <1>4. QED
    BY <1>1, <1>2, <1>3, PTL DEF Broadcast!Spec

-----------------------------------------------------------------------------
(* FileCopy.                                                               *)

CopyTypes ==
    /\ source \in 0 .. MaxLength /\ old \in 0 .. MaxLength /\ short \in BOOLEAN
    /\ fPc \in {"open", "read", "write", "done", "failed"}
    /\ read \in 0 .. source /\ piece \in 0 .. MAX_READ_SIZE /\ written \in 0 .. read
    /\ file \in Seq(0 .. MaxLength)

\* A piece that is being written is behind what was written before, and is of the greatest size
\* or the last one; while no write was short, what was written begins the destination.
CopyGrows ==
    /\ written =< Len(file)
    /\ fPc = "write" => piece =< read /\ written =< read - piece
    /\ fPc \in {"write", "done"} => piece = MAX_READ_SIZE \/ read = source
    /\ fPc = "done" => piece # MAX_READ_SIZE
    /\ ~short =>
          /\ fPc = "write" => written = read - piece
          /\ fPc \in {"open", "read", "done"} => written = read
          /\ Len(file) = IF old > written THEN old ELSE written
          /\ \A i \in DOMAIN file : file[i] = (IF i =< written THEN i ELSE 0)

CopyInv == CopyTypes /\ CopyGrows

LEMMA CopyInvImplies == ASSUME TransfersAssumption, CopyInv PROVE CopyIsRight
  <1>1. Copy!TypeOK
    BY DEF CopyInv, CopyTypes, Copy!TypeOK
  <1>2. Copy!CopyIsWhole
    BY DEF CopyInv, CopyTypes, CopyGrows, Copy!CopyIsWhole
  <1>3. QED
    BY <1>1, <1>2 DEF CopyIsRight

LEMMA CopyInit == ASSUME TransfersAssumption, Copy!Init PROVE CopyInv
  <1>1. /\ old \in 0 .. MaxLength /\ file = [i \in 1 .. old |-> 0]
        /\ file \in Seq(0 .. MaxLength) /\ Len(file) = old
    BY TransfersAssumption DEF Copy!Init
  <1> short \in BOOLEAN
    BY DEF Copy!Init
  <1>2. /\ source \in 0 .. MaxLength /\ fPc = "open"
        /\ read = 0 /\ piece = 0 /\ written = 0 /\ 0 \in 0 .. MAX_READ_SIZE /\ 0 \in 0 .. source
    BY TransfersAssumption DEF Copy!Init
  <1>3. CopyTypes
    BY <1>1, <1>2 DEF CopyTypes
  <1>4. \A i \in DOMAIN file : file[i] = 0 /\ i > 0
    BY <1>1
  <1>5. CopyGrows
    BY <1>1, <1>2, <1>4 DEF CopyGrows
  <1>6. QED
    BY <1>3, <1>5 DEF CopyInv

\* What a write of n bytes of the piece makes of the destination.
LEMMA CopyExtends ==
    ASSUME TransfersAssumption, CopyInv, fPc = "write", NEW n \in 0 .. piece
    PROVE  /\ Copy!Extended(n) \in Seq(0 .. MaxLength)
           /\ Len(Copy!Extended(n)) = IF written + n > Len(file) THEN written + n ELSE Len(file)
           /\ \A i \in 1 .. Len(Copy!Extended(n)) :
                 Copy!Extended(n)[i] = IF i \in written + 1 .. written + n
                                       THEN read - piece + i - written ELSE file[i]
  <1> DEFINE m == IF written + n > Len(file) THEN written + n ELSE Len(file)
  <1>1. /\ piece \in Nat /\ read \in Nat /\ written \in Nat /\ n \in Nat /\ n =< piece
        /\ piece =< read /\ written =< read - piece /\ read =< MaxLength /\ MaxLength \in Nat
        /\ Len(file) \in Nat /\ written =< Len(file)
    BY TransfersAssumption DEF CopyInv, CopyTypes, CopyGrows
  <1>2. \A i \in 1 .. Len(file) : file[i] \in 0 .. MaxLength
    BY DEF CopyInv, CopyTypes
  <1>3. m \in Nat
    BY <1>1
  <1>4. \A i \in 1 .. m : (IF i \in written + 1 .. written + n
                           THEN read - piece + i - written ELSE file[i]) \in 0 .. MaxLength
    <2> TAKE i \in 1 .. m
    <2>1. CASE i \in written + 1 .. written + n
      BY <1>1, <2>1
    <2>2. CASE i \notin written + 1 .. written + n
      <3>1. i \in 1 .. Len(file)
        BY <1>1, <1>3, <2>2
      <3>2. QED
        BY <1>2, <2>2, <3>1
    <2>3. QED
      BY <2>1, <2>2
  <1>5. Copy!Extended(n) = [i \in 1 .. m |-> IF i \in written + 1 .. written + n
                                             THEN read - piece + i - written ELSE file[i]]
    BY DEF Copy!Extended
  <1>6. Copy!Extended(n) \in Seq(0 .. MaxLength) /\ Len(Copy!Extended(n)) = m
    BY <1>3, <1>4, <1>5
  <1>7. QED
    BY <1>5, <1>6

LEMMA CopyWrite == ASSUME TransfersAssumption, CopyInv, Copy!Write PROVE CopyInv'
  <1>1. CASE fPc' = "failed" /\ UNCHANGED <<file, written, short>>
    BY <1>1 DEF Copy!Write, CopyInv, CopyTypes, CopyGrows
  <1>2. ASSUME NEW n \in 0 .. piece, file' = Copy!Extended(n), written' = written + n,
               short' = (short \/ n < piece),
               fPc' = (IF Copy!IsLast THEN "done" ELSE "read")
        PROVE  CopyInv'
    <2>1. fPc = "write" /\ UNCHANGED <<source, old, read, piece>>
      BY DEF Copy!Write
    <2>2. /\ piece \in Nat /\ read \in Nat /\ written \in Nat /\ n \in Nat /\ n =< piece
          /\ piece =< read /\ written =< read - piece /\ Len(file) \in Nat /\ old \in Nat
      BY <2>1, TransfersAssumption DEF CopyInv, CopyTypes, CopyGrows
    <2>3. /\ file' \in Seq(0 .. MaxLength)
          /\ Len(file') = IF written' > Len(file) THEN written' ELSE Len(file)
          /\ \A i \in 1 .. Len(file') : file'[i] = IF i \in written + 1 .. written'
                                        THEN read - piece + i - written ELSE file[i]
      BY <1>2, <2>1, CopyExtends
    <2>4. short' \in BOOLEAN
      BY <1>2
    <2>5. CopyTypes'
      BY <1>2, <2>1, <2>2, <2>3, <2>4 DEF CopyInv, CopyTypes, Copy!IsLast
    <2>6. ASSUME ~short'
          PROVE  /\ written' = read
                 /\ Len(file') = IF old > written' THEN old ELSE written'
                 /\ \A i \in DOMAIN file' : file'[i] = (IF i =< written' THEN i ELSE 0)
      <3> ~short /\ ~(n < piece)
        BY <1>2, <2>6
      <3>1. ~short /\ n = piece
        BY <2>2
      <3>2. written = read - piece /\ written' = read
        BY <1>2, <2>1, <2>2, <3>1 DEF CopyInv, CopyGrows
      <3>3. /\ Len(file) = IF old > written THEN old ELSE written
            /\ \A i \in DOMAIN file : file[i] = (IF i =< written THEN i ELSE 0)
        BY <3>1 DEF CopyInv, CopyGrows
      <3>4. Len(file') = IF old > written' THEN old ELSE written'
        BY <2>2, <2>3, <3>2, <3>3
      <3>5. DOMAIN file' = 1 .. Len(file') /\ DOMAIN file = 1 .. Len(file)
        BY <2>3 DEF CopyInv, CopyTypes
      <3>6. ASSUME NEW i \in DOMAIN file' PROVE file'[i] = (IF i =< written' THEN i ELSE 0)
        BY <2>2, <2>3, <3>2, <3>3, <3>4, <3>5
      <3>7. QED
        BY <3>2, <3>4, <3>6
    <2>7. CopyGrows'
      BY <1>2, <2>1, <2>2, <2>3, <2>6 DEF CopyInv, CopyGrows, Copy!IsLast
    <2>8. QED
      BY <2>5, <2>7 DEF CopyInv
  <1>3. QED
    BY <1>1, <1>2 DEF Copy!Write

LEMMA CopyRead == ASSUME TransfersAssumption, CopyInv, Copy!Read PROVE CopyInv'
  <1>1. CASE fPc' = "failed" /\ UNCHANGED <<read, piece>>
    BY <1>1 DEF Copy!Read, CopyInv, CopyTypes, CopyGrows
  <1>2. CASE fPc' = "write" /\ piece' = Copy!ReadSize(source - read) /\ read' = read + piece'
    <2>1. /\ source \in Nat /\ read \in Nat /\ written \in Nat /\ read =< source
          /\ written =< read /\ MAX_READ_SIZE \in Nat /\ written =< Len(file)
      BY TransfersAssumption DEF CopyInv, CopyTypes, CopyGrows
    <2>2. fPc = "read" /\ UNCHANGED <<source, old, file, written, short>>
      BY DEF Copy!Read
    <2>3. /\ piece' \in 0 .. MAX_READ_SIZE /\ read' \in 0 .. source /\ read' - piece' = read
          /\ piece' =< read'
          /\ piece' = MAX_READ_SIZE \/ read' = source
      BY <1>2, <2>1 DEF Copy!ReadSize
    <2>4. CopyTypes'
      BY <1>2, <2>1, <2>2, <2>3 DEF CopyInv, CopyTypes
    <2>5. ~short => /\ written = read
                    /\ Len(file) = IF old > written THEN old ELSE written
                    /\ \A i \in DOMAIN file : file[i] = (IF i =< written THEN i ELSE 0)
      BY <2>2 DEF CopyInv, CopyGrows
    <2>6. CopyGrows'
      <3>1. /\ written' =< Len(file') /\ piece' =< read' /\ written' =< read' - piece'
            /\ ~short => written' = read' - piece'
        BY <2>1, <2>2, <2>3, <2>5
      <3>2. ~short' => ~short
        BY <2>2
      <3>3. fPc' = "write" /\ file' = file /\ written' = written /\ old' = old
        BY <1>2, <2>2
      <3>4. ~short' => /\ written' = read' - piece'
                       /\ Len(file') = IF old' > written' THEN old' ELSE written'
                       /\ \A i \in DOMAIN file' : file'[i] = (IF i =< written' THEN i ELSE 0)
        BY <2>5, <3>1, <3>2, <3>3
      <3>5. QED
        BY <2>2, <2>3, <3>1, <3>3, <3>4 DEF CopyGrows
    <2>7. QED
      BY <2>4, <2>6 DEF CopyInv
  <1>3. QED
    BY <1>1, <1>2 DEF Copy!Read

LEMMA CopyElse ==
    ASSUME CopyInv, Copy!Open \/ UNCHANGED Copy!vars PROVE CopyInv'
  <1>1. CASE Copy!Open
    BY <1>1 DEF Copy!Open, CopyInv, CopyTypes, CopyGrows
  <1>2. CASE UNCHANGED Copy!vars
    BY <1>2 DEF Copy!vars, CopyInv, CopyTypes, CopyGrows
  <1>3. QED
    BY <1>1, <1>2

\* FileCopy: a copy that ended without a short write is the source, whatever the sizes of the
\* source, of the piece and of the old destination (copy_file_impl).
THEOREM CopyAlwaysRight == Copy!Spec => []CopyIsRight
  <1>1. Copy!Init => CopyInv
    BY CopyInit, TransfersAssumption
  <1>2. CopyInv /\ [Copy!Next]_(Copy!vars) => CopyInv'
    BY CopyRead, CopyWrite, CopyElse, TransfersAssumption DEF Copy!Next
  <1>3. CopyInv => CopyIsRight
    BY CopyInvImplies, TransfersAssumption
  <1>4. QED
    BY <1>1, <1>2, <1>3, PTL DEF Copy!Spec

-----------------------------------------------------------------------------
(* TextStream.                                                             *)

StreamEnded == {"ok", "failed", "killed"}

\* Byte k of what comes out.
GoodByte(k, b) ==
    /\ b \in Stream!Bytes
    /\ start_n < ChunkSize /\ ~Stream!InRange(k) => b = k
    /\ end_n < length /\ end_n < ChunkSize =>
          b = IF Stream!InRange(k) THEN start_n + end_n + 2 - k ELSE k
Good(s, a) == \A i \in 1 .. Len(s) : GoodByte(a + i, s[i])

\* The bytes of the text behind the first a ones, and how many are sent at once.
Text(a, n) == [i \in 1 .. n |-> a + i]
Size(a) == IF ChunkSize < length - a THEN ChunkSize ELSE length - a

StreamTypes ==
    /\ sMark \in {"9", "10"} /\ length \in 0 .. MaxLength /\ start_n \in 0 .. MaxLength
    /\ end_n \in start_n .. MaxLength
    /\ hPc \in {"read", "receive", "notify", "fail"} \union StreamEnded
    /\ pPc \in {"off", "receive", "check", "answer"} \union StreamEnded
    /\ sent \in 0 .. length /\ current \in 0 .. length + 1
    /\ sOut \in Seq(Stream!Bytes) /\ Good(sOut, 0)

\* The two take turns.  Between two chunks nothing is under way, ...
BetweenChunks ==
    /\ toP = <<>> /\ toH = <<>>
    /\ \/ /\ pPc \in {"off", "receive"} /\ current = sent /\ Len(sOut) = sent
          /\ sent = 0 \/ sent >= ChunkSize \/ sent = length
       \/ pPc \in StreamEnded /\ sMark = "9" /\ current =< length

\* ... or one chunk is on its way there, with text_processor, ...
ChunkIsOut ==
    /\ toH = <<>> /\ current < length /\ Len(sOut) = current
    /\ current = 0 \/ current >= ChunkSize
    /\ sent = current + Size(current)
    /\ \/ pPc \in {"off", "receive"} /\ toP = <<Text(current, Size(current))>>
       \/ pPc \in {"check", "answer"} /\ toP = <<>> /\ chunk = Text(current, Size(current))

\* ... or on its way back.
ChunkIsBack ==
    /\ pPc = "receive" /\ toP = <<>> /\ toH = <<toH[1]>>
    /\ current = sent
    /\ sent >= ChunkSize \/ sent = length
    /\ toH[1] \in Seq(Stream!Bytes) /\ Good(toH[1], Len(sOut))
    /\ Len(sOut) + Len(toH[1]) = current

\* When io_handler has ended, the byte that tells the end takes the same way.
EndIsOut ==
    /\ Len(toP) =< 1 /\ Len(toH) =< 1
    /\ pPc = "off" => toP = <<>> /\ toH = <<>>
    /\ pPc = "receive" => toP = <<>> \/ (toP = << <<EndChar>> >> /\ toH = <<>>)
    /\ pPc \in {"check", "answer"} => toP = <<>> /\ toH = <<>> /\ chunk = <<EndChar>>
    /\ toH = <<>> /\ pPc \notin StreamEnded => current =< length

StreamTurns ==
    /\ hPc \in {"read", "notify", "fail"} => BetweenChunks
    /\ hPc = "receive" =>
          \/ ChunkIsOut \/ ChunkIsBack
          \/ pPc \in StreamEnded /\ toP = <<>> /\ toH = <<>> /\ current =< length
    /\ hPc \in StreamEnded => EndIsOut
    /\ hPc = "notify" => sent = length
    /\ hPc = "ok" => Len(sOut) = length
    /\ sMark = "9" => pPc # "off"
    /\ Len(chunk) =< ChunkSize

StreamInv == StreamTypes /\ StreamTurns

LEMMA StreamInvImplies == ASSUME TransfersAssumption, StreamInv PROVE StreamIsRight
  <1>1. /\ MaxLength \in Nat /\ length \in 0 .. MaxLength /\ sent \in 0 .. length
        /\ current \in 0 .. length + 1 /\ start_n \in Nat /\ end_n \in Nat
        /\ sOut \in Seq(Stream!Bytes) /\ Good(sOut, 0)
    BY TransfersAssumption DEF StreamInv, StreamTypes
  <1>2. DOMAIN sOut = 1 .. Len(sOut) /\ Len(sOut) \in Nat
    BY <1>1
  <1>3. \A k \in DOMAIN sOut : GoodByte(k, sOut[k])
    BY <1>1, <1>2 DEF Good
  <1>4. Len(toP) =< 1 /\ Len(toH) =< 1 /\ Len(chunk) =< ChunkSize
    <2>1. BetweenChunks \/ ChunkIsOut \/ ChunkIsBack \/ EndIsOut \/ (toP = <<>> /\ toH = <<>>)
      BY DEF StreamInv, StreamTypes, StreamTurns
    <2>2. Len(<<>>) = 0 /\ \A x : Len(<<x>>) = 1
      OBVIOUS
    <2>3. BetweenChunks => Len(toP) =< 1 /\ Len(toH) =< 1
      BY <2>2 DEF BetweenChunks
    <2>4. ASSUME ChunkIsOut PROVE Len(toP) =< 1 /\ Len(toH) =< 1
      <3>1. toH = <<>> /\ (toP = <<>> \/ toP = <<Text(current, Size(current))>>)
        BY <2>4 DEF ChunkIsOut
      <3>2. CASE toP = <<>>
        BY <2>2, <3>1, <3>2
      <3>3. CASE toP = <<Text(current, Size(current))>>
        <4>1. Len(toP) = 1
          BY <3>3
        <4>2. QED
          BY <2>2, <3>1, <4>1
      <3>4. QED
        BY <3>1, <3>2, <3>3
    <2>5. ASSUME ChunkIsBack PROVE Len(toP) =< 1 /\ Len(toH) =< 1
      <3>1. toP = <<>> /\ Len(toH) = 1
        BY <2>5 DEF ChunkIsBack
      <3>2. QED
        BY <2>2, <3>1
    <2>6. EndIsOut => Len(toP) =< 1 /\ Len(toH) =< 1
      BY DEF EndIsOut
    <2>7. QED
      BY <2>1, <2>2, <2>3, <2>4, <2>5, <2>6 DEF StreamInv, StreamTurns
  <1>5. Stream!TypeOK
    BY <1>1, <1>3, <1>4
    DEF StreamInv, StreamTypes, GoodByte, Stream!TypeOK, Stream!Ended, StreamEnded
  <1>6. Stream!OutsideIsUntouched
    BY <1>3 DEF GoodByte, Stream!OutsideIsUntouched
  <1>7. Stream!RangeIsReversed
    <2> SUFFICES ASSUME hPc = "ok", end_n < Stream!Min(length, ChunkSize)
                 PROVE  sOut = [k \in 1 .. length |-> IF Stream!InRange(k)
                                                      THEN start_n + end_n + 2 - k ELSE k]
      BY DEF Stream!RangeIsReversed
    <2>1. Len(sOut) = length
      BY DEF StreamInv, StreamTurns
    <2>2. end_n < length /\ end_n < ChunkSize
      BY <1>1, TransfersAssumption DEF Stream!Min
    <2>3. \A k \in 1 .. length :
             sOut[k] = IF Stream!InRange(k) THEN start_n + end_n + 2 - k ELSE k
      BY <1>2, <1>3, <2>1, <2>2 DEF GoodByte
    <2>4. QED
      BY <1>1, <2>1, <2>3
  <1>8. QED
    BY <1>5, <1>6, <1>7 DEF StreamIsRight

LEMMA StreamInit == ASSUME TransfersAssumption, Stream!Init PROVE StreamInv
  <1>1. /\ length \in 0 .. MaxLength /\ start_n \in 0 .. MaxLength /\ end_n \in start_n .. MaxLength
        /\ sMark \in {"9", "10"} /\ hPc = "read" /\ sent = 0 /\ sOut = <<>>
        /\ pPc = (IF sMark = "9" THEN "receive" ELSE "off")
        /\ current = 0 /\ chunk = <<>> /\ toP = <<>> /\ toH = <<>>
    BY DEF Stream!Init
  <1>2. StreamTypes
    BY <1>1, TransfersAssumption DEF StreamTypes, Good
  <1>3. StreamTurns
    BY <1>1, TransfersAssumption DEF StreamTurns, BetweenChunks, StreamEnded
  <1>4. QED
    BY <1>2, <1>3 DEF StreamInv

\* The bytes of a chunk of n bytes between l and r change places.
LEMMA PartIsReversed ==
    ASSUME TransfersAssumption, StreamTypes, NEW n \in Nat, current + n =< length,
           chunk = [i \in 1 .. n |-> current + i], NEW l \in Nat, NEW r \in Int
    PROVE  /\ Stream!ReverseSubstring(chunk, l, r) \in [1 .. n -> Stream!Bytes]
           /\ \A i \in 1 .. n : Stream!ReverseSubstring(chunk, l, r)[i] =
                 IF i - 1 \notin l .. r THEN current + i
                 ELSE IF l + r - i + 1 < n THEN current + (l + r - i + 2) ELSE Junk
  <1> DEFINE Byte(i) == IF i - 1 \notin l .. r THEN current + i
                        ELSE IF l + r - i + 1 < n THEN current + (l + r - i + 2) ELSE Junk
  <1>1. DOMAIN chunk = 1 .. n /\ Len(chunk) = n /\ \A i \in 1 .. n : chunk[i] = current + i
    OBVIOUS
  <1>2. \A i \in 1 .. n : current + i \in Stream!Bytes
    BY TransfersAssumption DEF StreamTypes, Stream!Bytes
  <1>3. Junk \in Stream!Bytes
    BY DEF Stream!Bytes
  <1>4. \A i \in 1 .. n : i - 1 \in l .. r /\ l + r - i + 1 < n => l + r - i + 2 \in 1 .. n
    OBVIOUS
  <1>5. Stream!ReverseSubstring(chunk, l, r) = [i \in 1 .. n |-> Byte(i)]
    BY <1>1, <1>4 DEF Stream!ReverseSubstring
  <1>6. \A i \in 1 .. n : Byte(i) \in Stream!Bytes
    BY <1>2, <1>3, <1>4
  <1> HIDE DEF Byte
  <1>7. Stream!ReverseSubstring(chunk, l, r) \in [1 .. n -> Stream!Bytes]
    BY <1>5, <1>6
  <1>8. \A i \in 1 .. n : Stream!ReverseSubstring(chunk, l, r)[i] = Byte(i)
    BY <1>5
  <1>9. QED
    BY <1>7, <1>8 DEF Byte

\* The part of a chunk that lies in the range is reversed, as long as the range starts in the
\* first chunk; the right end may be beyond the chunk otherwise, and Junk comes in.
LEMMA ChunkIsReversed ==
    ASSUME TransfersAssumption, StreamTypes, current < length,
           current = 0 \/ current >= ChunkSize, chunk = Text(current, Size(current))
    PROVE  /\ Stream!Reversed \in Seq(Stream!Bytes) /\ Len(Stream!Reversed) = Size(current)
           /\ Good(Stream!Reversed, current)
  <1> DEFINE n == Size(current)
  <1>1. /\ MaxLength \in Nat /\ ChunkSize \in Nat \ {0} /\ length \in Nat /\ length =< MaxLength
        /\ start_n \in Nat /\ end_n \in Nat /\ start_n =< end_n /\ current \in Nat
    BY TransfersAssumption DEF StreamTypes
  <1>2. /\ n \in Nat \ {0} /\ n =< ChunkSize /\ current + n =< length
        /\ current = 0 => n = IF ChunkSize < length THEN ChunkSize ELSE length
    BY <1>1 DEF Size
  <1> HIDE DEF n
  <1>3. chunk = [i \in 1 .. n |-> current + i] /\ Len(chunk) = n
    BY <1>1, <1>2 DEF Text, n
  <1>4. ASSUME NEW s \in [1 .. n -> Stream!Bytes], \A i \in 1 .. n : GoodByte(current + i, s[i])
        PROVE  s \in Seq(Stream!Bytes) /\ Len(s) = n /\ Good(s, current)
    BY <1>2, <1>4 DEF Good
  <1> DEFINE R(l, r) == Stream!ReverseSubstring(chunk, l, r)
  <1>5. \A l \in Nat, r \in Int :
           /\ R(l, r) \in [1 .. n -> Stream!Bytes]
           /\ \A i \in 1 .. n : R(l, r)[i] =
                 IF i - 1 \notin l .. r THEN current + i
                 ELSE IF l + r - i + 1 < n THEN current + (l + r - i + 2) ELSE Junk
    BY <1>2, <1>3, PartIsReversed
  <1>6. \A i \in 1 .. n : current + i \in Stream!Bytes
    BY <1>1, <1>2 DEF Stream!Bytes
  <1> HIDE DEF R
  <1>7. CASE Stream!FirstPart
    <2> DEFINE l == start_n - current
               r == IF end_n < current + n - 1 THEN end_n ELSE current + n - 1
    <2>1. Stream!Reversed = R(l, r)
      BY <1>3, <1>7 DEF Stream!Reversed, Stream!Min, R
    <2>2. current =< start_n /\ start_n < current + n /\ l \in Nat /\ r \in Int
      BY <1>1, <1>2, <1>3, <1>7 DEF Stream!FirstPart
    <2>3. ASSUME NEW i \in 1 .. n PROVE GoodByte(current + i, R(l, r)[i])
      <3>1. start_n < ChunkSize =>
               /\ current = 0
               /\ i - 1 \in l .. r => Stream!InRange(current + i)
        BY <1>1, <1>2, <2>2 DEF Stream!InRange
      <3>2. end_n < length /\ end_n < ChunkSize =>
               /\ start_n < ChunkSize /\ current = 0 /\ l = start_n /\ r = end_n
               /\ Stream!InRange(current + i) <=> i - 1 \in l .. r
               /\ i - 1 \in l .. r => l + r - i + 1 < n
        BY <1>1, <1>2, <2>2 DEF Stream!InRange
      <3>3. R(l, r)[i] = IF i - 1 \notin l .. r THEN current + i
                         ELSE IF l + r - i + 1 < n THEN current + (l + r - i + 2) ELSE Junk
        BY <1>5, <2>2
      <3>4. R(l, r) \in [1 .. n -> Stream!Bytes] /\ R(l, r)[i] \in Stream!Bytes
        <4>1. R(l, r) \in [1 .. n -> Stream!Bytes]
          BY <1>5, <2>2
        <4>2. QED
          BY <4>1
      <3> HIDE DEF l, r
      <3>5. start_n < ChunkSize /\ ~Stream!InRange(current + i) => R(l, r)[i] = current + i
        BY <3>1, <3>3
      <3>6. end_n < length /\ end_n < ChunkSize =>
               R(l, r)[i] = IF Stream!InRange(current + i)
                            THEN start_n + end_n + 2 - (current + i) ELSE current + i
        <4>1. CASE end_n < length /\ end_n < ChunkSize /\ i - 1 \in l .. r
          <5>1. R(l, r)[i] = start_n + end_n - i + 2
            BY <1>1, <1>2, <3>2, <3>3, <4>1
          <5>2. QED
            BY <1>1, <1>2, <3>2, <4>1, <5>1
        <4>2. CASE end_n < length /\ end_n < ChunkSize /\ i - 1 \notin l .. r
          BY <3>2, <3>3, <4>2
        <4>3. QED
          BY <4>1, <4>2
      <3>7. QED
        BY <3>4, <3>5, <3>6 DEF GoodByte
    <2>4. QED
      BY <1>4, <1>5, <2>1, <2>2, <2>3 DEF n
  <1>8. CASE ~Stream!FirstPart /\ Stream!LastPart
    <2> DEFINE l == (IF start_n < current THEN current ELSE start_n) - current
               r == end_n - current
    <2>1. Stream!Reversed = R(l, r)
      BY <1>8 DEF Stream!Reversed, Stream!Max, R
    <2>2. /\ current =< end_n /\ end_n < current + n /\ l \in Nat /\ r \in Int
          /\ ~(current =< start_n /\ start_n < current + n)
      BY <1>1, <1>2, <1>3, <1>8 DEF Stream!FirstPart, Stream!LastPart
    <2>3. ASSUME NEW i \in 1 .. n PROVE GoodByte(current + i, R(l, r)[i])
      <3>1. i - 1 \in l .. r => Stream!InRange(current + i)
        BY <1>1, <1>2, <2>2 DEF Stream!InRange
      <3>2. ~(end_n < length /\ end_n < ChunkSize)
        BY <1>1, <1>2, <2>2
      <3>3. R(l, r)[i] = IF i - 1 \notin l .. r THEN current + i
                         ELSE IF l + r - i + 1 < n THEN current + (l + r - i + 2) ELSE Junk
        BY <1>5, <2>2
      <3>4. R(l, r) \in [1 .. n -> Stream!Bytes] /\ R(l, r)[i] \in Stream!Bytes
        <4>1. R(l, r) \in [1 .. n -> Stream!Bytes]
          BY <1>5, <2>2
        <4>2. QED
          BY <4>1
      <3> HIDE DEF l, r
      <3>5. QED
        BY <3>1, <3>2, <3>3, <3>4 DEF GoodByte
    <2>4. QED
      BY <1>4, <1>5, <2>1, <2>2, <2>3 DEF n
  <1>9. CASE ~Stream!FirstPart /\ ~Stream!LastPart
    <2>1. Stream!Reversed = chunk
      BY <1>9 DEF Stream!Reversed
    <2>2. ASSUME NEW i \in 1 .. n PROVE GoodByte(current + i, chunk[i])
      <3>1. end_n < length /\ end_n < ChunkSize => ~Stream!InRange(current + i)
        BY <1>1, <1>2, <1>3, <1>9 DEF Stream!InRange, Stream!FirstPart, Stream!LastPart
      <3>2. chunk[i] = current + i /\ chunk[i] \in Stream!Bytes
        BY <1>3, <1>6
      <3>3. QED
        BY <3>1, <3>2 DEF GoodByte
    <2>3. chunk \in [1 .. n -> Stream!Bytes]
      BY <1>3, <1>6
    <2>4. QED
      BY <1>4, <2>1, <2>2, <2>3 DEF n
  <1>10. QED
    BY <1>7, <1>8, <1>9 DEF n

\* io_handler and text_processor start, or fail to.
LEMMA StreamStarts ==
    ASSUME TransfersAssumption, StreamInv,
           Stream!OpenFails \/ Stream!Start \/ UNCHANGED Stream!vars
    PROVE  StreamInv'
  <1> USE DEF StreamInv, StreamTypes, StreamTurns, BetweenChunks, ChunkIsOut, ChunkIsBack, EndIsOut,
              StreamEnded, Good, GoodByte, Stream!InRange, Text, Size, Stream!Bytes
  <1>1. CASE Stream!OpenFails
    BY <1>1 DEF Stream!OpenFails, Stream!given, Stream!processor
  <1>2. CASE Stream!Start
    BY <1>2 DEF Stream!Start, Stream!given, Stream!handler
  <1>3. CASE UNCHANGED Stream!vars
    BY <1>3 DEF Stream!vars, Stream!given, Stream!handler, Stream!processor
  <1>4. QED
    BY <1>1, <1>2, <1>3

LEMMA StreamReadAndSend ==
    ASSUME TransfersAssumption, StreamInv, Stream!ReadAndSend PROVE StreamInv'
  <1>1. /\ MaxLength \in Nat /\ ChunkSize \in Nat \ {0} /\ length \in Nat /\ sent \in Nat
        /\ sent =< length
    BY TransfersAssumption DEF StreamInv, StreamTypes
  <1>2. /\ hPc = "read" /\ BetweenChunks
        /\ UNCHANGED <<sMark, length, start_n, end_n>>
        /\ UNCHANGED <<sOut, pPc, current, chunk, toH>>
    BY DEF Stream!ReadAndSend, Stream!given, Stream!processor, StreamInv, StreamTurns
  <1>3. /\ hPc' \in {"notify", "killed", "receive"} /\ sent' \in 0 .. length
    BY <1>1 DEF Stream!ReadAndSend, Stream!Min
  <1>4. StreamTypes'
    BY <1>2, <1>3 DEF StreamInv, StreamTypes, StreamEnded, Good, GoodByte,
                           Stream!InRange, Stream!Bytes
  <1>5. CASE sent = length
    BY <1>2, <1>4, <1>5 DEF Stream!ReadAndSend, StreamInv, StreamTurns, BetweenChunks, StreamEnded
  <1>6. CASE sent # length /\ Stream!Gone(pPc)
    <2>1. hPc' = "killed" /\ pPc \in StreamEnded /\ toP' = <<>>
      BY <1>2, <1>6 DEF Stream!ReadAndSend, Stream!Gone, Stream!Ended, BetweenChunks, StreamEnded
    <2>2. EndIsOut'
      BY <1>2, <2>1 DEF BetweenChunks, EndIsOut, StreamEnded
    <2>3. QED
      BY <1>2, <1>4, <2>1, <2>2 DEF StreamInv, StreamTurns, StreamEnded
  <1>7. CASE sent # length /\ ~Stream!Gone(pPc)
    <2>1. /\ hPc' = "receive" /\ sent' = sent + Size(sent)
          /\ toP' = <<Text(sent, Size(sent))>>
      BY <1>1, <1>2, <1>7
      DEF Stream!ReadAndSend, Stream!Min, Size, Text, BetweenChunks
    <2>2. /\ pPc \in {"off", "receive"} /\ current = sent /\ Len(sOut) = sent /\ toH = <<>>
          /\ sent = 0 \/ sent >= ChunkSize
      BY <1>2, <1>7 DEF BetweenChunks, Stream!Gone, Stream!Ended, StreamEnded
    <2>3. ChunkIsOut'
      BY <1>1, <1>2, <1>7, <2>1, <2>2 DEF ChunkIsOut, Size, Text
    <2>4. QED
      BY <1>2, <1>4, <2>1, <2>3 DEF StreamInv, StreamTurns, StreamEnded
  <1>8. QED
    BY <1>5, <1>6, <1>7

\* What comes back goes behind what was written before.
LEMMA StreamReceiveAndWrite ==
    ASSUME TransfersAssumption, StreamInv, Stream!ReceiveAndWrite PROVE StreamInv'
  <1>1. /\ MaxLength \in Nat /\ ChunkSize \in Nat \ {0} /\ length \in Nat /\ sent \in Nat
        /\ sOut \in Seq(Stream!Bytes) /\ Good(sOut, 0)
    BY TransfersAssumption DEF StreamInv, StreamTypes
  <1>2. /\ hPc = "receive" /\ hPc' = "read" /\ UNCHANGED <<sMark, length, start_n, end_n>>
        /\ UNCHANGED <<sent, pPc, current, chunk, toP>>
    BY DEF Stream!ReceiveAndWrite, Stream!given, Stream!processor
  <1>3. CASE toH # <<>> /\ sOut' = sOut \o Head(toH) /\ toH' = Tail(toH)
    <2>1. ChunkIsBack
      BY <1>2, <1>3 DEF StreamInv, StreamTurns, ChunkIsOut
    <2> DEFINE s == toH[1]
    <2>2. /\ s \in Seq(Stream!Bytes) /\ Good(s, Len(sOut)) /\ Len(sOut) + Len(s) = current
          /\ toH = <<s>> /\ toP = <<>> /\ pPc = "receive" /\ current = sent
          /\ sent >= ChunkSize \/ sent = length
      BY <2>1 DEF ChunkIsBack
    <2>3. Head(toH) = s
      BY <1>3
    <2> HIDE DEF s
    <2>4. /\ sOut' \in Seq(Stream!Bytes) /\ Len(sOut') = Len(sOut) + Len(s)
          /\ \A k \in 1 .. Len(sOut') :
                sOut'[k] = IF k =< Len(sOut) THEN sOut[k] ELSE s[k - Len(sOut)]
      BY <1>1, <1>3, <2>2, <2>3
    <2>5. ASSUME NEW k \in 1 .. Len(sOut') PROVE GoodByte(k, sOut'[k])
      <3>1. Len(sOut) \in Nat /\ Len(s) \in Nat
        BY <1>1, <2>2
      <3>2. CASE k =< Len(sOut)
        <4>1. k \in 1 .. Len(sOut) /\ 0 + k = k /\ sOut'[k] = sOut[k]
          BY <2>4, <3>1, <3>2
        <4>2. GoodByte(0 + k, sOut[k])
          BY <1>1, <4>1 DEF Good
        <4>3. QED
          BY <4>1, <4>2
      <3>3. CASE ~(k =< Len(sOut))
        <4>1. /\ k - Len(sOut) \in 1 .. Len(s) /\ Len(sOut) + (k - Len(sOut)) = k
              /\ sOut'[k] = s[k - Len(sOut)]
          BY <2>4, <3>1, <3>3
        <4>2. GoodByte(Len(sOut) + (k - Len(sOut)), s[k - Len(sOut)])
          BY <2>2, <4>1 DEF Good
        <4>3. QED
          BY <4>1, <4>2
      <3>4. QED
        BY <3>2, <3>3
    <2>6. Good(sOut, 0)'
      <3>1. \A k \in 1 .. Len(sOut') : 0 + k = k
        BY <2>4
      <3>2. QED
        BY <1>2, <2>5, <3>1 DEF Good, GoodByte, Stream!InRange, Stream!Bytes
    <2>7. toH' = <<>>
      BY <1>3, <2>2
    <2>8. StreamTypes'
      BY <1>2, <2>4, <2>6 DEF StreamInv, StreamTypes, Stream!Bytes
    <2>9. BetweenChunks'
      BY <1>2, <2>2, <2>4, <2>7 DEF BetweenChunks
    <2>10. QED
      BY <1>2, <2>8, <2>9 DEF StreamInv, StreamTurns, StreamEnded
  <1>4. CASE toH = <<>> /\ Stream!Gone(pPc) /\ UNCHANGED <<sOut, toH>>
    <2>1. pPc \in StreamEnded /\ sMark = "9" /\ toP = <<>> /\ current =< length
      BY <1>2, <1>4 DEF StreamInv, StreamTurns, ChunkIsOut, ChunkIsBack, Stream!Gone, Stream!Ended,
                        StreamEnded
    <2>2. StreamTypes'
      BY <1>2, <1>4
      DEF StreamInv, StreamTypes, Good, GoodByte, Stream!InRange, Stream!Bytes
    <2>3. BetweenChunks'
      BY <1>2, <1>4, <2>1 DEF BetweenChunks
    <2>4. QED
      BY <1>2, <2>2, <2>3 DEF StreamInv, StreamTurns, StreamEnded
  <1>5. QED
    BY <1>3, <1>4 DEF Stream!ReceiveAndWrite

LEMMA StreamNotify ==
    ASSUME TransfersAssumption, StreamInv, Stream!NotifyEndOfCommunication PROVE StreamInv'
  <1>1. /\ hPc \in {"notify", "fail"} /\ BetweenChunks
        /\ UNCHANGED <<sMark, length, start_n, end_n>>
        /\ UNCHANGED <<sent, sOut, pPc, current, chunk, toH>>
        /\ hPc' = IF Stream!Gone(pPc) THEN "killed" ELSE IF hPc = "notify" THEN "ok" ELSE "failed"
        /\ toP' = IF Stream!Gone(pPc) THEN toP
                  ELSE IF pPc = "off" THEN <<>> ELSE Append(toP, <<EndChar>>)
    BY DEF Stream!NotifyEndOfCommunication, Stream!given, Stream!processor, StreamInv, StreamTurns
  <1>2. StreamTypes'
    BY <1>1 DEF StreamInv, StreamTypes, StreamEnded, Good, GoodByte, Stream!InRange, Stream!Bytes
  <1>3. toP = <<>> /\ toH = <<>> /\ Append(<<>>, <<EndChar>>) = << <<EndChar>> >>
    BY <1>1 DEF BetweenChunks
  <1>4. /\ pPc \in {"off", "receive"} => current = sent /\ Len(sOut) = sent
        /\ pPc \notin {"off", "receive"} => pPc \in StreamEnded /\ Stream!Gone(pPc)
    BY <1>1 DEF BetweenChunks, Stream!Gone, Stream!Ended, StreamEnded
  <1>5. current =< length
    BY <1>1, <1>4, TransfersAssumption DEF BetweenChunks, StreamInv, StreamTypes
  <1>6. EndIsOut'
    BY <1>1, <1>3, <1>4, <1>5 DEF EndIsOut, StreamEnded
  <1>7. hPc' = "ok" => Len(sOut') = length'
    BY <1>1, <1>4 DEF StreamInv, StreamTurns, StreamEnded
  <1>8. QED
    BY <1>1, <1>2, <1>6, <1>7 DEF StreamInv, StreamTurns, StreamEnded

\* What the actions of text_processor have in common.
LEMMA StreamKept ==
    ASSUME StreamInv, UNCHANGED <<Stream!given, Stream!handler>>,
           pPc' \in {"receive", "check", "answer"} \union StreamEnded, current' \in 0 .. length + 1
    PROVE  /\ StreamTypes' /\ (hPc = "ok" => Len(sOut') = length')
           /\ hPc = "notify" => sent' = length'
  BY DEF StreamInv, StreamTypes, StreamTurns, StreamEnded, Good, GoodByte, Stream!InRange,
         Stream!Bytes, Stream!given, Stream!handler

LEMMA StreamReceive ==
    ASSUME TransfersAssumption, StreamInv, Stream!Receive PROVE StreamInv'
  <1>1. /\ MaxLength \in Nat /\ ChunkSize \in Nat \ {0} /\ length \in Nat /\ current \in Nat
    BY TransfersAssumption DEF StreamInv, StreamTypes
  <1>2. /\ pPc = "receive" /\ UNCHANGED <<Stream!given, Stream!handler, current, toH>>
        /\ UNCHANGED <<sMark, length, start_n, end_n, hPc, sent, sOut>>
    BY DEF Stream!Receive, Stream!given, Stream!handler
  <1>3. CASE toP # <<>> /\ chunk' = Head(toP) /\ toP' = Tail(toP) /\ pPc' = "check"
    <2>1. /\ StreamTypes' /\ (hPc = "ok" => Len(sOut') = length')
          /\ hPc = "notify" => sent' = length'
      BY <1>2, <1>3, StreamKept DEF StreamInv, StreamTypes
    <2>2. CASE hPc = "receive"
      <3>1. ChunkIsOut /\ toP = <<Text(current, Size(current))>>
        BY <1>2, <1>3, <2>2 DEF StreamInv, StreamTurns, ChunkIsOut, ChunkIsBack, StreamEnded
      <3>2. toP' = <<>> /\ chunk' = Text(current, Size(current))
        BY <1>3, <3>1
      <3>3. Size(current) \in Nat /\ Size(current) =< ChunkSize /\ Len(chunk') = Size(current)
        BY <1>1, <3>1, <3>2 DEF Size, ChunkIsOut, Text
      <3>4. ChunkIsOut'
        BY <1>2, <1>3, <3>1, <3>2 DEF ChunkIsOut, Size, Text
      <3>5. QED
        BY <1>2, <1>3, <2>1, <2>2, <3>3, <3>4 DEF StreamInv, StreamTurns, StreamEnded
    <2>3. CASE hPc \in StreamEnded
      <3>1. EndIsOut /\ toP = << <<EndChar>> >> /\ toH = <<>>
        BY <1>2, <1>3, <2>3 DEF StreamInv, StreamTurns, EndIsOut
      <3>2. toP' = <<>> /\ chunk' = <<EndChar>> /\ Len(chunk') = 1 /\ Len(toP') = 0
        BY <1>3, <3>1
      <3>3. EndIsOut'
        BY <1>2, <1>3, <3>1, <3>2 DEF EndIsOut, StreamEnded
      <3>4. Len(chunk') =< ChunkSize
        BY <1>1, <3>2
      <3>5. QED
        BY <1>2, <1>3, <2>1, <2>3, <3>3, <3>4 DEF StreamInv, StreamTurns, StreamEnded
    <2>4. QED
      BY <1>3, <2>2, <2>3 DEF StreamInv, StreamTypes, StreamTurns, BetweenChunks
  <1>4. CASE toP = <<>> /\ Stream!Gone(hPc) /\ pPc' = "ok" /\ UNCHANGED <<chunk, toP>>
    <2>1. /\ StreamTypes' /\ (hPc = "ok" => Len(sOut') = length')
          /\ hPc = "notify" => sent' = length'
      BY <1>2, <1>4, StreamKept DEF StreamInv, StreamTypes, StreamEnded
    <2>2. hPc \in StreamEnded
      BY <1>4 DEF Stream!Gone, Stream!Ended, StreamEnded
    <2>3. EndIsOut'
      BY <1>2, <1>4, <2>2 DEF StreamInv, StreamTurns, EndIsOut, StreamEnded
    <2>4. QED
      BY <1>2, <1>4, <2>1, <2>2, <2>3 DEF StreamInv, StreamTurns, StreamEnded
  <1>5. QED
    BY <1>3, <1>4 DEF Stream!Receive

LEMMA StreamCheckEnd ==
    ASSUME TransfersAssumption, StreamInv, Stream!CheckEnd PROVE StreamInv'
  <1>1. /\ pPc = "check" /\ pPc' \in {"answer", "ok"}
        /\ UNCHANGED <<Stream!given, Stream!handler, current, chunk, toP, toH>>
        /\ UNCHANGED <<sMark, length, start_n, end_n, hPc, sent, sOut>>
    BY DEF Stream!CheckEnd, Stream!given, Stream!handler
  <1>2. /\ StreamTypes' /\ (hPc = "ok" => Len(sOut') = length')
        /\ hPc = "notify" => sent' = length'
    BY <1>1, StreamKept DEF StreamInv, StreamTypes, StreamEnded
  <1>3. CASE hPc = "receive"
    <2>1. /\ toP = <<>> /\ toH = <<>> /\ current =< length /\ ChunkIsOut
          /\ chunk = Text(current, Size(current))
      BY <1>1, <1>3, TransfersAssumption
      DEF StreamInv, StreamTypes, StreamTurns, ChunkIsOut, ChunkIsBack, StreamEnded
    <2>2. pPc' = "answer" => ChunkIsOut'
      BY <1>1, <2>1 DEF ChunkIsOut, Size, Text
    <2>3. QED
      BY <1>1, <1>2, <1>3, <2>1, <2>2 DEF StreamInv, StreamTurns, StreamEnded
  <1>4. CASE hPc \in StreamEnded
    <2>1. EndIsOut'
      BY <1>1, <1>4 DEF StreamInv, StreamTurns, EndIsOut, StreamEnded
    <2>2. QED
      BY <1>1, <1>2, <1>4, <2>1 DEF StreamInv, StreamTurns, StreamEnded
  <1>5. QED
    BY <1>1, <1>3, <1>4 DEF StreamInv, StreamTypes, StreamTurns, BetweenChunks, StreamEnded

LEMMA StreamAnswer ==
    ASSUME TransfersAssumption, StreamInv, Stream!Answer PROVE StreamInv'
  <1>1. /\ pPc = "answer" /\ pPc' \in {"killed", "receive"}
        /\ UNCHANGED <<Stream!given, Stream!handler, chunk, toP>>
        /\ UNCHANGED <<sMark, length, start_n, end_n, hPc, sent, sOut>>
        /\ \/ pPc' = "killed" /\ UNCHANGED <<current, toH>>
           \/ /\ pPc' = "receive" /\ toH' = Append(toH, Stream!Reversed)
              /\ current' = current + Len(chunk)
    BY DEF Stream!Answer, Stream!given, Stream!handler
  <1>2. /\ MaxLength \in Nat /\ ChunkSize \in Nat \ {0} /\ length \in Nat /\ current \in Nat
    BY TransfersAssumption DEF StreamInv, StreamTypes
  <1>3. CASE hPc = "receive"
    <2>1. /\ toP = <<>> /\ toH = <<>> /\ current < length /\ ChunkIsOut
          /\ chunk = Text(current, Size(current)) /\ sent = current + Size(current)
          /\ current = 0 \/ current >= ChunkSize
          /\ Len(sOut) = current
      BY <1>1, <1>3 DEF StreamInv, StreamTurns, ChunkIsOut, ChunkIsBack, StreamEnded
    <2>2. /\ Size(current) \in Nat /\ Len(chunk) = Size(current) /\ sent \in Nat /\ sent =< length
          /\ sent >= ChunkSize \/ sent = length
      BY <1>2, <2>1 DEF Size, Text
    <2>3. CASE pPc' = "killed" /\ UNCHANGED <<current, toH>>
      <3>1. StreamTypes' /\ (hPc = "ok" => Len(sOut') = length')
               /\ (hPc = "notify" => sent' = length')
        BY <1>1, <2>3, StreamKept DEF StreamInv, StreamTypes, StreamEnded
      <3>2. QED
        BY <1>1, <1>2, <1>3, <2>1, <2>3, <3>1 DEF StreamInv, StreamTurns, StreamEnded
    <2>4. CASE pPc' = "receive" /\ toH' = Append(toH, Stream!Reversed)
                 /\ current' = current + Len(chunk)
      <3>1. current' = sent /\ current' \in 0 .. length + 1
        BY <1>2, <2>1, <2>2, <2>4
      <3>2. StreamTypes' /\ (hPc = "ok" => Len(sOut') = length')
               /\ (hPc = "notify" => sent' = length')
        BY <1>1, <2>4, <3>1, StreamKept
      <3>3. PICK s, a : s = Stream!Reversed /\ a = current
        OBVIOUS
      <3>4. s \in Seq(Stream!Bytes) /\ Len(s) = Size(current) /\ Good(s, a)
        BY <2>1, <3>3, ChunkIsReversed DEF StreamInv
      <3>5. Good(s, a)'
        BY <1>1, <3>4 DEF Good, GoodByte, Stream!InRange, Stream!Bytes
      <3>6. ChunkIsBack'
        <4>1. toH' = <<s>> /\ toH'[1] = s /\ Len(sOut') = a
          BY <1>1, <2>1, <2>4, <3>3
        <4>2. Good(toH[1], Len(sOut))'
          BY <3>5, <4>1 DEF Good
        <4>3. (toH[1] \in Seq(Stream!Bytes))' /\ Len(sOut') + Len(toH'[1]) = current'
          BY <2>1, <2>2, <3>1, <3>3, <3>4, <4>1 DEF Stream!Bytes
        <4>4. QED
          BY <1>1, <2>1, <2>2, <2>4, <3>1, <4>1, <4>2, <4>3 DEF ChunkIsBack
      <3>7. QED
        BY <1>1, <1>3, <3>2, <3>6 DEF StreamInv, StreamTurns, StreamEnded
    <2>5. QED
      BY <1>1, <2>3, <2>4
  <1>4. CASE hPc \in StreamEnded
    <2>1. toP = <<>> /\ toH = <<>> /\ chunk = <<EndChar>> /\ current =< length /\ Len(chunk) = 1
      BY <1>1, <1>4 DEF StreamInv, StreamTurns, EndIsOut, StreamEnded
    <2>2. current' \in 0 .. length + 1 /\ (pPc' = "killed" \/ toH' # <<>>)
      BY <1>1, <1>2, <2>1
    <2>3. Len(toH') =< 1 /\ Len(toP') =< 1
      <3>1. toP' = <<>> /\ (toH' = <<>> \/ toH' = <<Stream!Reversed>>)
        BY <1>1, <2>1
      <3>2. CASE toH' = <<>>
        BY <3>1, <3>2
      <3>3. CASE toH' = <<Stream!Reversed>>
        <4>1. Len(toH') = 1 /\ Len(toP') = 0
          BY <3>1, <3>3
        <4>2. QED
          BY <4>1
      <3>4. QED
        BY <3>1, <3>2, <3>3
    <2>4. /\ StreamTypes' /\ (hPc = "ok" => Len(sOut') = length')
          /\ hPc = "notify" => sent' = length'
      BY <1>1, <2>2, StreamKept DEF StreamEnded
    <2>5. EndIsOut'
      BY <1>1, <2>1, <2>2, <2>3 DEF EndIsOut, StreamEnded
    <2>6. QED
      BY <1>1, <1>4, <2>4, <2>5 DEF StreamInv, StreamTurns, StreamEnded
  <1>5. QED
    BY <1>1, <1>3, <1>4 DEF StreamInv, StreamTypes, StreamTurns, BetweenChunks, StreamEnded

\* TextStream: what io_handler writes is the text with its range reversed, for any length, size
\* of the chunks and range in the first chunk; and nothing outside of the range is changed if
\* the range starts there (reverse_substring, and the loops of io_handler and text_processor).
THEOREM StreamAlwaysRight == Stream!Spec => []StreamIsRight
  <1>1. Stream!Init => StreamInv
    BY StreamInit, TransfersAssumption
  <1>2. StreamInv /\ [Stream!Next]_(Stream!vars) => StreamInv'
    BY StreamStarts, StreamReadAndSend, StreamReceiveAndWrite, StreamNotify, StreamReceive,
       StreamCheckEnd, StreamAnswer, TransfersAssumption
    DEF Stream!Next, Stream!Handler, Stream!Processor
  <1>3. StreamInv => StreamIsRight
    BY StreamInvImplies, TransfersAssumption
  <1>4. QED
    BY <1>1, <1>2, <1>3, PTL DEF Stream!Spec

-----------------------------------------------------------------------------
(* The exercises together.                                                 *)

\* What the processes over shared memory promise, for any numbers of writers, readers, cells
\* and numbers (os_hw6, os_hw7, os_hw8).
THEOREM SharedMemoryAlwaysRight == Cell!Spec /\ Ring!Spec => []SharedMemoryIsRight
  BY CellAlwaysRight, RingAlwaysRight, PTL DEF SharedMemoryIsRight

\* What arrives is what was sent, for any sizes of the texts, chunks and files, and any
\* number of clients (os_ihw1 marks 9 and 10, os_hw9, os_hw11, os_hw4).
THEOREM TransfersAlwaysRight ==
    Stream!Spec /\ Talk!Spec /\ Broadcast!Spec /\ Copy!Spec => []TransfersAreRight
  BY StreamAlwaysRight, TalkAlwaysRight, BroadcastAlwaysRight, CopyAlwaysRight, PTL
  DEF TransfersAreRight
=============================================================================
