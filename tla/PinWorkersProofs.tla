--------------------------- MODULE PinWorkersProofs ---------------------------
(***************************************************************************)
(* Proofs about PinWorkers, for all sets of workers and pins and all sizes *)
(* of the rings and queues.  Of PinBuffer (mark-4-5, mark-6-7): the        *)
(* semaphores, the indices and the places of the workers add up, and the   *)
(* rings implement the lines of PinLine.  The one condition is that main   *)
(* of mark-4-5 cannot be killed before it ignores Ctrl-C: it would leave   *)
(* the semaphores behind, with values that the next main takes for those   *)
(* of empty rings.                                                         *)
(*                                                                         *)
(* Of WorkerResources (mark-8, mark-9, mark-10): the counter of a tie is   *)
(* the number of the workers that have joined it, so that what a worker    *)
(* uses is there and nothing is left behind; and what goes wrong, goes     *)
(* wrong by a signal inside a start or by starts that overlap.             *)
(***************************************************************************)
EXTENDS PinWorkers, Integers, FiniteSetTheorems, SequenceTheorems, TLAPS

\* The semaphores of a run are not those of a run before.
MainRemovesNames == mark = "4-5" => mark \notin EarlyInterrupt

-----------------------------------------------------------------------------
(* Numbers of workers.                                                     *)

\* The workers that put pins into the ring of a tie, and those that take them out.
Sends(w, t) == Out(w) = t /\ w \notin ThirdWorkers
Takes(w, t) == In(w) = t /\ w \notin FirstWorkers

One(b) == IF b THEN 1 ELSE 0

ToFill == {"wlock", "write"}
Filled == {"wadd"}
InsideToFill == {"write", "wadd", "wunlock"}
ToEmpty == {"rlock", "read"}
Emptied == {"rfree"}
InsideToEmpty == {"read", "rfree", "runlock"}

\* SendersAt and TakersAt, for places f of the workers.
Senders(f, t, L) == {w \in Workers : Sends(w, t) /\ f[w] \in L}
Takers(f, t, L) == {w \in Workers : Takes(w, t) /\ f[w] \in L}

\* The workers that are between two semaphores of a tie, counted.
Counts(f, t) ==
    [toFill |-> Cardinality(Senders(f, t, ToFill)),
     filled |-> Cardinality(Senders(f, t, Filled)),
     insideToFill |-> Cardinality(Senders(f, t, InsideToFill)),
     toEmpty |-> Cardinality(Takers(f, t, ToEmpty)),
     emptied |-> Cardinality(Takers(f, t, Emptied)),
     insideToEmpty |-> Cardinality(Takers(f, t, InsideToEmpty))]

\* The workers at some labels are finitely many.
LEMMA CountsAreNat ==
    ASSUME NEW f, NEW t, NEW L
    PROVE  /\ IsFiniteSet(Senders(f, t, L)) /\ Cardinality(Senders(f, t, L)) \in Nat
           /\ IsFiniteSet(Takers(f, t, L)) /\ Cardinality(Takers(f, t, L)) \in Nat
  <1>1. Senders(f, t, L) \subseteq Workers /\ Takers(f, t, L) \subseteq Workers
    BY DEF Senders, Takers
  <1>2. QED
    BY <1>1, FS_Subset, FS_CardinalityType, PinBufferAssumption

\* The rings have a size.
LEMMA SizeType == Size \in Nat /\ Size > 0
  BY PinBufferAssumption

\* The counts are numbers.
LEMMA CountsType ==
    ASSUME NEW f, NEW t
    PROVE  LET c == Counts(f, t) IN
           /\ c.toFill \in Nat /\ c.filled \in Nat /\ c.insideToFill \in Nat
           /\ c.toEmpty \in Nat /\ c.emptied \in Nat /\ c.insideToEmpty \in Nat
  BY CountsAreNat DEF Counts

\* Nobody is between two semaphores when all are at the same other place.
LEMMA CountsAreZero ==
    ASSUME NEW f, NEW t,
           \A w \in Workers : f[w] \notin ToFill \union Filled \union InsideToFill
                                          \union ToEmpty \union Emptied \union InsideToEmpty
    PROVE  LET c == Counts(f, t) IN
           /\ c.toFill = 0 /\ c.filled = 0 /\ c.insideToFill = 0
           /\ c.toEmpty = 0 /\ c.emptied = 0 /\ c.insideToEmpty = 0
  <1>1. /\ Senders(f, t, ToFill) = {} /\ Senders(f, t, Filled) = {}
        /\ Senders(f, t, InsideToFill) = {} /\ Takers(f, t, ToEmpty) = {}
        /\ Takers(f, t, Emptied) = {} /\ Takers(f, t, InsideToEmpty) = {}
    BY DEF Senders, Takers
  <1>2. QED
    BY <1>1, FS_EmptySet DEF Counts

\* A set that one worker may enter or leave.
LEMMA OneMoves ==
    ASSUME NEW S, IsFiniteSet(S), NEW T, NEW w, \A x : x # w => (x \in S <=> x \in T)
    PROVE  Cardinality(T) = Cardinality(S) + One(w \in T) - One(w \in S)
  <1>0. Cardinality(S) \in Nat
    BY FS_CardinalityType
  <1>1. CASE w \in T
    <2>1. T = S \union {w}
      BY <1>1
    <2>2. QED
      BY <2>1, <1>0, <1>1, FS_AddElement DEF One
  <1>2. CASE w \notin T
    <2>1. T = S \ {w}
      BY <1>2
    <2>2. QED
      BY <2>1, <1>0, <1>2, FS_RemoveElement DEF One
  <1>3. QED
    BY <1>1, <1>2

\* Worker w goes to label l, the places f become g.
Moves(w, f, g, l) == w \in Workers /\ w \in DOMAIN f /\ g = [f EXCEPT ![w] = l]

\* A worker that goes to label l changes the numbers of workers by one, at most.
LEMMA WorkerMoves ==
    ASSUME NEW w, NEW f, NEW g, NEW l, Moves(w, f, g, l), NEW t, NEW L
    PROVE  /\ Cardinality(Senders(g, t, L)) = Cardinality(Senders(f, t, L))
                 + One(Sends(w, t) /\ l \in L) - One(Sends(w, t) /\ f[w] \in L)
           /\ Cardinality(Takers(g, t, L)) = Cardinality(Takers(f, t, L))
                 + One(Takes(w, t) /\ l \in L) - One(Takes(w, t) /\ f[w] \in L)
  <1>1. /\ w \in Senders(f, t, L) <=> Sends(w, t) /\ f[w] \in L
        /\ w \in Senders(g, t, L) <=> Sends(w, t) /\ l \in L
        /\ w \in Takers(f, t, L) <=> Takes(w, t) /\ f[w] \in L
        /\ w \in Takers(g, t, L) <=> Takes(w, t) /\ l \in L
    BY DEF Senders, Takers, Moves
  <1>2. \A x : x # w => (x \in Senders(f, t, L) <=> x \in Senders(g, t, L))
    BY DEF Senders, Moves
  <1>3. \A x : x # w => (x \in Takers(f, t, L) <=> x \in Takers(g, t, L))
    BY DEF Takers, Moves
  <1>4. Cardinality(Senders(g, t, L)) = Cardinality(Senders(f, t, L))
            + One(w \in Senders(g, t, L)) - One(w \in Senders(f, t, L))
    BY <1>2, OneMoves, CountsAreNat
  <1>5. Cardinality(Takers(g, t, L)) = Cardinality(Takers(f, t, L))
            + One(w \in Takers(g, t, L)) - One(w \in Takers(f, t, L))
    BY <1>3, OneMoves, CountsAreNat
  <1>6. QED
    BY <1>1, <1>4, <1>5

\* The same for Counts.
LEMMA CountsMove ==
    ASSUME NEW w, NEW f, NEW g, NEW l, Moves(w, f, g, l), NEW t
    PROVE  /\ Counts(g, t).toFill = Counts(f, t).toFill
                 + One(Sends(w, t) /\ l \in ToFill) - One(Sends(w, t) /\ f[w] \in ToFill)
           /\ Counts(g, t).filled = Counts(f, t).filled
                 + One(Sends(w, t) /\ l \in Filled) - One(Sends(w, t) /\ f[w] \in Filled)
           /\ Counts(g, t).insideToFill = Counts(f, t).insideToFill
                 + One(Sends(w, t) /\ l \in InsideToFill)
                 - One(Sends(w, t) /\ f[w] \in InsideToFill)
           /\ Counts(g, t).toEmpty = Counts(f, t).toEmpty
                 + One(Takes(w, t) /\ l \in ToEmpty) - One(Takes(w, t) /\ f[w] \in ToEmpty)
           /\ Counts(g, t).emptied = Counts(f, t).emptied
                 + One(Takes(w, t) /\ l \in Emptied) - One(Takes(w, t) /\ f[w] \in Emptied)
           /\ Counts(g, t).insideToEmpty = Counts(f, t).insideToEmpty
                 + One(Takes(w, t) /\ l \in InsideToEmpty)
                 - One(Takes(w, t) /\ f[w] \in InsideToEmpty)
  <1>1. \A L :
          /\ Cardinality(Senders(g, t, L)) = Cardinality(Senders(f, t, L))
               + One(Sends(w, t) /\ l \in L) - One(Sends(w, t) /\ f[w] \in L)
          /\ Cardinality(Takers(g, t, L)) = Cardinality(Takers(f, t, L))
               + One(Takes(w, t) /\ l \in L) - One(Takes(w, t) /\ f[w] \in L)
    BY WorkerMoves
  <1>2. QED
    BY <1>1 DEF Counts, One

-----------------------------------------------------------------------------
(* The arithmetic of the rings.                                            *)

\* The n-th slot after index r, without the division.
LEMMA SlotOf ==
    ASSUME NEW r \in Slots, NEW n \in 0 .. Size
    PROVE  /\ (r + n) % Size = IF r + n < Size THEN r + n ELSE r + n - Size
           /\ (r + n) % Size \in Slots
  <1>1. /\ Size \in Nat \ {0} /\ r \in Nat /\ n \in Nat /\ r < Size /\ n <= Size
    BY PinBufferAssumption DEF Slots
  <1>2. CASE r + n < Size
    BY <1>1, <1>2 DEF Slots
  <1>3. CASE r + n >= Size
    <2>1. (r + n) % Size = r + n - Size
      BY <1>1, <1>3
    <2>2. QED
      BY <2>1, <1>1, <1>3 DEF Slots
  <1>4. QED
    BY <1>1, <1>2, <1>3

\* The index of the writer moves on: one more slot is after the index of the reader.
LEMMA WriterMovesOn ==
    ASSUME NEW r \in Slots, NEW n \in 0 .. Size - 1
    PROVE  (((r + n) % Size) + 1) % Size = (r + (n + 1)) % Size
  <1>1. /\ Size \in Nat \ {0} /\ r \in Nat /\ n \in Nat /\ r < Size /\ n < Size
        /\ n \in 0 .. Size /\ n + 1 \in 0 .. Size /\ 1 \in 0 .. Size
    BY PinBufferAssumption DEF Slots
  <1>2. (r + n) % Size = (IF r + n < Size THEN r + n ELSE r + n - Size)
        /\ (r + n) % Size \in Slots
    BY <1>1, SlotOf
  <1>3. (r + (n + 1)) % Size = IF r + (n + 1) < Size THEN r + (n + 1) ELSE r + (n + 1) - Size
    BY <1>1, SlotOf
  <1>4. \A i \in Slots : (i + 1) % Size = IF i + 1 < Size THEN i + 1 ELSE i + 1 - Size
    BY <1>1, SlotOf
  <1>5. QED
    BY <1>1, <1>2, <1>3, <1>4

\* The index of the reader moves on: the slots after it are one nearer.
LEMMA ReaderMovesOn ==
    ASSUME NEW r \in Slots, NEW n \in 0 .. Size - 1
    PROVE  /\ (r + 1) % Size \in Slots
           /\ (((r + 1) % Size) + n) % Size = (r + (n + 1)) % Size
  <1>1. /\ Size \in Nat \ {0} /\ r \in Nat /\ n \in Nat /\ r < Size /\ n < Size
        /\ n \in 0 .. Size /\ n + 1 \in 0 .. Size /\ 1 \in 0 .. Size
    BY PinBufferAssumption DEF Slots
  <1>2. (r + 1) % Size = (IF r + 1 < Size THEN r + 1 ELSE r + 1 - Size)
        /\ (r + 1) % Size \in Slots
    BY <1>1, SlotOf
  <1>3. (r + (n + 1)) % Size = IF r + (n + 1) < Size THEN r + (n + 1) ELSE r + (n + 1) - Size
    BY <1>1, SlotOf
  <1>4. \A i \in Slots : (i + n) % Size = IF i + n < Size THEN i + n ELSE i + n - Size
    BY <1>1, SlotOf
  <1>5. QED
    BY <1>1, <1>2, <1>3, <1>4

\* Slots at different distances are different.
LEMMA SlotsDiffer ==
    ASSUME NEW r \in Slots, NEW n \in 0 .. Size - 1, NEW m \in 0 .. Size - 1, n # m
    PROVE  (r + n) % Size # (r + m) % Size
  <1>1. /\ Size \in Nat \ {0} /\ r \in Nat /\ n \in Nat /\ m \in Nat
        /\ n \in 0 .. Size /\ m \in 0 .. Size /\ r < Size /\ n < Size /\ m < Size
    BY PinBufferAssumption DEF Slots
  <1>2. /\ (r + n) % Size = IF r + n < Size THEN r + n ELSE r + n - Size
        /\ (r + m) % Size = IF r + m < Size THEN r + m ELSE r + m - Size
    BY <1>1, SlotOf
  <1>3. QED
    BY <1>1, <1>2

-----------------------------------------------------------------------------
(* The inductive invariant.                                                *)

\* No worker is at a label of another stage.
Roles == \A w \in Workers :
    /\ pc[w] \in {"added", "rlock", "read", "rfree", "runlock"} => w \notin FirstWorkers
    /\ pc[w] = "make" => w \in FirstWorkers
    /\ pc[w] \in {"free", "wlock", "write", "wadd", "wunlock"} => w \notin ThirdWorkers
    /\ pc[w] = "check" => w \notin SecondWorkers

\* A worker has a pin between taking or making it and sending or judging it.
Hands == \A w \in Workers :
    pin[w] # NoPin <=>
        w \in alive /\ pc[w] \in {"check", "rfree", "runlock", "free", "wlock", "write"}

\* The slots that count as stored hold pins.
StoredArePins == \A t \in Ties : \A k \in 0 .. Size - 1 :
    k < Stored(t) => buffer[t][(rd[t] + k) % Size] \in Pins

\* Only mark-4-5 has names, and its main removes them before it ends.
NamesRemoved == named => mark = "4-5" /\ main # "off"

BufferInv ==
    /\ MainRemovesNames /\ TypeOK
    /\ Roles /\ Hands /\ NamesRemoved
    /\ UnitsAddUp /\ StoredArePins

\* What UnitsAddUp says of a tie, in terms of Counts.
AddUp(t) ==
    LET c == Counts(pc, t) IN
    /\ Stored(t) = added[t] + c.filled + c.toEmpty
    /\ (rd[t] + Stored(t)) % Size = wr[t]
    /\ access[t] + c.insideToFill + c.insideToEmpty = 1

\* Stored and UnitsAddUp in terms of Counts, before and after a step.
LEMMA StoredCounts ==
    ASSUME NEW t
    PROVE  /\ Stored(t) = Size - free[t] - Counts(pc, t).toFill - Counts(pc, t).emptied
           /\ Stored(t)' = Size - free'[t] - Counts(pc', t).toFill - Counts(pc', t).emptied
  <1>1. /\ SendersAt(t, {"wlock", "write"}) = Senders(pc, t, ToFill)
        /\ TakersAt(t, {"rfree"}) = Takers(pc, t, Emptied)
        /\ SendersAt(t, {"wlock", "write"})' = Senders(pc', t, ToFill)
        /\ TakersAt(t, {"rfree"})' = Takers(pc', t, Emptied)
    BY DEF SendersAt, TakersAt, Senders, Takers, Sends, Takes, ToFill, Emptied
  <1>2. QED
    BY <1>1 DEF Stored, Counts

\* UnitsAddUp is AddUp of both ties.
LEMMA AddUpTies ==
    /\ UnitsAddUp <=> \A t \in Ties : AddUp(t)
    /\ UnitsAddUp' <=> \A t \in Ties : AddUp(t)'
  <1>1. ASSUME NEW t, NEW L
        PROVE  /\ SendersAt(t, L) = Senders(pc, t, L) /\ TakersAt(t, L) = Takers(pc, t, L)
               /\ SendersAt(t, L)' = Senders(pc', t, L) /\ TakersAt(t, L)' = Takers(pc', t, L)
    BY DEF SendersAt, TakersAt, Senders, Takers, Sends, Takes
  <1>2. QED
    BY <1>1 DEF UnitsAddUp, AddUp, Counts, ToFill, Filled, InsideToFill, ToEmpty,
                Emptied, InsideToEmpty

\* Every worker is at one end of a tie.
LEMMA InOutType == \A w : In(w) \in Ties /\ Out(w) \in Ties
  BY DEF In, Out, Ties

\* A worker at a label is one of the stage that has it, and moves to or from its tie.
LEMMA TiesOfWorkers ==
    ASSUME BufferInv, NEW w \in Workers, NEW t \in Ties
    PROVE  /\ pc[w] \in {"added", "rlock", "read", "rfree", "runlock"} =>
                  w \notin FirstWorkers /\ (Takes(w, t) <=> t = In(w))
           /\ pc[w] \in {"free", "wlock", "write", "wadd", "wunlock"} =>
                  w \notin ThirdWorkers /\ (Sends(w, t) <=> t = Out(w))
  BY DEF BufferInv, Roles, Takes, Sends, In, Out, Ties


\* wait_for_pin: a unit of added is turned into a pin to take.
LEMMA WaitAddedStep ==
    ASSUME BufferInv, NEW w \in Workers, WaitAdded(w)
    PROVE  TypeOK' /\ UnitsAddUp' /\ \A t \in Ties : Stored(t)' = Stored(t)
  <1>1. /\ TypeOK /\ UnitsAddUp /\ pc[w] = "added"
        /\ Moves(w, pc, pc', "rlock")
    BY DEF BufferInv, WaitAdded, Go, At, TypeOK, Moves
  <1>2. ASSUME NEW t \in Ties
        PROVE  /\ AddUp(t)' /\ Stored(t)' = Stored(t)
               /\ added'[t] \in 0 .. Size
    <2>1. AddUp(t)
      BY <1>1, AddUpTies
    <2>2. Takes(w, t) <=> t = In(w)
      BY <1>1, TiesOfWorkers
    <2>3. /\ Counts(pc', t).toFill = Counts(pc, t).toFill
          /\ Counts(pc', t).filled = Counts(pc, t).filled
          /\ Counts(pc', t).insideToFill = Counts(pc, t).insideToFill
          /\ Counts(pc', t).toEmpty = Counts(pc, t).toEmpty + One(t = In(w))
          /\ Counts(pc', t).emptied = Counts(pc, t).emptied
          /\ Counts(pc', t).insideToEmpty = Counts(pc, t).insideToEmpty
      BY <1>1, <2>2, CountsType, CountsMove
         DEF One, ToFill, Filled, InsideToFill, ToEmpty, Emptied, InsideToEmpty
    <2>4. added'[t] = added[t] - One(t = In(w)) /\ added[t] \in Nat /\ added'[t] \in Nat
      BY <1>1 DEF WaitAdded, Down, One, TypeOK
    <2>5. Stored(t)' = Stored(t)
      BY <2>3, StoredCounts DEF WaitAdded
    <2>6. AddUp(t)'
      BY <2>1, <2>3, <2>4, <2>5, CountsType DEF AddUp, WaitAdded, memory, One
    <2>7. added'[t] \in 0 .. Size
      BY <1>1, <2>3, <2>4, <2>5, <2>6, StoredCounts, CountsType, SizeType
         DEF AddUp, TypeOK, WaitAdded, One
    <2>8. QED
      BY <2>5, <2>6, <2>7
  <1>3. TypeOK'
    <2>1. added' \in [Ties -> 0 .. Size]
      BY <1>1, <1>2 DEF TypeOK, WaitAdded, Down
    <2>2. QED
      BY <1>1, <2>1 DEF TypeOK, WaitAdded, Go, PC, memory
  <1>4. QED
    BY <1>2, <1>3, AddUpTies

\* wait_for_pin: the reader takes the one unit of access.
LEMMA LockToReadStep ==
    ASSUME BufferInv, NEW w \in Workers, LockToRead(w)
    PROVE  TypeOK' /\ UnitsAddUp' /\ \A t \in Ties : Stored(t)' = Stored(t)
  <1>1. /\ TypeOK /\ UnitsAddUp /\ pc[w] = "rlock"
        /\ Moves(w, pc, pc', "read")
    BY DEF BufferInv, LockToRead, Go, At, TypeOK, Moves
  <1>2. ASSUME NEW t \in Ties
        PROVE  /\ AddUp(t)' /\ Stored(t)' = Stored(t)
               /\ access'[t] \in 0 .. 1
    <2>1. AddUp(t)
      BY <1>1, AddUpTies
    <2>2. Takes(w, t) <=> t = In(w)
      BY <1>1, TiesOfWorkers
    <2>3. /\ Counts(pc', t).toFill = Counts(pc, t).toFill
          /\ Counts(pc', t).filled = Counts(pc, t).filled
          /\ Counts(pc', t).insideToFill = Counts(pc, t).insideToFill
          /\ Counts(pc', t).toEmpty = Counts(pc, t).toEmpty
          /\ Counts(pc', t).emptied = Counts(pc, t).emptied
          /\ Counts(pc', t).insideToEmpty = Counts(pc, t).insideToEmpty + One(t = In(w))
      <3>1. /\ Counts(pc', t).toFill = Counts(pc, t).toFill
            /\ Counts(pc', t).filled = Counts(pc, t).filled
            /\ Counts(pc', t).insideToFill = Counts(pc, t).insideToFill
        BY <1>1, CountsType, CountsMove DEF One, ToFill, Filled, InsideToFill
      <3>2. /\ Counts(pc', t).toEmpty = Counts(pc, t).toEmpty
            /\ Counts(pc', t).emptied = Counts(pc, t).emptied
        BY <1>1, CountsType, CountsMove DEF One, ToEmpty, Emptied
      <3>3. Counts(pc', t).insideToEmpty = Counts(pc, t).insideToEmpty + One(t = In(w))
        BY <1>1, <2>2, CountsType, CountsMove DEF One, InsideToEmpty
      <3>4. QED
        BY <3>1, <3>2, <3>3
    <2>4. access'[t] = access[t] - One(t = In(w)) /\ access[t] \in Nat /\ access'[t] \in Nat
      BY <1>1 DEF LockToRead, Down, One, TypeOK
    <2>5. Stored(t)' = Stored(t)
      BY <2>3, StoredCounts DEF LockToRead
    <2>6. AddUp(t)'
      BY <2>1, <2>3, <2>4, <2>5, CountsType DEF AddUp, LockToRead, memory, One
    <2>7. access'[t] \in 0 .. 1
      BY <2>4, <2>6, CountsType DEF AddUp
    <2>8. QED
      BY <2>5, <2>6, <2>7
  <1>3. TypeOK'
    <2>1. access' \in [Ties -> 0 .. 1]
      BY <1>1, <1>2 DEF TypeOK, LockToRead, Down
    <2>2. QED
      BY <1>1, <2>1 DEF TypeOK, LockToRead, Go, PC, memory
  <1>4. QED
    BY <1>2, <1>3, AddUpTies

\* wait_for_pin: the slot that was emptied becomes a unit of free.
LEMMA PostFreeStep ==
    ASSUME BufferInv, NEW w \in Workers, PostFree(w)
    PROVE  TypeOK' /\ UnitsAddUp' /\ \A t \in Ties : Stored(t)' = Stored(t)
  <1>1. /\ TypeOK /\ UnitsAddUp /\ pc[w] = "rfree"
        /\ Moves(w, pc, pc', "runlock")
    BY DEF BufferInv, PostFree, Go, At, TypeOK, Moves
  <1>2. ASSUME NEW t \in Ties
        PROVE  /\ AddUp(t)' /\ Stored(t)' = Stored(t)
               /\ free'[t] \in 0 .. Size
    <2>1. AddUp(t)
      BY <1>1, AddUpTies
    <2>2. Takes(w, t) <=> t = In(w)
      BY <1>1, TiesOfWorkers
    <2>3. /\ Counts(pc', t).toFill = Counts(pc, t).toFill
          /\ Counts(pc', t).filled = Counts(pc, t).filled
          /\ Counts(pc', t).insideToFill = Counts(pc, t).insideToFill
          /\ Counts(pc', t).toEmpty = Counts(pc, t).toEmpty
          /\ Counts(pc', t).emptied = Counts(pc, t).emptied - One(t = In(w))
          /\ Counts(pc', t).insideToEmpty = Counts(pc, t).insideToEmpty
      BY <1>1, <2>2, CountsType, CountsMove
         DEF One, ToFill, Filled, InsideToFill, ToEmpty, Emptied, InsideToEmpty
    <2>4. free'[t] = free[t] + One(t = In(w)) /\ free[t] \in Nat /\ free'[t] \in Nat
      BY <1>1 DEF PostFree, Up, One, TypeOK
    <2>5. Stored(t)' = Stored(t)
      BY <2>3, <2>4, CountsType, SizeType, StoredCounts DEF PostFree, One
    <2>6. AddUp(t)'
      BY <2>1, <2>3, <2>4, <2>5, CountsType DEF AddUp, PostFree, memory, One
    <2>7. free'[t] \in 0 .. Size
      BY <1>1, <2>3, <2>4, <2>5, <2>6, StoredCounts, CountsType, SizeType
         DEF AddUp, TypeOK, PostFree, One
    <2>8. QED
      BY <2>5, <2>6, <2>7
  <1>3. TypeOK'
    <2>1. free' \in [Ties -> 0 .. Size]
      BY <1>1, <1>2 DEF TypeOK, PostFree, Up
    <2>2. QED
      BY <1>1, <2>1 DEF TypeOK, PostFree, Go, PC, memory
  <1>4. QED
    BY <1>2, <1>3, AddUpTies

\* wait_for_pin: the reader gives access back.
LEMMA UnlockReadStep ==
    ASSUME BufferInv, NEW w \in Workers, UnlockRead(w)
    PROVE  TypeOK' /\ UnitsAddUp' /\ \A t \in Ties : Stored(t)' = Stored(t)
  <1> DEFINE l == IF w \in SecondWorkers THEN "free" ELSE "check"
  <1>1. /\ TypeOK /\ UnitsAddUp /\ pc[w] = "runlock"
        /\ Moves(w, pc, pc', l)
    BY DEF BufferInv, UnlockRead, Go, At, TypeOK, Moves
  <1>a. l \in {"free", "check"}
    OBVIOUS
  <1> HIDE DEF l
  <1>2. ASSUME NEW t \in Ties
        PROVE  /\ AddUp(t)' /\ Stored(t)' = Stored(t)
               /\ access'[t] \in 0 .. 1
    <2>1. AddUp(t)
      BY <1>1, AddUpTies
    <2>2. Takes(w, t) <=> t = In(w)
      BY <1>1, TiesOfWorkers
    <2>3. /\ Counts(pc', t).toFill = Counts(pc, t).toFill
          /\ Counts(pc', t).filled = Counts(pc, t).filled
          /\ Counts(pc', t).insideToFill = Counts(pc, t).insideToFill
          /\ Counts(pc', t).toEmpty = Counts(pc, t).toEmpty
          /\ Counts(pc', t).emptied = Counts(pc, t).emptied
          /\ Counts(pc', t).insideToEmpty = Counts(pc, t).insideToEmpty - One(t = In(w))
      BY <1>1, <1>a, <2>2, CountsType, CountsMove
         DEF One, ToFill, Filled, InsideToFill, ToEmpty, Emptied, InsideToEmpty
    <2>4. access'[t] = access[t] + One(t = In(w)) /\ access[t] \in Nat /\ access'[t] \in Nat
      BY <1>1 DEF UnlockRead, Up, One, TypeOK
    <2>5. Stored(t)' = Stored(t)
      BY <2>3, StoredCounts DEF UnlockRead
    <2>6. AddUp(t)'
      BY <2>1, <2>3, <2>4, <2>5, CountsType DEF AddUp, UnlockRead, memory, One
    <2>7. access'[t] \in 0 .. 1
      BY <2>4, <2>6, CountsType DEF AddUp
    <2>8. QED
      BY <2>5, <2>6, <2>7
  <1>3. TypeOK'
    <2>1. access' \in [Ties -> 0 .. 1]
      BY <1>1, <1>2 DEF TypeOK, UnlockRead, Up
    <2>2. QED
      BY <1>1, <1>a, <2>1 DEF TypeOK, UnlockRead, Go, Moves, PC, memory
  <1>4. QED
    BY <1>2, <1>3, AddUpTies

\* send_pin: a unit of free is turned into a slot to fill.
LEMMA WaitFreeStep ==
    ASSUME BufferInv, NEW w \in Workers, WaitFree(w)
    PROVE  TypeOK' /\ UnitsAddUp' /\ \A t \in Ties : Stored(t)' = Stored(t)
  <1>1. /\ TypeOK /\ UnitsAddUp /\ pc[w] = "free"
        /\ Moves(w, pc, pc', "wlock")
    BY DEF BufferInv, WaitFree, Go, At, TypeOK, Moves
  <1>2. ASSUME NEW t \in Ties
        PROVE  /\ AddUp(t)' /\ Stored(t)' = Stored(t)
               /\ free'[t] \in 0 .. Size
    <2>1. AddUp(t)
      BY <1>1, AddUpTies
    <2>2. Sends(w, t) <=> t = Out(w)
      BY <1>1, TiesOfWorkers
    <2>3. /\ Counts(pc', t).toFill = Counts(pc, t).toFill + One(t = Out(w))
          /\ Counts(pc', t).filled = Counts(pc, t).filled
          /\ Counts(pc', t).insideToFill = Counts(pc, t).insideToFill
          /\ Counts(pc', t).toEmpty = Counts(pc, t).toEmpty
          /\ Counts(pc', t).emptied = Counts(pc, t).emptied
          /\ Counts(pc', t).insideToEmpty = Counts(pc, t).insideToEmpty
      BY <1>1, <2>2, CountsType, CountsMove
         DEF One, ToFill, Filled, InsideToFill, ToEmpty, Emptied, InsideToEmpty
    <2>4. free'[t] = free[t] - One(t = Out(w)) /\ free[t] \in Nat /\ free'[t] \in Nat
      BY <1>1 DEF WaitFree, Down, One, TypeOK
    <2>5. Stored(t)' = Stored(t)
      BY <2>3, <2>4, CountsType, SizeType, StoredCounts DEF WaitFree, One
    <2>6. AddUp(t)'
      BY <2>1, <2>3, <2>4, <2>5, CountsType DEF AddUp, WaitFree, memory, One
    <2>7. free'[t] \in 0 .. Size
      BY <1>1, <2>3, <2>4, <2>5, <2>6, StoredCounts, CountsType, SizeType
         DEF AddUp, TypeOK, WaitFree, One
    <2>8. QED
      BY <2>5, <2>6, <2>7
  <1>3. TypeOK'
    <2>1. free' \in [Ties -> 0 .. Size]
      BY <1>1, <1>2 DEF TypeOK, WaitFree, Down
    <2>2. QED
      BY <1>1, <2>1 DEF TypeOK, WaitFree, Go, PC, memory
  <1>4. QED
    BY <1>2, <1>3, AddUpTies

\* send_pin: the writer takes the one unit of access.
LEMMA LockToWriteStep ==
    ASSUME BufferInv, NEW w \in Workers, LockToWrite(w)
    PROVE  TypeOK' /\ UnitsAddUp' /\ \A t \in Ties : Stored(t)' = Stored(t)
  <1>1. /\ TypeOK /\ UnitsAddUp /\ pc[w] = "wlock"
        /\ Moves(w, pc, pc', "write")
    BY DEF BufferInv, LockToWrite, Go, At, TypeOK, Moves
  <1>2. ASSUME NEW t \in Ties
        PROVE  /\ AddUp(t)' /\ Stored(t)' = Stored(t)
               /\ access'[t] \in 0 .. 1
    <2>1. AddUp(t)
      BY <1>1, AddUpTies
    <2>2. Sends(w, t) <=> t = Out(w)
      BY <1>1, TiesOfWorkers
    <2>3. /\ Counts(pc', t).toFill = Counts(pc, t).toFill
          /\ Counts(pc', t).filled = Counts(pc, t).filled
          /\ Counts(pc', t).insideToFill = Counts(pc, t).insideToFill + One(t = Out(w))
          /\ Counts(pc', t).toEmpty = Counts(pc, t).toEmpty
          /\ Counts(pc', t).emptied = Counts(pc, t).emptied
          /\ Counts(pc', t).insideToEmpty = Counts(pc, t).insideToEmpty
      BY <1>1, <2>2, CountsType, CountsMove
         DEF One, ToFill, Filled, InsideToFill, ToEmpty, Emptied, InsideToEmpty
    <2>4. access'[t] = access[t] - One(t = Out(w)) /\ access[t] \in Nat /\ access'[t] \in Nat
      BY <1>1 DEF LockToWrite, Down, One, TypeOK
    <2>5. Stored(t)' = Stored(t)
      BY <2>3, StoredCounts DEF LockToWrite
    <2>6. AddUp(t)'
      BY <2>1, <2>3, <2>4, <2>5, CountsType DEF AddUp, LockToWrite, memory, One
    <2>7. access'[t] \in 0 .. 1
      BY <2>4, <2>6, CountsType DEF AddUp
    <2>8. QED
      BY <2>5, <2>6, <2>7
  <1>3. TypeOK'
    <2>1. access' \in [Ties -> 0 .. 1]
      BY <1>1, <1>2 DEF TypeOK, LockToWrite, Down
    <2>2. QED
      BY <1>1, <2>1 DEF TypeOK, LockToWrite, Go, PC, memory
  <1>4. QED
    BY <1>2, <1>3, AddUpTies

\* send_pin: the slot that was filled becomes a unit of added.
LEMMA PostAddedStep ==
    ASSUME BufferInv, NEW w \in Workers, PostAdded(w)
    PROVE  TypeOK' /\ UnitsAddUp' /\ \A t \in Ties : Stored(t)' = Stored(t)
  <1>1. /\ TypeOK /\ UnitsAddUp /\ pc[w] = "wadd"
        /\ Moves(w, pc, pc', "wunlock")
    BY DEF BufferInv, PostAdded, Go, At, TypeOK, Moves
  <1>2. ASSUME NEW t \in Ties
        PROVE  /\ AddUp(t)' /\ Stored(t)' = Stored(t)
               /\ added'[t] \in 0 .. Size
    <2>1. AddUp(t)
      BY <1>1, AddUpTies
    <2>2. Sends(w, t) <=> t = Out(w)
      BY <1>1, TiesOfWorkers
    <2>3. /\ Counts(pc', t).toFill = Counts(pc, t).toFill
          /\ Counts(pc', t).filled = Counts(pc, t).filled - One(t = Out(w))
          /\ Counts(pc', t).insideToFill = Counts(pc, t).insideToFill
          /\ Counts(pc', t).toEmpty = Counts(pc, t).toEmpty
          /\ Counts(pc', t).emptied = Counts(pc, t).emptied
          /\ Counts(pc', t).insideToEmpty = Counts(pc, t).insideToEmpty
      BY <1>1, <2>2, CountsType, CountsMove
         DEF One, ToFill, Filled, InsideToFill, ToEmpty, Emptied, InsideToEmpty
    <2>4. added'[t] = added[t] + One(t = Out(w)) /\ added[t] \in Nat /\ added'[t] \in Nat
      BY <1>1 DEF PostAdded, Up, One, TypeOK
    <2>5. Stored(t)' = Stored(t)
      BY <2>3, StoredCounts DEF PostAdded
    <2>6. AddUp(t)'
      BY <2>1, <2>3, <2>4, <2>5, CountsType DEF AddUp, PostAdded, memory, One
    <2>7. added'[t] \in 0 .. Size
      BY <1>1, <2>3, <2>4, <2>5, <2>6, StoredCounts, CountsType, SizeType
         DEF AddUp, TypeOK, PostAdded, One
    <2>8. QED
      BY <2>5, <2>6, <2>7
  <1>3. TypeOK'
    <2>1. added' \in [Ties -> 0 .. Size]
      BY <1>1, <1>2 DEF TypeOK, PostAdded, Up
    <2>2. QED
      BY <1>1, <2>1 DEF TypeOK, PostAdded, Go, PC, memory
  <1>4. QED
    BY <1>2, <1>3, AddUpTies

\* send_pin: the writer gives access back.
LEMMA UnlockWriteStep ==
    ASSUME BufferInv, NEW w \in Workers, UnlockWrite(w)
    PROVE  TypeOK' /\ UnitsAddUp' /\ \A t \in Ties : Stored(t)' = Stored(t)
  <1>1. /\ TypeOK /\ UnitsAddUp /\ pc[w] = "wunlock"
        /\ Moves(w, pc, pc', Loop(w))
    BY DEF BufferInv, UnlockWrite, Go, At, TypeOK, Moves
  <1>2. ASSUME NEW t \in Ties
        PROVE  /\ AddUp(t)' /\ Stored(t)' = Stored(t)
               /\ access'[t] \in 0 .. 1
    <2>1. AddUp(t)
      BY <1>1, AddUpTies
    <2>2. Sends(w, t) <=> t = Out(w)
      BY <1>1, TiesOfWorkers
    <2>3. /\ Counts(pc', t).toFill = Counts(pc, t).toFill
          /\ Counts(pc', t).filled = Counts(pc, t).filled
          /\ Counts(pc', t).insideToFill = Counts(pc, t).insideToFill - One(t = Out(w))
          /\ Counts(pc', t).toEmpty = Counts(pc, t).toEmpty
          /\ Counts(pc', t).emptied = Counts(pc, t).emptied
          /\ Counts(pc', t).insideToEmpty = Counts(pc, t).insideToEmpty
      BY <1>1, <2>2, CountsType, CountsMove
         DEF One, ToFill, Filled, InsideToFill, ToEmpty, Emptied, InsideToEmpty, Loop
    <2>4. access'[t] = access[t] + One(t = Out(w)) /\ access[t] \in Nat /\ access'[t] \in Nat
      BY <1>1 DEF UnlockWrite, Up, One, TypeOK
    <2>5. Stored(t)' = Stored(t)
      BY <2>3, StoredCounts DEF UnlockWrite
    <2>6. AddUp(t)'
      BY <2>1, <2>3, <2>4, <2>5, CountsType DEF AddUp, UnlockWrite, memory, One
    <2>7. access'[t] \in 0 .. 1
      BY <2>4, <2>6, CountsType DEF AddUp
    <2>8. QED
      BY <2>5, <2>6, <2>7
  <1>3. TypeOK'
    <2>1. access' \in [Ties -> 0 .. 1]
      BY <1>1, <1>2 DEF TypeOK, UnlockWrite, Up
    <2>2. QED
      BY <1>1, <2>1 DEF TypeOK, UnlockWrite, Go, PC, memory, Loop
  <1>4. QED
    BY <1>2, <1>3, AddUpTies

\* The stored pins fit into the slots that are not free.
LEMMA StoredType ==
    ASSUME TypeOK, UnitsAddUp, NEW t \in Ties
    PROVE  /\ Stored(t) \in 0 .. Size /\ Stored(t) + free[t] <= Size
           /\ Counts(pc, t).toEmpty <= Stored(t)
           /\ Stored(t) + Counts(pc, t).toFill <= Size
  <1>1. AddUp(t) /\ free[t] \in Nat /\ added[t] \in Nat
    BY AddUpTies DEF TypeOK
  <1>2. QED
    BY <1>1, CountsType, StoredCounts, SizeType DEF AddUp

\* A worker that is in no count, before and after a step that leaves the semaphores
\* and the rings as they are.
LEMMA StayingStep ==
    ASSUME TypeOK, UnitsAddUp, NEW w \in Workers,
           NEW l \in {"make", "check", "added", "free"},
           pc[w] \in {"none", "make", "check"}, pc' = [pc EXCEPT ![w] = l],
           UNCHANGED <<sems, memory>>
    PROVE  UnitsAddUp' /\ \A t \in Ties : Stored(t)' = Stored(t)
  <1>1. Moves(w, pc, pc', l)
    BY DEF TypeOK, Moves
  <1>2. ASSUME NEW t \in Ties
        PROVE  AddUp(t)' /\ Stored(t)' = Stored(t)
    <2>1. AddUp(t)
      BY AddUpTies
    <2>2. /\ Counts(pc', t).toFill = Counts(pc, t).toFill
          /\ Counts(pc', t).filled = Counts(pc, t).filled
          /\ Counts(pc', t).insideToFill = Counts(pc, t).insideToFill
          /\ Counts(pc', t).toEmpty = Counts(pc, t).toEmpty
          /\ Counts(pc', t).emptied = Counts(pc, t).emptied
          /\ Counts(pc', t).insideToEmpty = Counts(pc, t).insideToEmpty
      BY <1>1, CountsType, CountsMove
         DEF One, ToFill, Filled, InsideToFill, ToEmpty, Emptied, InsideToEmpty
    <2>3. Stored(t)' = Stored(t)
      BY <2>2, StoredCounts DEF sems
    <2>4. QED
      BY <2>1, <2>2, <2>3 DEF AddUp, sems, memory
  <1>3. QED
    BY <1>2, AddUpTies

\* wait_for_pin: the reader takes the first of the stored pins, and one less is stored.
LEMMA ReadPinStep ==
    ASSUME BufferInv, NEW w \in Workers, ReadPin(w)
    PROVE  /\ TypeOK' /\ UnitsAddUp'
           /\ pin'[w] \in Pins
           /\ \A t \in Ties : Stored(t)' = Stored(t) - One(t = In(w))
           /\ Stored(In(w)) > 0
  <1>1. /\ TypeOK /\ UnitsAddUp /\ StoredArePins
        /\ pc[w] = "read" /\ Moves(w, pc, pc', "rfree") /\ In(w) \in Ties
    BY InOutType DEF BufferInv, ReadPin, Go, At, TypeOK, Moves
  <1>2. ASSUME NEW t \in Ties
        PROVE  /\ AddUp(t)' /\ Stored(t)' = Stored(t) - One(t = In(w))
               /\ rd'[t] \in Slots /\ (t = In(w) => Stored(t) > 0)
    <2>1. AddUp(t) /\ Stored(t) \in 0 .. Size /\ Counts(pc, t).toEmpty <= Stored(t)
      BY <1>1, AddUpTies, StoredType
    <2>2. Takes(w, t) <=> t = In(w)
      BY <1>1, TiesOfWorkers
    <2>3. /\ Counts(pc', t).toFill = Counts(pc, t).toFill
          /\ Counts(pc', t).filled = Counts(pc, t).filled
          /\ Counts(pc', t).insideToFill = Counts(pc, t).insideToFill
      BY <1>1, CountsType, CountsMove DEF One, ToFill, Filled, InsideToFill
    <2>4. Counts(pc', t).insideToEmpty = Counts(pc, t).insideToEmpty
      BY <1>1, CountsType, CountsMove DEF One, InsideToEmpty
    <2>5. /\ Counts(pc', t).toEmpty = Counts(pc, t).toEmpty - One(t = In(w))
          /\ Counts(pc', t).emptied = Counts(pc, t).emptied + One(t = In(w))
      BY <1>1, <2>2, CountsType, CountsMove DEF One, ToEmpty, Emptied
    <2>6. Stored(t)' = Stored(t) - One(t = In(w))
      <3>1. free'[t] = free[t] /\ free[t] \in Nat
        BY <1>1 DEF ReadPin, sems, TypeOK
      <3>2. QED
        BY <3>1, <2>3, <2>5, CountsType, StoredCounts, SizeType DEF One
    <2>7. t = In(w) => Stored(t) > 0
      BY <2>1, <2>5, CountsType DEF One
    <2>8. rd'[t] \in Slots /\ (rd'[t] + Stored(t)') % Size = wr[t]
      <3>1. CASE t = In(w)
        <4>1. /\ Stored(t) - 1 \in 0 .. Size - 1 /\ Stored(t)' = Stored(t) - 1
              /\ rd[t] \in Slots /\ rd'[t] = (rd[t] + 1) % Size
          BY <1>1, <2>1, <2>6, <2>7, <3>1, SizeType DEF ReadPin, One, TypeOK
        <4>2. Stored(t) - 1 + 1 = Stored(t)
          BY <2>1
        <4>3. QED
          BY <2>1, <4>1, <4>2, ReaderMovesOn DEF AddUp
      <3>2. CASE t # In(w)
        BY <1>1, <2>1, <2>6, <3>2 DEF ReadPin, One, TypeOK, AddUp
      <3>3. QED
        BY <3>1, <3>2
    <2>9. AddUp(t)'
      BY <1>1, <2>1, <2>3, <2>4, <2>5, <2>6, <2>8, CountsType
         DEF AddUp, ReadPin, sems, One, TypeOK
    <2>10. QED
      BY <2>6, <2>7, <2>8, <2>9
  <1>3. buffer[In(w)][rd[In(w)]] \in Pins
    <2>1. 0 \in 0 .. Size - 1 /\ Stored(In(w)) > 0 /\ rd[In(w)] \in Slots
      BY <1>1, <1>2, SizeType DEF TypeOK
    <2>2. (rd[In(w)] + 0) % Size = rd[In(w)]
      BY <2>1, SlotOf, SizeType DEF Slots
    <2>3. QED
      BY <1>1, <2>1, <2>2 DEF StoredArePins
  <1>4. TypeOK' /\ pin'[w] \in Pins
    <2>1. rd' \in [Ties -> Slots]
      BY <1>1, <1>2 DEF TypeOK, ReadPin
    <2>2. buffer' \in [Ties -> [Slots -> Pins \union {NoPin}]]
      BY <1>1 DEF TypeOK, ReadPin
    <2>3. QED
      BY <1>1, <1>3, <2>1, <2>2 DEF TypeOK, ReadPin, Go, PC, sems
  <1>5. QED
    BY <1>1, <1>2, <1>4, AddUpTies

\* send_pin: the writer fills the slot after the stored pins, and one more is stored.
LEMMA WritePinStep ==
    ASSUME BufferInv, NEW w \in Workers, WritePin(w)
    PROVE  /\ TypeOK' /\ UnitsAddUp'
           /\ \A t \in Ties : Stored(t)' = Stored(t) + One(t = Out(w))
           /\ Stored(Out(w)) < Size
  <1>1. /\ TypeOK /\ UnitsAddUp
        /\ pc[w] = "write" /\ Moves(w, pc, pc', "wadd") /\ Out(w) \in Ties
    BY InOutType DEF BufferInv, WritePin, Go, At, TypeOK, Moves
  <1>2. ASSUME NEW t \in Ties
        PROVE  /\ AddUp(t)' /\ Stored(t)' = Stored(t) + One(t = Out(w))
               /\ wr'[t] \in Slots /\ (t = Out(w) => Stored(t) < Size)
    <2>1. AddUp(t) /\ Stored(t) \in 0 .. Size /\ Stored(t) + Counts(pc, t).toFill <= Size
      BY <1>1, AddUpTies, StoredType
    <2>2. Sends(w, t) <=> t = Out(w)
      BY <1>1, TiesOfWorkers
    <2>3. /\ Counts(pc', t).toEmpty = Counts(pc, t).toEmpty
          /\ Counts(pc', t).emptied = Counts(pc, t).emptied
          /\ Counts(pc', t).insideToEmpty = Counts(pc, t).insideToEmpty
      BY <1>1, CountsType, CountsMove DEF One, ToEmpty, Emptied, InsideToEmpty
    <2>4. Counts(pc', t).insideToFill = Counts(pc, t).insideToFill
      BY <1>1, CountsType, CountsMove DEF One, InsideToFill
    <2>5. /\ Counts(pc', t).toFill = Counts(pc, t).toFill - One(t = Out(w))
          /\ Counts(pc', t).filled = Counts(pc, t).filled + One(t = Out(w))
      BY <1>1, <2>2, CountsType, CountsMove DEF One, ToFill, Filled
    <2>6. Stored(t)' = Stored(t) + One(t = Out(w))
      <3>1. free'[t] = free[t] /\ free[t] \in Nat
        BY <1>1 DEF WritePin, sems, TypeOK
      <3>2. QED
        BY <3>1, <2>3, <2>5, CountsType, StoredCounts, SizeType DEF One
    <2>7. t = Out(w) => Stored(t) < Size
      BY <2>1, <2>5, CountsType, SizeType DEF One
    <2>8. wr'[t] \in Slots /\ (rd[t] + Stored(t)') % Size = wr'[t]
      <3>1. CASE t = Out(w)
        <4>1. /\ Stored(t) \in 0 .. Size - 1 /\ Stored(t)' = Stored(t) + 1
              /\ rd[t] \in Slots /\ wr'[t] = (wr[t] + 1) % Size /\ wr[t] \in Slots
              /\ 1 \in 0 .. Size
          BY <1>1, <2>1, <2>6, <2>7, <3>1, SizeType DEF WritePin, One, TypeOK
        <4>2. QED
          BY <2>1, <4>1, WriterMovesOn, SlotOf DEF AddUp
      <3>2. CASE t # Out(w)
        BY <1>1, <2>1, <2>6, <3>2 DEF WritePin, One, TypeOK, AddUp
      <3>3. QED
        BY <3>1, <3>2
    <2>9. AddUp(t)'
      BY <1>1, <2>1, <2>3, <2>4, <2>5, <2>6, <2>8, CountsType
         DEF AddUp, WritePin, sems, One, TypeOK
    <2>10. QED
      BY <2>6, <2>7, <2>8, <2>9
  <1>3. TypeOK'
    <2>1. wr' \in [Ties -> Slots]
      BY <1>1, <1>2 DEF TypeOK, WritePin
    <2>2. buffer' \in [Ties -> [Slots -> Pins \union {NoPin}]]
      BY <1>1 DEF TypeOK, WritePin
    <2>3. QED
      BY <1>1, <2>1, <2>2 DEF TypeOK, WritePin, Go, PC, sems
  <1>4. QED
    BY <1>1, <1>2, <1>3, AddUpTies

\* rand(): the new pin is one that no worker holds and no ring stores.
LEMMA MakePinFacts ==
    ASSUME BufferInv, NEW w \in Workers, MakePin(w)
    PROVE  \E p \in Pins : ~InBuffer(p) /\ ~InHand(p) /\ pin' = [pin EXCEPT ![w] = p]
  <1> DEFINE new == {p \in Pins : ~InBuffer(p) /\ ~InHand(p)}
  <1>1. new # {} /\ pin' = [pin EXCEPT ![w] = CHOOSE p \in new : TRUE]
    BY DEF MakePin
  <1>2. (CHOOSE p \in new : TRUE) \in new
    BY <1>1
  <1>3. QED
    BY <1>1, <1>2

\* The steps of a worker that touch no ring.
RestOfWorker(w) ==
    \/ MakePin(w) \/ CheckPin(w) \/ WaitAdded(w) \/ LockToRead(w) \/ PostFree(w)
    \/ UnlockRead(w) \/ WaitFree(w) \/ LockToWrite(w) \/ PostAdded(w) \/ UnlockWrite(w)

\* They leave the pins that are stored where they are.
LEMMA RestStep ==
    ASSUME BufferInv, NEW w \in Workers, RestOfWorker(w)
    PROVE  /\ TypeOK' /\ UnitsAddUp' /\ UNCHANGED memory
           /\ \A t \in Ties : Stored(t)' = Stored(t)
  <1>0. TypeOK /\ UnitsAddUp
    BY DEF BufferInv
  <1>1. CASE MakePin(w)
    <2>1. pin' \in [Workers -> Pins \union {NoPin}]
      BY <1>0, <1>1, MakePinFacts DEF TypeOK
    <2>2. TypeOK'
      BY <1>0, <1>1, <2>1 DEF TypeOK, MakePin, Go, PC, sems, memory
    <2>3. QED
      BY <1>0, <1>1, <2>2, StayingStep DEF MakePin, At, Go
  <1>2. CASE CheckPin(w)
    <2>1. Loop(w) \in {"make", "added"}
      BY DEF Loop
    <2>2. TypeOK'
      BY <1>0, <1>2, <2>1 DEF TypeOK, CheckPin, Go, PC, sems, memory
    <2>3. QED
      BY <1>0, <1>2, <2>1, <2>2, StayingStep DEF CheckPin, At, Go
  <1>3. CASE WaitAdded(w)
    BY <1>3, WaitAddedStep DEF WaitAdded
  <1>4. CASE LockToRead(w)
    BY <1>4, LockToReadStep DEF LockToRead
  <1>5. CASE PostFree(w)
    BY <1>5, PostFreeStep DEF PostFree
  <1>6. CASE UnlockRead(w)
    BY <1>6, UnlockReadStep DEF UnlockRead
  <1>7. CASE WaitFree(w)
    BY <1>7, WaitFreeStep DEF WaitFree
  <1>8. CASE LockToWrite(w)
    BY <1>8, LockToWriteStep DEF LockToWrite
  <1>9. CASE PostAdded(w)
    BY <1>9, PostAddedStep DEF PostAdded
  <1>10. CASE UnlockWrite(w)
    BY <1>10, UnlockWriteStep DEF UnlockWrite
  <1>11. QED
    BY <1>1, <1>2, <1>3, <1>4, <1>5, <1>6, <1>7, <1>8, <1>9, <1>10 DEF RestOfWorker

\* Workers stay at the labels of their stage, and hold a pin where they should.
LEMMA WorkerRolesStep ==
    ASSUME BufferInv, NEW w \in Workers, Worker(w), TypeOK'
    PROVE  MainRemovesNames' /\ NamesRemoved' /\ Roles' /\ Hands'
  <1>1. /\ TypeOK /\ Roles /\ Hands /\ MainRemovesNames /\ NamesRemoved
    BY DEF BufferInv
  <1>2. UNCHANGED <<mark, main, named, alive>>
    BY DEF Worker, MakePin, CheckPin, WaitAdded, LockToRead, ReadPin, PostFree, UnlockRead,
           WaitFree, LockToWrite, WritePin, PostAdded, UnlockWrite, Go
  <1>3. MainRemovesNames' /\ NamesRemoved'
    BY <1>1, <1>2 DEF MainRemovesNames, NamesRemoved
  <1>4. w \in alive /\ pc' = [pc EXCEPT ![w] = pc'[w]] /\ pin' = [pin EXCEPT ![w] = pin'[w]]
    BY <1>1 DEF TypeOK, Worker, MakePin, CheckPin, WaitAdded, LockToRead, ReadPin, PostFree,
                UnlockRead, WaitFree, LockToWrite, WritePin, PostAdded, UnlockWrite, Go, At
  <1> DEFINE Role(l) ==
          /\ l \in {"added", "rlock", "read", "rfree", "runlock"} => w \notin FirstWorkers
          /\ l = "make" => w \in FirstWorkers
          /\ l \in {"free", "wlock", "write", "wadd", "wunlock"} => w \notin ThirdWorkers
          /\ l = "check" => w \notin SecondWorkers
  <1> DEFINE Hand(l) == l \in {"check", "rfree", "runlock", "free", "wlock", "write"}
  <1>5. Role(pc[w]) /\ (pin[w] # NoPin <=> Hand(pc[w]))
    BY <1>1, <1>4 DEF Roles, Hands
  <1>6. Role(pc'[w]) /\ (pin'[w] # NoPin <=> Hand(pc'[w]))
    <2>1. CASE MakePin(w)
      <3>1. pin'[w] \in Pins /\ pc'[w] = "check"
        BY <1>1, <2>1, MakePinFacts DEF TypeOK, MakePin, Go
      <3>2. QED
        BY <2>1, <3>1, <1>5, PinBufferAssumption DEF MakePin, At
    <2>2. CASE CheckPin(w)
      BY <1>1, <2>2, <1>5, PinBufferAssumption DEF TypeOK, CheckPin, Go, At, Loop
    <2>3. CASE WaitAdded(w) \/ LockToRead(w)
      BY <1>1, <2>3, <1>5 DEF TypeOK, WaitAdded, LockToRead, Go, At
    <2>4. CASE ReadPin(w)
      <3>1. pin'[w] \in Pins
        BY <2>4, ReadPinStep
      <3>2. QED
        BY <1>1, <2>4, <3>1, <1>5, PinBufferAssumption DEF TypeOK, ReadPin, Go, At
    <2>5. CASE PostFree(w)
      BY <1>1, <2>5, <1>5 DEF TypeOK, PostFree, Go, At
    <2>6. CASE UnlockRead(w)
      BY <1>1, <2>6, <1>5, PinBufferAssumption DEF TypeOK, UnlockRead, Go, At
    <2>7. CASE WaitFree(w) \/ LockToWrite(w)
      BY <1>1, <2>7, <1>5 DEF TypeOK, WaitFree, LockToWrite, Go, At
    <2>8. CASE WritePin(w) \/ PostAdded(w) \/ UnlockWrite(w)
      BY <1>1, <2>8, <1>5, PinBufferAssumption
         DEF TypeOK, WritePin, PostAdded, UnlockWrite, Go, At, Loop
    <2>9. QED
      BY <2>1, <2>2, <2>3, <2>4, <2>5, <2>6, <2>7, <2>8 DEF Worker
  <1>7. Roles'
    BY <1>1, <1>4, <1>6 DEF Roles, TypeOK
  <1>8. Hands'
    BY <1>1, <1>2, <1>4, <1>6 DEF Hands, TypeOK
  <1>9. QED
    BY <1>3, <1>7, <1>8

\* The stored pins move up when one is taken, and another follows when one is sent.
LEMMA StoredArePinsStep ==
    ASSUME BufferInv, NEW w \in Workers, Worker(w)
    PROVE  StoredArePins'
  <1>1. TypeOK /\ UnitsAddUp /\ StoredArePins /\ Hands
    BY DEF BufferInv
  <1>2. CASE RestOfWorker(w)
    BY <1>1, <1>2, RestStep DEF StoredArePins, memory
  <1>3. CASE ReadPin(w)
    <2> SUFFICES ASSUME NEW t \in Ties, NEW k \in 0 .. Size - 1, k < Stored(t)'
                 PROVE  buffer'[t][(rd'[t] + k) % Size] \in Pins
      BY DEF StoredArePins
    <2>1. Stored(t)' = Stored(t) - One(t = In(w)) /\ Stored(t) \in 0 .. Size /\ rd[t] \in Slots
      BY <1>1, <1>3, ReadPinStep, StoredType DEF TypeOK
    <2>2. CASE t = In(w)
      <3>1. /\ k + 1 \in 0 .. Size - 1 /\ k + 1 < Stored(t) /\ 0 \in 0 .. Size - 1
            /\ 0 \in 0 .. Size /\ rd[t] + 0 < Size /\ k \in Nat
        BY <2>1, <2>2, SizeType DEF One, Slots
      <3>2. buffer[t][(rd[t] + (k + 1)) % Size] \in Pins
        BY <1>1, <3>1 DEF StoredArePins
      <3>3. (rd'[t] + k) % Size = (rd[t] + (k + 1)) % Size
        BY <1>1, <1>3, <2>1, <2>2, ReaderMovesOn DEF ReadPin, TypeOK
      <3>4. rd[t] = (rd[t] + 0) % Size
        BY <2>1, <3>1, SlotOf DEF Slots
      <3>5. (rd[t] + (k + 1)) % Size # rd[t]
        BY <2>1, <3>1, <3>4, SlotsDiffer
      <3>6. QED
        BY <1>1, <1>3, <2>1, <2>2, <3>2, <3>3, <3>5 DEF ReadPin, TypeOK
    <2>3. CASE t # In(w)
      BY <1>1, <1>3, <2>1, <2>3 DEF ReadPin, TypeOK, StoredArePins, One
    <2>4. QED
      BY <2>2, <2>3
  <1>4. CASE WritePin(w)
    <2> SUFFICES ASSUME NEW t \in Ties, NEW k \in 0 .. Size - 1, k < Stored(t)'
                 PROVE  buffer'[t][(rd'[t] + k) % Size] \in Pins
      BY DEF StoredArePins
    <2>1. /\ Stored(t)' = Stored(t) + One(t = Out(w)) /\ Stored(t) \in 0 .. Size
          /\ rd[t] \in Slots /\ rd' = rd /\ (rd[t] + Stored(t)) % Size = wr[t]
      BY ZenonT(60), <1>1, <1>4, WritePinStep, StoredType DEF TypeOK, WritePin, UnitsAddUp
    <2>2. pin[w] \in Pins
      BY <1>1, <1>4 DEF Hands, WritePin, At, TypeOK
    <2>3. CASE t = Out(w) /\ k = Stored(t)
      BY <1>1, <1>4, <2>1, <2>2, <2>3 DEF WritePin, TypeOK
    <2>4. CASE t = Out(w) /\ k # Stored(t)
      <3>1. k < Stored(t) /\ Stored(t) \in 0 .. Size - 1
        BY <1>4, <2>1, <2>4, WritePinStep, SizeType DEF One
      <3>2. (rd[t] + k) % Size # wr[t]
        BY <2>1, <3>1, SlotsDiffer
      <3>3. QED
        BY <1>1, <1>4, <2>1, <2>4, <3>1, <3>2 DEF WritePin, TypeOK, StoredArePins
    <2>5. CASE t # Out(w)
      BY <1>1, <1>4, <2>1, <2>5 DEF WritePin, TypeOK, StoredArePins, One
    <2>6. QED
      BY <2>3, <2>4, <2>5
  <1>5. QED
    BY <1>2, <1>3, <1>4 DEF Worker, RestOfWorker

\* No step of a worker breaks the invariant.
LEMMA WorkerStep ==
    ASSUME BufferInv, NEW w \in Workers, Worker(w)
    PROVE  BufferInv'
  <1>1. TypeOK' /\ UnitsAddUp'
    BY RestStep, ReadPinStep, WritePinStep DEF Worker, RestOfWorker
  <1>2. QED
    BY <1>1, WorkerRolesStep, StoredArePinsStep DEF BufferInv

\* A step that moves no worker, or one from "none" to where its loop starts, and leaves
\* the semaphores and the rings as they are.
QuietStep ==
    /\ UNCHANGED <<sems, memory>>
    /\ \/ pc' = pc
       \/ \E w \in Workers : pc[w] = "none" /\ pc' = [pc EXCEPT ![w] = Loop(w)]

\* Such a step changes no count.
LEMMA QuietStepKeeps ==
    ASSUME TypeOK, UnitsAddUp, StoredArePins, QuietStep
    PROVE  UnitsAddUp' /\ StoredArePins' /\ \A t \in Ties : Stored(t)' = Stored(t)
  <1>1. UnitsAddUp' /\ \A t \in Ties : Stored(t)' = Stored(t)
    <2>1. CASE pc' = pc
      BY <2>1, AddUpTies, StoredCounts DEF QuietStep, AddUp, sems, memory
    <2>2. ASSUME NEW w \in Workers, pc[w] = "none", pc' = [pc EXCEPT ![w] = Loop(w)]
          PROVE  UnitsAddUp' /\ \A t \in Ties : Stored(t)' = Stored(t)
      BY <2>2, StayingStep DEF QuietStep, Loop
    <2>3. QED
      BY <2>1, <2>2 DEF QuietStep
  <1>2. QED
    BY <1>1 DEF StoredArePins, QuietStep, memory

\* Fresh semaphores and empty rings, with no worker inside: when main starts.
Fresh ==
    /\ access = [t \in Ties |-> 1] /\ added = [t \in Ties |-> 0]
    /\ free = [t \in Ties |-> Size]
    /\ buffer = [t \in Ties |-> [i \in Slots |-> NoPin]]
    /\ rd = [t \in Ties |-> 0] /\ wr = [t \in Ties |-> 0]
    /\ pc = [w \in Workers |-> "none"] /\ pin = [w \in Workers |-> NoPin]

\* Nothing is stored then, and all units are in the semaphores.
LEMMA FreshAddsUp ==
    Fresh => UnitsAddUp /\ StoredArePins /\ \A t \in Ties : Stored(t) = 0
  <1> SUFFICES ASSUME Fresh
               PROVE  UnitsAddUp /\ StoredArePins /\ \A t \in Ties : Stored(t) = 0
    OBVIOUS
  <1>1. ASSUME NEW t \in Ties
        PROVE  AddUp(t) /\ Stored(t) = 0
    <2>1. /\ Counts(pc, t).toFill = 0 /\ Counts(pc, t).filled = 0
          /\ Counts(pc, t).insideToFill = 0 /\ Counts(pc, t).toEmpty = 0
          /\ Counts(pc, t).emptied = 0 /\ Counts(pc, t).insideToEmpty = 0
      BY CountsAreZero
         DEF Fresh, ToFill, Filled, InsideToFill, ToEmpty, Emptied, InsideToEmpty
    <2>2. Stored(t) = 0
      BY <2>1, StoredCounts, SizeType DEF Fresh
    <2>3. (0 + 0) % Size = 0
      BY SizeType
    <2>4. QED
      BY <2>1, <2>2, <2>3 DEF AddUp, Fresh
  <1>2. QED
    BY <1>1, AddUpTies DEF StoredArePins

\* Before main is run for the first time.
LEMMA InitBufferInv == Init /\ MainRemovesNames => BufferInv
  <1> SUFFICES ASSUME Init, MainRemovesNames PROVE BufferInv
    OBVIOUS
  <1>1. Fresh
    BY DEF Init, Fresh
  <1>2. TypeOK
    <2>1. mark \in Marks /\ main = "off" /\ named = FALSE /\ alive = {}
      BY DEF Init
    <2>2. /\ access \in [Ties -> 0 .. 1] /\ added \in [Ties -> 0 .. Size]
          /\ free \in [Ties -> 0 .. Size] /\ rd \in [Ties -> Slots] /\ wr \in [Ties -> Slots]
      BY <1>1, SizeType DEF Fresh, Slots
    <2>3. /\ buffer \in [Ties -> [Slots -> Pins \union {NoPin}]]
          /\ pc \in [Workers -> PC] /\ pin \in [Workers -> Pins \union {NoPin}]
      BY <1>1 DEF Fresh, PC
    <2>4. QED
      BY <2>1, <2>2, <2>3 DEF TypeOK
  <1>3. Roles /\ Hands /\ NamesRemoved
    BY DEF Init, Roles, Hands, NamesRemoved
  <1>4. QED
    BY <1>1, <1>2, <1>3, FreshAddsUp DEF BufferInv

\* Main takes over no semaphore of a run before: it finds no names.
LEMMA InitResourcesStep ==
    ASSUME BufferInv, InitResources
    PROVE  BufferInv' /\ Fresh' /\ pin' = pin
  <1>1. TypeOK /\ Hands /\ NamesRemoved /\ MainRemovesNames
    BY DEF BufferInv
  <1>2. Fresh'
    BY <1>1 DEF InitResources, OpenSemaphores, NamesRemoved, Fresh
  <1>3. UnitsAddUp' /\ StoredArePins'
    <2>1. (Fresh => UnitsAddUp /\ StoredArePins /\ \A t \in Ties : Stored(t) = 0)'
      BY FreshAddsUp, PTL
    <2>2. QED
      BY <1>2, <2>1
  <1>4. TypeOK'
    BY <1>1, <1>2, SizeType DEF TypeOK, InitResources, Fresh, Slots, PC
  <1>5. Roles' /\ Hands' /\ NamesRemoved' /\ MainRemovesNames'
    BY <1>1 DEF InitResources, Roles, Hands, NamesRemoved, MainRemovesNames
  <1>6. pin' = pin
    BY <1>1 DEF InitResources, Hands, TypeOK
  <1>7. QED
    BY <1>2, <1>3, <1>4, <1>5, <1>6 DEF BufferInv

\* Main forks, waits and ends; workers begin, or end at a signal.
OtherStep ==
    \/ StartFirst \/ StartSecond \/ StartThird \/ ForkFails \/ IgnoreInterrupt
    \/ WaitForWorkers \/ CtrlC \/ \E w \in Workers : Kill(w)

\* A worker that is killed stays where it was, with its units.
LEMMA OtherStepIsQuiet ==
    ASSUME BufferInv, OtherStep
    PROVE  BufferInv' /\ UNCHANGED memory /\ \A t \in Ties : Stored(t)' = Stored(t)
  <1>1. /\ TypeOK /\ Roles /\ Hands /\ NamesRemoved /\ MainRemovesNames
        /\ UnitsAddUp /\ StoredArePins
    BY DEF BufferInv
  <1>2. CASE StartFirst \/ StartSecond \/ StartThird
    <2>1. /\ main = "fork" /\ UNCHANGED <<mark, main, named, sems, memory, pin>>
      BY <1>2 DEF StartFirst, StartSecond, StartThird, Fork
    <2>2. PICK w \in Workers : /\ pc[w] = "none" /\ pc' = [pc EXCEPT ![w] = Loop(w)]
                               /\ alive' = alive \union {w}
      BY <1>2 DEF StartFirst, StartSecond, StartThird, Fork, Workers
    <2>3. TypeOK'
      BY <1>1, <2>1, <2>2 DEF TypeOK, Loop, PC, sems, memory
    <2>4. Roles' /\ Hands'
      BY <1>1, <2>1, <2>2, PinBufferAssumption DEF TypeOK, Roles, Hands, Loop
    <2>5. NamesRemoved' /\ MainRemovesNames'
      BY <1>1, <2>1 DEF NamesRemoved, MainRemovesNames
    <2>6. QuietStep
      BY <2>1, <2>2 DEF QuietStep
    <2>7. QED
      BY <1>1, <2>1, <2>3, <2>4, <2>5, <2>6, QuietStepKeeps DEF BufferInv
  <1>3. ASSUME ForkFails \/ IgnoreInterrupt \/ WaitForWorkers \/ CtrlC \/ \E w \in Workers : Kill(w)
        PROVE  BufferInv' /\ UNCHANGED memory /\ \A t \in Ties : Stored(t)' = Stored(t)
    <2>1. UNCHANGED <<mark, sems, memory, pc>>
      BY <1>3 DEF ForkFails, IgnoreInterrupt, WaitForWorkers, CtrlC, Kill
    <2>2. TypeOK'
      BY <1>1, <1>3, <2>1
         DEF TypeOK, sems, memory, ForkFails, IgnoreInterrupt, WaitForWorkers, CtrlC, Kill,
             DeinitResources
    <2>3. Roles' /\ MainRemovesNames'
      BY <1>1, <2>1 DEF Roles, MainRemovesNames
    <2>4. Hands'
      BY <1>1, <1>3, <2>1
         DEF Hands, TypeOK, ForkFails, IgnoreInterrupt, WaitForWorkers, CtrlC, Kill
    <2>5. NamesRemoved'
      <3>1. CASE CtrlC
        <4>1. CASE main = "wait"
          BY <1>1, <3>1, <4>1 DEF CtrlC, NamesRemoved
        <4>2. CASE main = "fork" /\ mark \in EarlyInterrupt
          BY <1>1, <2>1, <3>1, <4>2 DEF CtrlC, NamesRemoved, MainRemovesNames
        <4>3. QED
          BY <3>1, <4>1, <4>2 DEF CtrlC
      <3>2. CASE ~CtrlC
        BY <1>1, <1>3, <3>2
           DEF NamesRemoved, ForkFails, IgnoreInterrupt, WaitForWorkers, Kill, DeinitResources
      <3>3. QED
        BY <3>1, <3>2
    <2>6. QuietStep
      BY <2>1 DEF QuietStep
    <2>7. QED
      BY <1>1, <2>1, <2>2, <2>3, <2>4, <2>5, <2>6, QuietStepKeeps DEF BufferInv
  <1>4. QED
    BY <1>2, <1>3 DEF OtherStep

\* No step breaks the invariant.
LEMMA NextBufferInv == BufferInv /\ [Next]_vars => BufferInv'
  <1> SUFFICES ASSUME BufferInv, [Next]_vars PROVE BufferInv'
    OBVIOUS
  <1>1. CASE InitResources
    BY <1>1, InitResourcesStep
  <1>2. CASE OtherStep
    BY <1>2, OtherStepIsQuiet
  <1>3. ASSUME NEW w \in Workers, Worker(w) PROVE BufferInv'
    BY <1>3, WorkerStep
  <1>4. CASE UNCHANGED vars
    <2>1. QuietStep
      BY <1>4 DEF vars, QuietStep
    <2>2. UnitsAddUp' /\ StoredArePins'
      BY <2>1, QuietStepKeeps DEF BufferInv
    <2>3. QED
      BY <1>4, <2>2
         DEF BufferInv, vars, sems, memory, MainRemovesNames, TypeOK, Roles, Hands, NamesRemoved
  <1>5. QED
    BY <1>1, <1>2, <1>3, <1>4 DEF Next, Main, OtherStep

\* The inductive invariant holds in every run of main, and of the mains after it.
THEOREM BufferInvariant == Spec /\ MainRemovesNames => []BufferInv
  BY InitBufferInv, NextBufferInv, PTL DEF Spec

\* wait_for_pin and send_pin, wherever Ctrl-C and kill end the workers: a unit that is in
\* no semaphore is with a worker between two of them, alive or killed there; and no semaphore
\* is posted beyond the size of its ring, no access semaphore beyond 1.
THEOREM SemaphoresAlwaysAddUp == Spec /\ MainRemovesNames => []SemaphoresAddUp
  <1>1. BufferInv => SemaphoresAddUp
    BY DEF BufferInv, SemaphoresAddUp
  <1>2. QED
    BY <1>1, BufferInvariant, PTL

-----------------------------------------------------------------------------
(* The rings implement the lines.                                          *)

\* The stage that sends into a tie, and the one that takes out of it.
LEMMA StagesOfTies ==
    ASSUME BufferInv, NEW w \in Workers
    PROVE  /\ pc[w] = "write" => w \in Abstract!Senders(Out(w))
           /\ pc[w] = "read" => w \in Abstract!Takers(In(w))
  BY PinBufferAssumption
     DEF BufferInv, Roles, Abstract!Senders, Abstract!Takers, In, Out, Workers

\* The line of a tie is the sequence of its stored pins.
LEMMA LineType ==
    ASSUME BufferInv, NEW t \in Ties
    PROVE  /\ LineOf(t) \in Seq(Pins) /\ Len(LineOf(t)) = Stored(t)
           /\ \A k \in 1 .. Stored(t) : LineOf(t)[k] = buffer[t][(rd[t] + (k - 1)) % Size]
  <1>1. /\ Stored(t) \in 0 .. Size /\ rd[t] \in Nat
        /\ \A k \in 0 .. Size - 1 : k < Stored(t) => buffer[t][(rd[t] + k) % Size] \in Pins
    BY StoredType DEF BufferInv, TypeOK, StoredArePins, Slots
  <1>2. \A k \in 1 .. Stored(t) :
            /\ k - 1 \in 0 .. Size - 1 /\ k - 1 < Stored(t)
            /\ rd[t] + k - 1 = rd[t] + (k - 1)
    BY <1>1, SizeType
  <1>3. \A k \in 1 .. Stored(t) :
            /\ LineOf(t)[k] = buffer[t][(rd[t] + (k - 1)) % Size]
            /\ LineOf(t)[k] \in Pins
    BY <1>1, <1>2 DEF LineOf
  <1>4. LineOf(t) \in [1 .. Stored(t) -> Pins]
    BY <1>3 DEF LineOf
  <1>5. Stored(t) \in Nat
    BY <1>1, SizeType
  <1>6. QED
    BY <1>3, <1>4, <1>5

LinesAreStored ==
    \A t \in Ties :
        /\ LineOf(t) \in Seq(Pins) /\ Len(LineOf(t)) = Stored(t)
        /\ \A k \in 1 .. Stored(t) : LineOf(t)[k] = buffer[t][(rd[t] + (k - 1)) % Size]

\* The lines are sequences of pins.
LEMMA LineTypes == BufferInv => LinesAreStored
  BY LineType DEF LinesAreStored

\* The same after a step.
LEMMA LineTypePrime ==
    ASSUME BufferInv', NEW t \in Ties
    PROVE  /\ LineOf(t)' \in Seq(Pins) /\ Len(LineOf(t)') = Stored(t)'
           /\ \A k \in 1 .. Stored(t)' :
                  LineOf(t)'[k] = buffer'[t][(rd'[t] + (k - 1)) % Size]
  <1>1. (BufferInv => LinesAreStored)'
    BY LineTypes, PTL
  <1>2. QED
    BY <1>1 DEF LinesAreStored

\* No pin that is stored moves: the line stays as it is.
LEMMA LineStays ==
    ASSUME NEW t \in Ties, Stored(t)' = Stored(t), buffer'[t] = buffer[t], rd'[t] = rd[t]
    PROVE  LineOf(t)' = LineOf(t)
  BY DEF LineOf

\* The pin that the reader takes is the head of the line.
LEMMA ReadPinTakes ==
    ASSUME BufferInv, BufferInv', NEW w \in Workers, ReadPin(w)
    PROVE  Abstract!Take(w, In(w))
  <1> DEFINE t == In(w)
             L == LineOf(t)
             T == Tail(LineOf(t))
             n == Stored(t)
  <1>1. /\ t \in Ties /\ TypeOK /\ UnitsAddUp /\ Hands /\ pc[w] = "read" /\ w \in alive
        /\ rd[t] \in Slots
    BY InOutType DEF BufferInv, ReadPin, At, TypeOK
  <1>2. /\ n \in 1 .. Size /\ n \in Nat /\ Stored(t)' = n - 1
        /\ \A u \in Ties : u # t => Stored(u)' = Stored(u)
    BY <1>1, ReadPinStep, StoredType, SizeType DEF One
  <1>3. L \in Seq(Pins) /\ Len(L) = n /\ L # <<>>
    BY <1>1, <1>2, LineType, EmptySeq
  <1>4. T \in Seq(Pins) /\ Len(T) = n - 1 /\ \A k \in 1 .. n - 1 : T[k] = L[k + 1]
    BY <1>2, <1>3, HeadTailProperties
  <1>5. L' \in Seq(Pins) /\ Len(L') = n - 1
    BY <1>1, <1>2, LineTypePrime
  <1>6. ASSUME NEW k \in 1 .. n - 1
        PROVE  L'[k] = T[k]
    <2>1. /\ k - 1 \in 0 .. Size - 1 /\ k \in 0 .. Size - 1 /\ k - 1 + 1 = k /\ k + 1 - 1 = k
          /\ k + 1 \in 1 .. n /\ k \in 1 .. Stored(t)' /\ 0 \in 0 .. Size - 1 /\ k # 0
          /\ k \in 0 .. Size
      BY <1>2, <1>6, SizeType
    <2>2. L'[k] = buffer'[t][(rd'[t] + (k - 1)) % Size]
      BY <1>1, <2>1, LineTypePrime
    <2>3. L[k + 1] = buffer[t][(rd[t] + k) % Size]
      BY <1>1, <2>1, LineType
    <2>4. rd'[t] = (rd[t] + 1) % Size
      BY <1>1 DEF ReadPin, TypeOK
    <2>5. (rd'[t] + (k - 1)) % Size = (rd[t] + k) % Size
      BY <1>1, <2>1, <2>4, ReaderMovesOn
    <2>6. (rd[t] + 0) % Size = rd[t] /\ rd[t] + 0 = rd[t]
      BY <1>1, <2>1, SizeType DEF Slots
    <2>7. (rd[t] + k) % Size # rd[t]
      BY <1>1, <2>1, <2>6, SlotsDiffer
    <2>8. (rd[t] + k) % Size \in Slots
      BY <1>1, <2>1, SlotOf
    <2>9. buffer'[t][(rd[t] + k) % Size] = buffer[t][(rd[t] + k) % Size]
      BY <1>1, <2>7, <2>8 DEF ReadPin, TypeOK
    <2>10. QED
      BY <1>4, <2>2, <2>3, <2>5, <2>9
  <1>7. L' = T
    BY <1>4, <1>5, <1>6, SeqEqual
  <1>8. pin' = [pin EXCEPT ![w] = Head(L)]
    <2>1. Head(L) = L[1] /\ 1 \in 1 .. n /\ 1 - 1 = 0
      BY <1>2, <1>3
    <2>2. L[1] = buffer[t][(rd[t] + 0) % Size]
      BY <1>1, <2>1, LineType
    <2>3. (rd[t] + 0) % Size = rd[t]
      BY <1>1, SizeType DEF Slots
    <2>4. QED
      BY <2>1, <2>2, <2>3 DEF ReadPin
  <1>9. \A u \in Ties : u # t => LineOf(u)' = LineOf(u)
    BY <1>1, <1>2, LineStays DEF ReadPin, TypeOK
  <1>10. pin[w] = NoPin
    BY <1>1 DEF Hands
  <1>11. w \in Abstract!Takers(t)
    BY <1>1, StagesOfTies
  <1> HIDE DEF t
  <1>12. QED
    BY <1>1, <1>3, <1>7, <1>8, <1>9, <1>10, <1>11 DEF Abstract!Take, t

\* The pin that the writer sends becomes the last of the line.
LEMMA WritePinSends ==
    ASSUME BufferInv, BufferInv', NEW w \in Workers, WritePin(w)
    PROVE  Abstract!Send(w, Out(w))
  <1> DEFINE t == Out(w)
             L == LineOf(t)
             A == Append(LineOf(t), pin[w])
             n == Stored(t)
  <1>1. /\ t \in Ties /\ TypeOK /\ UnitsAddUp /\ Hands /\ pc[w] = "write" /\ w \in alive
        /\ rd[t] \in Slots /\ rd' = rd /\ (rd[t] + n) % Size = wr[t]
    BY InOutType DEF BufferInv, WritePin, At, TypeOK, UnitsAddUp
  <1>2. /\ n \in 0 .. Size - 1 /\ n \in Nat /\ Stored(t)' = n + 1 /\ n < Size
        /\ \A u \in Ties : u # t => Stored(u)' = Stored(u)
    BY <1>1, WritePinStep, StoredType, SizeType DEF One
  <1>3. pin[w] \in Pins /\ pin[w] # NoPin
    BY <1>1, PinBufferAssumption DEF Hands, TypeOK
  <1>4. L \in Seq(Pins) /\ Len(L) = n
    BY <1>1, LineType
  <1>5. A \in Seq(Pins) /\ Len(A) = n + 1
    BY <1>3, <1>4
  <1>6. L' \in Seq(Pins) /\ Len(L') = n + 1
    BY <1>1, <1>2, LineTypePrime
  <1>7. ASSUME NEW k \in 1 .. n + 1
        PROVE  L'[k] = A[k]
    <2>1. L'[k] = buffer'[t][(rd[t] + (k - 1)) % Size]
      BY <1>1, <1>2, <1>7, LineTypePrime
    <2>2. CASE k = n + 1
      <3>1. k - 1 = n
        BY <1>2, <2>2
      <3>2. L'[k] = pin[w]
        BY <1>1, <2>1, <3>1 DEF WritePin, TypeOK
      <3>3. QED
        BY <1>3, <1>4, <2>2, <3>2
    <2>3. CASE k \in 1 .. n
      <3>1. k - 1 \in 0 .. Size - 1 /\ k - 1 # n /\ k - 1 \in 0 .. Size
        BY <1>2, <2>3, SizeType
      <3>2. (rd[t] + (k - 1)) % Size # wr[t]
        BY <1>1, <1>2, <3>1, SlotsDiffer
      <3>3. (rd[t] + (k - 1)) % Size \in Slots
        BY <1>1, <3>1, SlotOf
      <3>4. L'[k] = buffer[t][(rd[t] + (k - 1)) % Size]
        BY <1>1, <2>1, <3>2, <3>3 DEF WritePin, TypeOK
      <3>5. L'[k] = L[k]
        BY <1>1, <2>3, <3>4, LineType
      <3>6. QED
        BY <1>3, <1>4, <2>3, <3>5
    <2>4. k = n + 1 \/ k \in 1 .. n
      BY <1>2, <1>7
    <2>5. QED
      BY <2>2, <2>3, <2>4
  <1>8. L' = A
    BY <1>5, <1>6, <1>7, SeqEqual
  <1>9. \A u \in Ties : u # t => LineOf(u)' = LineOf(u)
    BY <1>1, <1>2, LineStays DEF WritePin, TypeOK
  <1>10. w \in Abstract!Senders(t)
    BY <1>1, StagesOfTies
  <1> HIDE DEF t
  <1>11. QED
    BY <1>1, <1>2, <1>3, <1>4, <1>8, <1>9, <1>10 DEF Abstract!Send, t, WritePin

\* Empty rings are empty lines.
LEMMA InitLine == Init => Abstract!Init
  <1> SUFFICES ASSUME Init PROVE Abstract!Init
    OBVIOUS
  <1>1. \A t \in Ties : Stored(t) = 0
    BY FreshAddsUp DEF Init, Fresh
  <1>2. \A t \in Ties : LineOf(t) = <<>>
    BY <1>1 DEF LineOf
  <1>3. QED
    BY <1>2 DEF Init, Abstract!Init, Abstract!Ties, Ties, Abstract!Workers, Workers

\* The pin that a first worker makes is neither in a hand nor in a line.
LEMMA MakePinMakes ==
    ASSUME BufferInv, NEW w \in Workers, MakePin(w)
    PROVE  \E p \in Pins : Abstract!Make(w, p)
  <1>1. TypeOK /\ UnitsAddUp /\ Hands /\ Roles
    BY DEF BufferInv
  <1>2. PICK p \in Pins : ~InBuffer(p) /\ ~InHand(p) /\ pin' = [pin EXCEPT ![w] = p]
    BY MakePinFacts
  <1>3. \A v \in Workers : pin[v] # p
    BY <1>1, <1>2, PinBufferAssumption DEF Hands, InHand
  <1>4. ASSUME NEW t \in Ties, NEW k \in 1 .. Len(LineOf(t))
        PROVE  LineOf(t)[k] # p
    <2>1. /\ LineOf(t)[k] = buffer[t][(rd[t] + (k - 1)) % Size]
          /\ k \in 1 .. Stored(t) /\ Stored(t) \in 0 .. Size /\ Stored(t) + free[t] <= Size
          /\ free[t] \in Nat
      BY <1>1, <1>4, LineType, StoredType DEF TypeOK
    <2>2. k - 1 \in 0 .. Size - 1 /\ k - 1 < Size - free[t]
      BY <2>1, SizeType
    <2>3. QED
      BY <1>2, <2>1, <2>2 DEF InBuffer
  <1>5. Abstract!Unused(p)
    BY <1>3, <1>4 DEF Abstract!Unused, Abstract!Ties, Ties, Abstract!Workers, Workers
  <1>6. w \in FirstWorkers /\ pin[w] = NoPin
    BY <1>1 DEF MakePin, At, Roles, Hands
  <1>7. \A t \in Ties : LineOf(t)' = LineOf(t)
    BY RestStep, LineStays DEF RestOfWorker, memory
  <1>8. QED
    BY <1>2, <1>5, <1>6, <1>7 DEF Abstract!Make

\* When the lines stay and hands are emptied, pins are dropped.
LEMMA HandsEmptied ==
    ASSUME TypeOK, \A t \in Ties : LineOf(t)' = LineOf(t), NEW W \in SUBSET Workers,
           pin' = [w \in Workers |-> IF w \in W THEN NoPin ELSE pin[w]]
    PROVE  Abstract!Next
  <1>1. W \in SUBSET Abstract!Workers /\ Workers = Abstract!Workers
    BY DEF Workers, Abstract!Workers
  <1>2. Abstract!Drop(W)
    BY <1>1 DEF Abstract!Drop
  <1>3. QED
    BY <1>1, <1>2 DEF Abstract!Next

\* Every step is a step of the lines, or leaves them and the hands alone.
LEMMA NextLine == BufferInv /\ BufferInv' /\ [Next]_vars => [Abstract!Next]_(Abstract!lineVars)
  <1> SUFFICES ASSUME BufferInv, BufferInv', [Next]_vars
               PROVE  [Abstract!Next]_(Abstract!lineVars)
    OBVIOUS
  <1>0. TypeOK /\ Ties = Abstract!Ties /\ Workers = Abstract!Workers
    BY DEF BufferInv, Ties, Abstract!Ties, Workers, Abstract!Workers
  <1>a. ASSUME UNCHANGED memory, \A t \in Ties : Stored(t)' = Stored(t)
        PROVE  \A t \in Ties : LineOf(t)' = LineOf(t)
    BY <1>a, LineStays DEF memory
  <1>b. ASSUME \A t \in Ties : LineOf(t)' = LineOf(t), pin' = pin
        PROVE  UNCHANGED Abstract!lineVars
    BY <1>b DEF Abstract!lineVars
  <1>1. ASSUME NEW w \in Workers, ReadPin(w)
        PROVE  Abstract!Next
    BY <1>0, <1>1, ReadPinTakes, InOutType DEF Abstract!Next
  <1>2. ASSUME NEW w \in Workers, WritePin(w)
        PROVE  Abstract!Next
    BY <1>0, <1>2, WritePinSends, InOutType DEF Abstract!Next
  <1>3. ASSUME NEW w \in Workers, MakePin(w)
        PROVE  Abstract!Next
    BY <1>0, <1>3, MakePinMakes DEF Abstract!Next
  <1>4. ASSUME NEW w \in Workers, CheckPin(w)
        PROVE  [Abstract!Next]_(Abstract!lineVars)
    <2>1. \A t \in Ties : LineOf(t)' = LineOf(t)
      BY <1>4, <1>a, RestStep DEF RestOfWorker
    <2>2. CASE pin' = pin
      BY <2>1, <2>2, <1>b
    <2>3. CASE pin' = [pin EXCEPT ![w] = NoPin]
      <3>1. pin' = [v \in Workers |-> IF v \in {w} THEN NoPin ELSE pin[v]]
        BY <1>0, <2>3 DEF TypeOK
      <3>2. QED
        BY <1>0, <2>1, <3>1, HandsEmptied
    <2>4. QED
      BY <1>4, <2>2, <2>3 DEF CheckPin
  <1>5. ASSUME NEW w \in Workers,
               \/ WaitAdded(w) \/ LockToRead(w) \/ PostFree(w) \/ UnlockRead(w)
               \/ WaitFree(w) \/ LockToWrite(w) \/ PostAdded(w) \/ UnlockWrite(w)
        PROVE  UNCHANGED Abstract!lineVars
    <2>1. \A t \in Ties : LineOf(t)' = LineOf(t)
      BY <1>5, <1>a, RestStep DEF RestOfWorker
    <2>2. pin' = pin
      BY <1>5 DEF WaitAdded, LockToRead, PostFree, UnlockRead, WaitFree, LockToWrite,
                  PostAdded, UnlockWrite
    <2>3. QED
      BY <2>1, <2>2, <1>b
  <1>6. CASE InitResources
    <2>1. pin' = pin /\ \A t \in Ties : Stored(t)' = 0
      <3>1. (Fresh => UnitsAddUp /\ StoredArePins /\ \A t \in Ties : Stored(t) = 0)'
        BY FreshAddsUp, PTL
      <3>2. QED
        BY <1>6, <3>1, InitResourcesStep
    <2>2. \A t \in Ties : LineOf(t)' = <<>>
      BY <2>1 DEF LineOf
    <2>3. Abstract!Renew(Ties)
      BY <1>0, <2>1, <2>2 DEF Abstract!Renew
    <2>4. QED
      BY <1>0, <2>3 DEF Abstract!Next
  <1>7. CASE OtherStep
    <2>1. \A t \in Ties : LineOf(t)' = LineOf(t)
      BY <1>7, <1>a, OtherStepIsQuiet
    <2>2. CASE CtrlC
      <3>1. pin' = [w \in Workers |-> IF w \in Workers THEN NoPin ELSE pin[w]]
        BY <2>2 DEF CtrlC
      <3>2. QED
        BY <1>0, <2>1, <3>1, HandsEmptied
    <2>3. ASSUME NEW w \in Workers, Kill(w)
          PROVE  Abstract!Next
      <3>1. pin' = [v \in Workers |-> IF v \in {w} THEN NoPin ELSE pin[v]]
        BY <1>0, <2>3 DEF Kill, TypeOK
      <3>2. QED
        BY <1>0, <2>1, <3>1, HandsEmptied
    <2>4. CASE StartFirst \/ StartSecond \/ StartThird \/ ForkFails \/ IgnoreInterrupt
               \/ WaitForWorkers
      <3>1. pin' = pin
        BY <2>4 DEF StartFirst, StartSecond, StartThird, Fork, ForkFails, IgnoreInterrupt,
                    WaitForWorkers
      <3>2. QED
        BY <2>1, <3>1, <1>b
    <2>5. QED
      BY <1>7, <2>2, <2>3, <2>4 DEF OtherStep
  <1>8. CASE UNCHANGED vars
    <2>1. \A t \in Ties : Stored(t)' = Stored(t)
      BY <1>8, StoredCounts DEF vars, sems
    <2>2. QED
      BY <1>8, <1>a, <1>b, <2>1 DEF vars
  <1>9. QED
    BY <1>1, <1>2, <1>3, <1>4, <1>5, <1>6, <1>7, <1>8 DEF Next, Main, Worker, OtherStep

\* The rings with their three semaphores, in shared memory, carry the pins of PinLine: none
\* is overwritten, taken twice or out of order, whoever is killed and wherever.
THEOREM BufferImplementsPinLine == Spec /\ MainRemovesNames => ImplementsPinLine
  BY BufferInvariant, InitLine, NextLine, PTL DEF Spec, Abstract!Spec, ImplementsPinLine

-----------------------------------------------------------------------------
(* WorkerResources: who has joined a tie.                                  *)

\* Where a worker has a unit of the counter of a tie: it has joined it and not left it.  What
\* init_shared_memory of mark-8 sets to 1 counts before the semaphores exist.
UnitAt(m, w, l, own, t) ==
    \/ l = "run" /\ t \in {Res!FirstTie(w), Res!LastTie(w)}
    \/ l = "drop" /\ t \in {Res!FirstTie(w), own}
    \/ l \notin {"off", "run"} /\ own # Res!FirstTie(w) /\ t = Res!FirstTie(w)
    \/ m = "8" /\ l = "create" /\ t = own
Joined(t) == {w \in Workers : UnitAt(program, w, place[w], tie[w], t)}

\* A queue, or a memory, holds a number of pins.
SizeOfObjects == ResourceSize \in Nat

Labels == {"off", "run"} \union Res!Starting \union Res!Leaving
ResourceTypes ==
    /\ program \in Programs /\ object \subseteq Ties /\ extra \subseteq Ties
    /\ count \in [Ties -> Nat] /\ line \in [Ties -> Seq(ResourcePins)]
    /\ \A t \in Ties : Len(line[t]) =< ResourceSize
    /\ place \in [Workers -> Labels] /\ tie \in [Workers -> Ties]
    /\ \A w \in Workers : tie[w] \in {Res!FirstTie(w), Res!LastTie(w)}
    /\ hand \in [Workers -> ResourcePins \union {NoPin}]

\* The counter of a tie is the number of the workers that have joined it.
CountersCount == \A t \in Ties : count[t] = Cardinality(Joined(t))

\* What a worker has found or made on its way in.
Begun == \A w \in Workers :
    /\ place[w] \in {"create", "set", "post"} => tie[w] \in object
    /\ program # "8" /\ place[w] = "found" => tie[w] \in object
    /\ program # "8" /\ place[w] \in {"set", "post"} => tie[w] \in extra
    /\ place[w] = "set" => program # "10"
    /\ program = "9" /\ place[w] = "found" =>
          tie[w] \in extra \/ \E v \in Workers : tie[v] = tie[w] /\ place[v] = "remove"

\* Nobody has joined what a worker removes; mark-8 has removed the semaphores first.
Dead == \A w \in Workers :
    /\ place[w] \in {"delete", "remove"} => Joined(tie[w]) = {}
    /\ program = "8" /\ place[w] = "remove" => tie[w] \notin extra

\* What is joined is there; mark-8 makes the semaphores last.
JoinedIsThere == \A t \in Ties : Joined(t) # {} =>
    t \in object /\ (program # "8" => t \in extra)

\* What is there is joined, or a worker is on its way to join or to remove it.
CounterKeepers == {"set", "test", "delete"}
ObjectKeepers == {"set", "create", "remove"} \union (IF program = "8" THEN {} ELSE {"found"})
Kept ==
    /\ \A t \in extra : Joined(t) # {} \/ \E w \in Workers :
          tie[w] = t /\ place[w] \in CounterKeepers
    /\ \A t \in object : t \in extra \/ \E w \in Workers :
          tie[w] = t /\ place[w] \in ObjectKeepers

ResourceInv ==
    /\ SizeOfObjects /\ ResourceTypes /\ CountersCount
    /\ Begun /\ Dead /\ JoinedIsThere /\ Kept

\* What a step leaves of the past.  Who joins a tie was opening it; a tie that is new, or whose
\* removal begins, has no users; and a counter of mark-10 vanishes when it is deleted.
Traced ==
    /\ \A t \in Ties, v \in Workers : v \in Joined(t)' =>
          v \in Joined(t) \/ (tie[v] = t /\ place[v] \in {"create", "set", "post"})
    /\ \A t \in Ties, v \in Workers : place'[v] = "set" /\ tie'[v] = t =>
          (place[v] = "set" /\ tie[v] = t) \/ Joined(t)' = {}
    /\ program = "8" => \A t \in Ties, v \in Workers : place'[v] = "create" /\ tie'[v] = t =>
          (place[v] = "create" /\ tie[v] = t) \/ Joined(t)' \subseteq {v}
    /\ program = "10" => \A v \in Workers : place'[v] = "found" =>
          (place[v] = "found" /\ tie'[v] = tie[v]) \/ tie'[v] \in extra'
    /\ program = "10" => \A t \in extra \ extra' :
          \E v \in Workers : tie[v] = t /\ place[v] = "delete"
    /\ \A v \in Workers : place'[v] = "delete" =>
          place[v] = "delete" \/ Joined(tie[v]) \subseteq {v}

\* The places of a worker, and its ties.
LEMMA ResourceSets ==
    /\ Res!Starting = {"open", "found", "create", "set", "post"}
    /\ Res!Leaving = {"drop", "test", "delete", "remove"}
    /\ Res!Workers = Workers /\ Res!Ties = Ties
    /\ \A w : Res!FirstTie(w) \in Ties /\ Res!LastTie(w) \in Ties
  BY DEF Res!Starting, Res!Leaving, Res!Workers, Workers, Res!Ties, Ties, Res!FirstTie,
     Res!LastTie

\* A counter is 0 when nobody has joined, and the workers are finitely many.
LEMMA JoinedIsFinite ==
    ASSUME NEW t
    PROVE  /\ IsFiniteSet(Joined(t)) /\ Cardinality(Joined(t)) \in Nat
           /\ Cardinality(Joined(t)) =< Cardinality(Workers)
           /\ Cardinality(Joined(t)) = 0 <=> Joined(t) = {}
  <1>1. Joined(t) \subseteq Workers
    BY DEF Joined
  <1>2. IsFiniteSet(Joined(t)) /\ Cardinality(Joined(t)) =< Cardinality(Workers)
    BY <1>1, FS_Subset, PinBufferAssumption
  <1>3. QED
    BY <1>2, FS_CardinalityType, FS_EmptySet

\* One worker moves to a place and a tie.
GoesTo(w, l, t) ==
    /\ program' = program /\ place' = [place EXCEPT ![w] = l] /\ tie' = [tie EXCEPT ![w] = t]

\* Who has joined after a step of w: the same, w too, or no longer w.
LEMMA JoinedAfter ==
    ASSUME ResourceTypes, NEW w \in Workers, NEW l, NEW t, GoesTo(w, l, t)
    PROVE  /\ \A v \in Workers \ {w} : place'[v] = place[v] /\ tie'[v] = tie[v]
           /\ place'[w] = l /\ tie'[w] = t
           /\ \A x : Joined(x)' = IF UnitAt(program, w, l, t, x) THEN Joined(x) \union {w}
                                  ELSE Joined(x) \ {w}
  <1>1. \A v \in Workers \ {w} : place'[v] = place[v] /\ tie'[v] = tie[v]
    BY DEF GoesTo, ResourceTypes
  <1>2. place'[w] = l /\ tie'[w] = t
    BY DEF GoesTo, ResourceTypes
  <1>3. ASSUME NEW x
        PROVE  Joined(x)' = IF UnitAt(program, w, l, t, x) THEN Joined(x) \union {w}
                            ELSE Joined(x) \ {w}
    <2>1. \A v \in Workers : UnitAt(program', v, place'[v], tie'[v], x)
                            <=> IF v = w THEN UnitAt(program, w, l, t, x)
                                ELSE UnitAt(program, v, place[v], tie[v], x)
      BY <1>1, <1>2 DEF GoesTo
    <2>2. Joined(x)' = {v \in Workers : UnitAt(program', v, place'[v], tie'[v], x)}
      BY DEF Joined, UnitAt
    <2>3. QED
      BY <2>1, <2>2 DEF Joined
  <1>4. QED
    BY <1>1, <1>2, <1>3

\* After a step in which no unit comes or goes the same have joined.
SameUnits == \A v \in Workers : \A x :
    UnitAt(program', v, place'[v], tie'[v], x) <=> UnitAt(program, v, place[v], tie[v], x)

\* See SameUnits.
LEMMA JoinedSame ==
    ASSUME SameUnits PROVE \A x : Joined(x)' = Joined(x)
  <1>1. ASSUME NEW x
        PROVE  Joined(x)' = {v \in Workers : UnitAt(program', v, place'[v], tie'[v], x)}
    BY DEF Joined, UnitAt
  <1>2. QED
    BY <1>1 DEF Joined, SameUnits

\* The counters count when one worker joins a tie and its counter is raised, and when one
\* leaves it and its counter is lowered.
LEMMA CountersJoin ==
    ASSUME ResourceTypes, CountersCount, NEW w \in Workers, NEW t \in Ties,
           w \notin Joined(t), Joined(t)' = Joined(t) \union {w},
           \A x \in Ties : x # t => Joined(x)' = Joined(x),
           count' = [count EXCEPT ![t] = @ + 1]
    PROVE  CountersCount' /\ count' \in [Ties -> Nat]
  <1>1. IsFiniteSet(Joined(t)) /\ Cardinality(Joined(t)) \in Nat
    BY JoinedIsFinite
  <1>2. Cardinality(Joined(t) \union {w}) = Cardinality(Joined(t)) + 1
    BY <1>1, FS_AddElement
  <1>3. count[t] = Cardinality(Joined(t)) /\ count'[t] = Cardinality(Joined(t)')
    BY <1>2 DEF CountersCount, ResourceTypes
  <1>4. \A x \in Ties : count'[x] = Cardinality(Joined(x)')
    BY <1>3 DEF CountersCount, ResourceTypes
  <1>5. QED
    BY <1>4 DEF CountersCount, ResourceTypes

\* A counter that is lowered by the worker that leaves stays right.
LEMMA CountersLeave ==
    ASSUME ResourceTypes, CountersCount, NEW w \in Workers, NEW t \in Ties,
           w \in Joined(t), Joined(t)' = Joined(t) \ {w},
           \A x \in Ties : x # t => Joined(x)' = Joined(x),
           count' = [count EXCEPT ![t] = @ - 1]
    PROVE  CountersCount' /\ count' \in [Ties -> Nat]
  <1>1. IsFiniteSet(Joined(t)) /\ Cardinality(Joined(t)) \in Nat
    BY JoinedIsFinite
  <1>2. Cardinality(Joined(t) \ {w}) = Cardinality(Joined(t)) - 1
    BY <1>1, FS_RemoveElement
  <1>3. Cardinality(Joined(t)) # 0
    BY JoinedIsFinite
  <1>4. /\ count[t] = Cardinality(Joined(t)) /\ count'[t] = Cardinality(Joined(t)')
        /\ count[t] - 1 \in Nat
    BY <1>1, <1>2, <1>3 DEF CountersCount, ResourceTypes
  <1>5. \A x \in Ties : count'[x] = Cardinality(Joined(x)')
    BY <1>4 DEF CountersCount, ResourceTypes
  <1>6. QED
    BY <1>4, <1>5 DEF CountersCount, ResourceTypes

\* A counter that is 0 is one of a tie that nobody has joined.
LEMMA ZeroIsNobody ==
    ASSUME ResourceTypes, CountersCount, NEW t \in Ties
    PROVE  count[t] \in Nat /\ (count[t] = 0 <=> Joined(t) = {})
  BY JoinedIsFinite DEF ResourceTypes, CountersCount

\* The types hold after a step that moves w and keeps objects, counters and pins in theirs.
LEMMA TypesAfter ==
    ASSUME ResourceTypes, NEW w \in Workers, NEW l \in Labels, NEW t \in Ties,
           GoesTo(w, l, t), t \in {Res!FirstTie(w), Res!LastTie(w)},
           object' \subseteq Ties, extra' \subseteq Ties, count' \in [Ties -> Nat],
           line' = line, hand' = hand
    PROVE  ResourceTypes'
  BY DEF ResourceTypes, GoesTo

\* After one tie the next, then the work: what was joined before stays so, and the tie is.
LEMMA OpenedGoesTo ==
    ASSUME ResourceInv, NEW w \in Workers, Res!Opened(w), program' = program,
           place[w] \in {"create", "set", "post"}
    PROVE  \E l \in {"run", "open"}, t \in Ties :
              /\ GoesTo(w, l, t) /\ t = Res!LastTie(w)
              /\ \A x : UnitAt(program, w, l, t, x) <=>
                    x = tie[w] \/ UnitAt(program, w, place[w], tie[w], x)
  <1>1. tie[w] \in {Res!FirstTie(w), Res!LastTie(w)} /\ tie[w] \in Ties
    BY DEF ResourceInv, ResourceTypes
  <1>2. CASE tie[w] = Res!LastTie(w)
    <2>1. GoesTo(w, "run", tie[w])
      BY <1>2 DEF Res!Opened, Res!Stay, GoesTo, ResourceInv, ResourceTypes
    <2>2. \A x : UnitAt(program, w, "run", tie[w], x) <=>
              x = tie[w] \/ UnitAt(program, w, place[w], tie[w], x)
      BY <1>2 DEF UnitAt
    <2>3. QED
      BY <1>1, <1>2, <2>1, <2>2
  <1>3. CASE tie[w] # Res!LastTie(w)
    <2>1. GoesTo(w, "open", Res!LastTie(w)) /\ Res!LastTie(w) \in Ties
      BY <1>3, ResourceSets DEF Res!Opened, GoesTo
    <2>2. \A x : UnitAt(program, w, "open", Res!LastTie(w), x) <=>
              x = tie[w] \/ UnitAt(program, w, place[w], tie[w], x)
      BY <1>1, <1>3 DEF UnitAt
    <2>3. QED
      BY <2>1, <2>2
  <1>4. QED
    BY <1>2, <1>3

\* A worker that leaves its tie goes to the one before, or to its end.  Unless it was counted
\* in the tie itself it keeps its units.
LEMMA BeforeIs ==
    ASSUME ResourceTypes, NEW w \in Workers
    PROVE  /\ Res!Before(w) \in {"off", "drop"} /\ Res!FirstTie(w) \in Ties
           /\ place[w] \notin {"off", "run"} =>
                 \A x : UnitAt(program, w, Res!Before(w), Res!FirstTie(w), x) <=>
                    x # tie[w] /\ UnitAt(program, w, place[w], tie[w], x)
           /\ place[w] \notin {"off", "run", "drop"} /\ ~(program = "8" /\ place[w] = "create")
                 => ~UnitAt(program, w, place[w], tie[w], tie[w])
  BY ResourceSets DEF UnitAt, Res!Before, ResourceTypes

\* What Left does to the worker that leaves.
LEMMA LeftGoesTo ==
    ASSUME ResourceTypes, NEW w \in Workers, Res!Left(w), program' = program
    PROVE  GoesTo(w, Res!Before(w), Res!FirstTie(w))
  BY ResourceSets DEF Res!Left, Res!Leave, GoesTo, ResourceTypes

\* A step that moves one worker to a place with its units: the types hold, the same have
\* joined, and the counters count.
LEMMA MoveKeeps ==
    ASSUME ResourceInv, NEW w \in Workers, NEW l \in Labels, NEW t \in Ties,
           GoesTo(w, l, t), t \in {Res!FirstTie(w), Res!LastTie(w)},
           \A x : UnitAt(program, w, l, t, x) <=> UnitAt(program, w, place[w], tie[w], x),
           object' \subseteq Ties, extra' \subseteq Ties, UNCHANGED <<count, line, hand>>
    PROVE  /\ \A v \in Workers \ {w} : place'[v] = place[v] /\ tie'[v] = tie[v]
           /\ place'[w] = l /\ tie'[w] = t /\ program' = program
           /\ \A x : Joined(x)' = Joined(x)
           /\ ResourceTypes' /\ CountersCount'
  <1>1. /\ \A v \in Workers \ {w} : place'[v] = place[v] /\ tie'[v] = tie[v]
        /\ place'[w] = l /\ tie'[w] = t /\ program' = program
    BY JoinedAfter DEF GoesTo, ResourceInv
  <1>2. \A x : w \in Joined(x) <=> UnitAt(program, w, l, t, x)
    BY DEF Joined
  <1>3. \A x : Joined(x)' = Joined(x)
    BY <1>2, JoinedAfter DEF ResourceInv
  <1>4. ResourceTypes'
    BY TypesAfter DEF ResourceInv, ResourceTypes
  <1>5. CountersCount'
    BY <1>3 DEF ResourceInv, CountersCount
  <1>6. QED
    BY <1>1, <1>3, <1>4, <1>5

\* GoesTo, for a worker that keeps its tie.
LEMMA StayGoesTo ==
    ASSUME ResourceTypes, NEW w \in Workers, NEW l, Res!Stay(w, l), program' = program
    PROVE  GoesTo(w, l, tie[w])
  BY DEF Res!Stay, GoesTo, ResourceTypes

\* shmget, msgget, mq_open: what is not there is made, and in mark-8 its counter is 0.
LEMMA GetStep ==
    ASSUME ResourceInv, NEW w \in Workers, program' = program,
           Res!GetMemory(w) \/ Res!GetQueue(w) \/ Res!OpenQueue(w)
    PROVE  ResourceInv' /\ Traced
  <1>0. PICK t : t = tie[w]
    OBVIOUS
  <1> DEFINE l == IF program # "8" THEN "create" ELSE IF t \in object THEN "found" ELSE "set"
  <1>1. /\ t = tie[w] /\ place[w] = "open" /\ t \in Ties
        /\ t \in {Res!FirstTie(w), Res!LastTie(w)}
        /\ l \in {"found", "set", "create"} /\ l \in Labels
        /\ l = "create" <=> program # "8"
        /\ l = "set" => program = "8" /\ t \notin object
    BY <1>0, ResourceSets DEF Res!GetMemory, Res!GetQueue, Res!OpenQueue, Res!At, ResourceInv,
       ResourceTypes, Labels
  <1>2. /\ object' = object \union {t} /\ extra' = extra /\ line' = line /\ hand' = hand
        /\ Res!Stay(w, l)
    BY <1>0 DEF Res!GetMemory, Res!GetQueue, Res!OpenQueue
  <1>3. GoesTo(w, l, t)
    BY <1>0, <1>2, StayGoesTo DEF ResourceInv
  <1>4. count' = count
    <2>1. CASE count' = [count EXCEPT ![t] = 0] /\ program = "8" /\ t \notin object
      <3>1. Joined(t) = {} /\ count[t] = 0
        BY <1>1, <2>1, ZeroIsNobody DEF ResourceInv, JoinedIsThere
      <3>2. QED
        BY <2>1, <3>1 DEF ResourceInv, ResourceTypes
    <2>2. QED
      BY <1>0, <2>1 DEF Res!GetMemory, Res!GetQueue, Res!OpenQueue
  <1>5. \A x : UnitAt(program, w, l, t, x) <=> UnitAt(program, w, place[w], tie[w], x)
    BY <1>1 DEF UnitAt
  <1>6. /\ \A v \in Workers \ {w} : place'[v] = place[v] /\ tie'[v] = tie[v]
        /\ place'[w] = l /\ tie'[w] = t /\ program' = program
        /\ \A x : Joined(x)' = Joined(x)
        /\ ResourceTypes' /\ CountersCount'
    <2>1. object' \subseteq Ties /\ extra' \subseteq Ties
      BY <1>1, <1>2 DEF ResourceInv, ResourceTypes
    <2>2. QED
      BY <1>1, <1>2, <1>3, <1>4, <1>5, <2>1, MoveKeeps
  <1>7. Begun'
    BY <1>1, <1>2, <1>6 DEF ResourceInv, Begun
  <1>8. Dead' /\ JoinedIsThere'
    BY <1>1, <1>2, <1>6 DEF ResourceInv, Dead, JoinedIsThere
  <1>9. Kept'
    BY <1>1, <1>2, <1>6 DEF ResourceInv, Kept, CounterKeepers, ObjectKeepers
  <1>10. Traced
    BY <1>1, <1>2, <1>6 DEF ResourceInv, JoinedIsThere, Traced
  <1>11. QED
    BY <1>6, <1>7, <1>8, <1>9, <1>10 DEF ResourceInv, SizeOfObjects

\* semget, sem_open of a counting semaphore: in mark-9 the first to come makes it and has to
\* set it, in both marks the others go on to find it.
LEMMA CounterStep ==
    ASSUME ResourceInv, NEW w \in Workers, program' = program,
           Res!CreateCounter(w) \/ (Res!OpenCounter(w) /\ tie[w] \in extra)
    PROVE  ResourceInv' /\ Traced
  <1>0. PICK t : t = tie[w]
    OBVIOUS
  <1> DEFINE l == IF t \in extra THEN "found" ELSE "set"
  <1>1. /\ t = tie[w] /\ place[w] = "create" /\ t \in Ties
        /\ t \in {Res!FirstTie(w), Res!LastTie(w)}
        /\ l \in {"found", "set"} /\ l \in Labels /\ program \in {"9", "10"}
        /\ l = "set" <=> t \notin extra
        /\ l = "set" => program = "9"
    BY <1>0, ResourceSets DEF Res!CreateCounter, Res!OpenCounter, Res!At, ResourceInv,
       ResourceTypes, Labels
  <1>2. /\ object' = object /\ extra' = extra \union {t} /\ line' = line /\ hand' = hand
        /\ Res!Stay(w, l)
    BY <1>0 DEF Res!CreateCounter, Res!OpenCounter
  <1>3. GoesTo(w, l, t)
    BY <1>0, <1>2, StayGoesTo DEF ResourceInv
  <1>4. count' = count
    <2>1. CASE count' = [count EXCEPT ![t] = 0] /\ t \notin extra
      <3>1. Joined(t) = {} /\ count[t] = 0
        BY <1>1, <2>1, ZeroIsNobody DEF ResourceInv, JoinedIsThere
      <3>2. QED
        BY <2>1, <3>1 DEF ResourceInv, ResourceTypes
    <2>2. QED
      BY <1>0, <2>1 DEF Res!CreateCounter, Res!OpenCounter
  <1>5. \A x : UnitAt(program, w, l, t, x) <=> UnitAt(program, w, place[w], tie[w], x)
    BY <1>1 DEF UnitAt
  <1>6. /\ \A v \in Workers \ {w} : place'[v] = place[v] /\ tie'[v] = tie[v]
        /\ place'[w] = l /\ tie'[w] = t /\ program' = program
        /\ \A x : Joined(x)' = Joined(x)
        /\ ResourceTypes' /\ CountersCount'
    <2>1. object' \subseteq Ties /\ extra' \subseteq Ties
      BY <1>1, <1>2 DEF ResourceInv, ResourceTypes
    <2>2. QED
      BY <1>1, <1>2, <1>3, <1>4, <1>5, <2>1, MoveKeeps
  <1>7. Begun'
    BY <1>1, <1>2, <1>6 DEF ResourceInv, Begun
  <1>8. Dead' /\ JoinedIsThere'
    BY <1>1, <1>2, <1>6 DEF ResourceInv, Dead, JoinedIsThere
  <1>9. Kept'
    BY <1>1, <1>2, <1>6 DEF ResourceInv, Kept, CounterKeepers, ObjectKeepers
  <1>10. Traced
    BY <1>1, <1>2, <1>6 DEF ResourceInv, JoinedIsThere, Traced
  <1>11. QED
    BY <1>6, <1>7, <1>8, <1>9, <1>10 DEF ResourceInv, SizeOfObjects

\* Who finds what another has made goes on to raise its counter.
LEMMA FindStep ==
    ASSUME ResourceInv, NEW w \in Workers, program' = program,
           \/ Res!FindMemory(w) /\ tie[w] \in object
           \/ Res!FindCounter(w) /\ tie[w] \in extra
           \/ Res!ReopenCounter(w)
    PROVE  ResourceInv' /\ Traced
  <1>0. PICK t : t = tie[w]
    OBVIOUS
  <1>1. /\ t = tie[w] /\ place[w] = "found" /\ t \in Ties
        /\ t \in {Res!FirstTie(w), Res!LastTie(w)} /\ "post" \in Labels
        /\ IF program = "8" THEN t \in object ELSE t \in extra
    BY <1>0, ResourceSets DEF Res!FindMemory, Res!FindCounter, Res!ReopenCounter, Res!At,
       ResourceInv, ResourceTypes, Labels
  <1>2. UNCHANGED <<object, extra, count, line, hand>> /\ Res!Stay(w, "post")
    BY <1>0 DEF Res!FindMemory, Res!FindCounter, Res!ReopenCounter, Res!objects
  <1>3. GoesTo(w, "post", t)
    BY <1>0, <1>2, StayGoesTo DEF ResourceInv
  <1>4. \A x : UnitAt(program, w, "post", t, x) <=> UnitAt(program, w, place[w], tie[w], x)
    BY <1>1 DEF UnitAt
  <1>5. /\ \A v \in Workers \ {w} : place'[v] = place[v] /\ tie'[v] = tie[v]
        /\ place'[w] = "post" /\ tie'[w] = t /\ program' = program
        /\ \A x : Joined(x)' = Joined(x)
        /\ ResourceTypes' /\ CountersCount'
    <2>1. object' \subseteq Ties /\ extra' \subseteq Ties
      BY <1>2 DEF ResourceInv, ResourceTypes
    <2>2. QED
      BY <1>1, <1>2, <1>3, <1>4, <2>1, MoveKeeps
  <1>6. t \in object
    BY <1>1 DEF ResourceInv, Begun
  <1>7. Begun'
    BY <1>1, <1>2, <1>5, <1>6 DEF ResourceInv, Begun
  <1>8. Dead' /\ JoinedIsThere'
    BY <1>1, <1>2, <1>5 DEF ResourceInv, Dead, JoinedIsThere
  <1>9. Kept'
    BY <1>1, <1>2, <1>5 DEF ResourceInv, Kept, CounterKeepers, ObjectKeepers
  <1>10. Traced
    BY <1>1, <1>2, <1>5 DEF Traced
  <1>11. QED
    BY <1>5, <1>7, <1>8, <1>9, <1>10 DEF ResourceInv, SizeOfObjects

\* A start that fails, or is given up for a signal, leaves a tie that it is not counted in;
\* a queue has somebody else to remove it.
LEMMA FailStep ==
    ASSUME ResourceInv, NEW w \in Workers, program' = program,
           \/ Res!FindMemory(w) /\ tie[w] \notin object
           \/ Res!FindCounter(w) /\ tie[w] \notin extra
           \/ Res!QuitEarly(w)
    PROVE  ResourceInv' /\ Traced
  <1>0. PICK own : own = tie[w]
    OBVIOUS
  <1> DEFINE t == Res!FirstTie(w)
  <1> DEFINE l == Res!Before(w)
  <1>1. /\ own = tie[w] /\ own \in Ties /\ place[w] \in {"open", "found", "create", "post"}
        /\ program = "8" => place[w] # "create"
        /\ Res!Left(w) /\ UNCHANGED <<object, extra, count, line, hand>>
    BY <1>0 DEF Res!FindMemory, Res!FindCounter, Res!QuitEarly, Res!At, Res!objects,
       ResourceInv, ResourceTypes
  <1>2. /\ GoesTo(w, l, t) /\ l \in {"off", "drop"} /\ l \in Labels /\ t \in Ties
        /\ t \in {Res!FirstTie(w), Res!LastTie(w)}
    BY <1>1, LeftGoesTo, BeforeIs, ResourceSets DEF ResourceInv, Labels
  <1>3. \A x : UnitAt(program, w, l, t, x) <=> UnitAt(program, w, place[w], tie[w], x)
    BY <1>1, BeforeIs DEF ResourceInv
  <1>4. /\ \A v \in Workers \ {w} : place'[v] = place[v] /\ tie'[v] = tie[v]
        /\ place'[w] = l /\ tie'[w] = t /\ program' = program
        /\ \A x : Joined(x)' = Joined(x)
        /\ ResourceTypes' /\ CountersCount'
    <2>1. object' \subseteq Ties /\ extra' \subseteq Ties
      BY <1>1 DEF ResourceInv, ResourceTypes
    <2> HIDE DEF l, t
    <2>2. QED
      BY <1>1, <1>2, <1>3, <2>1, MoveKeeps
  <1> HIDE DEF l, t
  <1>5. place[w] \in ObjectKeepers =>
            own \in extra \/ \E v \in Workers \ {w} : tie[v] = own /\ place[v] \in ObjectKeepers
    <2>1. SUFFICES ASSUME place[w] \in ObjectKeepers
                   PROVE  own \in extra \/ \E v \in Workers \ {w} :
                             tie[v] = own /\ place[v] \in ObjectKeepers
      OBVIOUS
    <2>2. program # "8" /\ place[w] \in {"found", "create"}
      BY <1>1, <2>1 DEF ObjectKeepers
    <2>3. CASE Res!QuitEarly(w)
      <3>1. own \in extra \/ \E v \in Res!Workers \ {w} :
               tie[v] = own /\ place[v] \in {"create", "found", "remove"}
        BY <1>0, <2>2, <2>3 DEF Res!QuitEarly, Res!CaredFor, Res!Others, Res!At
      <3>2. QED
        BY <2>2, <3>1, ResourceSets DEF ObjectKeepers
    <2>4. CASE Res!FindCounter(w)
      <3>1. program = "9" /\ place[w] = "found"
        BY <2>4 DEF Res!FindCounter, Res!At
      <3>2. QED
        BY <1>1, <3>1 DEF ResourceInv, Begun, ObjectKeepers
    <2>5. QED
      BY <2>2, <2>3, <2>4 DEF Res!FindMemory
  <1>6. Begun'
    BY <1>1, <1>2, <1>4 DEF ResourceInv, Begun
  <1>7. Dead' /\ JoinedIsThere'
    BY <1>1, <1>2, <1>4 DEF ResourceInv, Dead, JoinedIsThere
  <1>8. Kept'
    <2>1. ObjectKeepers' = ObjectKeepers /\ CounterKeepers' = CounterKeepers
      BY <1>4 DEF ObjectKeepers, CounterKeepers
    <2>2. place[w] \notin CounterKeepers
      BY <1>1 DEF CounterKeepers
    <2>3. QED
      BY <1>1, <1>4, <1>5, <2>1, <2>2 DEF ResourceInv, Kept
  <1>9. Traced
    BY <1>1, <1>2, <1>4 DEF Traced
  <1>10. QED
    BY <1>4, <1>6, <1>7, <1>8, <1>9 DEF ResourceInv, SizeOfObjects

\* Nobody else removes the tie of a worker that joins it.
LEMMA NotDying ==
    ASSUME ResourceTypes, NEW w \in Workers, ~Res!Dying(w)
    PROVE  \A v \in Workers \ {w} : tie[v] = tie[w] => place[v] \notin {"delete", "remove"}
  BY ResourceSets DEF Res!Dying, Res!Others

\* init_shared_memory sets the counter in the new memory.
LEMMA InitMemoryStep ==
    ASSUME ResourceInv, NEW w \in Workers, program' = program, Res!InitMemory(w)
    PROVE  ResourceInv' /\ Traced
  <1>0. PICK t : t = tie[w]
    OBVIOUS
  <1>1. /\ t = tie[w] /\ program = "8" /\ place[w] = "set" /\ t \in Ties
        /\ t \in {Res!FirstTie(w), Res!LastTie(w)} /\ "create" \in Labels
        /\ object' = object /\ extra' = extra /\ count' = [count EXCEPT ![t] = 1]
        /\ line' = line /\ hand' = hand /\ Res!Stay(w, "create")
        /\ count[t] = 0 /\ ~Res!Dying(w)
    BY <1>0, ResourceSets DEF Res!InitMemory, Res!At, ResourceInv, ResourceTypes, Labels
  <1>2. GoesTo(w, "create", t)
    BY <1>1, StayGoesTo DEF ResourceInv
  <1>3. Joined(t) = {} /\ t \in object
    BY <1>1, ZeroIsNobody DEF ResourceInv, Begun
  <1>4. Joined(t)' = Joined(t) \union {w} /\ \A x : x # t => Joined(x)' = Joined(x)
    BY <1>1, <1>2, JoinedAfter DEF UnitAt, Joined, ResourceInv
  <1>5. CountersCount' /\ count' \in [Ties -> Nat]
    <2>1. w \notin Joined(t) /\ count' = [count EXCEPT ![t] = @ + 1]
      BY <1>1, <1>3 DEF ResourceInv, ResourceTypes
    <2>2. QED
      BY <1>1, <1>4, <2>1, CountersJoin DEF ResourceInv
  <1>6. ResourceTypes'
    BY <1>1, <1>2, <1>5, TypesAfter DEF ResourceInv, ResourceTypes
  <1>7. /\ \A v \in Workers \ {w} : place'[v] = place[v] /\ tie'[v] = tie[v]
        /\ place'[w] = "create" /\ tie'[w] = t /\ program' = program
    BY ZenonT(60), <1>2, JoinedAfter DEF ResourceInv, GoesTo
  <1>8. \A v \in Workers \ {w} : tie[v] = t => place[v] \notin {"delete", "remove"}
    BY <1>1, NotDying DEF ResourceInv
  <1>9. Begun'
    BY <1>1, <1>3, <1>7 DEF ResourceInv, Begun
  <1>10. Dead' /\ JoinedIsThere'
    BY <1>1, <1>3, <1>4, <1>7, <1>8 DEF ResourceInv, Dead, JoinedIsThere
  <1>11. Kept'
    BY <1>1, <1>4, <1>7 DEF ResourceInv, Kept, CounterKeepers, ObjectKeepers
  <1>12. Traced
    BY <1>1, <1>3, <1>4, <1>7 DEF Traced
  <1>13. QED
    BY <1>5, <1>6, <1>9, <1>10, <1>11, <1>12 DEF ResourceInv, SizeOfObjects

\* The semaphores of mark-8: the memory is whole, and the worker goes on to its next tie.
LEMMA CreateSemaphoresStep ==
    ASSUME ResourceInv, NEW w \in Workers, program' = program, Res!CreateSemaphores(w)
    PROVE  ResourceInv' /\ Traced
  <1>0. PICK own : own = tie[w]
    OBVIOUS
  <1>1. /\ own = tie[w] /\ program = "8" /\ place[w] = "create" /\ own \in Ties
        /\ Res!Opened(w)
        /\ object' = object /\ extra' = extra \union {own} /\ count' = count
        /\ line' = line /\ hand' = hand
    BY <1>0 DEF Res!CreateSemaphores, Res!At, ResourceInv, ResourceTypes
  <1>2. PICK l \in {"run", "open"}, t \in Ties :
            /\ GoesTo(w, l, t) /\ t = Res!LastTie(w)
            /\ \A x : UnitAt(program, w, l, t, x) <=>
                  x = own \/ UnitAt(program, w, place[w], own, x)
    BY <1>0, <1>1, OpenedGoesTo
  <1>3. \A x : UnitAt(program, w, l, t, x) <=> UnitAt(program, w, place[w], tie[w], x)
    BY <1>1, <1>2 DEF UnitAt
  <1>4. /\ \A v \in Workers \ {w} : place'[v] = place[v] /\ tie'[v] = tie[v]
        /\ place'[w] = l /\ tie'[w] = t /\ program' = program
        /\ \A x : Joined(x)' = Joined(x)
        /\ ResourceTypes' /\ CountersCount'
    <2>1. object' \subseteq Ties /\ extra' \subseteq Ties /\ l \in Labels
      BY <1>1, <1>2, ResourceSets DEF ResourceInv, ResourceTypes, Labels
    <2>2. QED
      BY <1>1, <1>2, <1>3, <2>1, MoveKeeps
  <1>5. own \in object /\ w \in Joined(own)
    BY <1>0, <1>1 DEF ResourceInv, Begun, Joined, UnitAt
  <1>6. Begun'
    BY <1>1, <1>2, <1>4 DEF ResourceInv, Begun
  <1>7. Dead' /\ JoinedIsThere'
    BY <1>1, <1>2, <1>4, <1>5 DEF ResourceInv, Dead, JoinedIsThere
  <1>8. Kept'
    BY <1>1, <1>4, <1>5 DEF ResourceInv, Kept, CounterKeepers, ObjectKeepers
  <1>9. Traced
    BY <1>1, <1>2, <1>4 DEF Traced
  <1>10. QED
    BY <1>4, <1>6, <1>7, <1>8, <1>9 DEF ResourceInv, SizeOfObjects

\* The worker joins its tie: it raises the counter, or sets that of a new tie to 1.
LEMMA JoinStep ==
    ASSUME ResourceInv, NEW w \in Workers, program' = program,
           \/ Res!JoinMemory(w) \/ Res!SetCounter(w) \/ Res!RaiseCounter(w) \/ Res!PostCounter(w)
           \/ (Res!OpenCounter(w) /\ tie[w] \notin extra)
    PROVE  ResourceInv' /\ Traced
  <1>0. PICK own : own = tie[w]
    OBVIOUS
  <1>1. /\ own = tie[w] /\ own \in Ties /\ Res!Opened(w) /\ ~Res!Dying(w)
        /\ \/ place[w] = "post"
           \/ place[w] = "set" /\ program = "9" /\ count[own] = 0
           \/ place[w] = "create" /\ program = "10" /\ own \notin extra
        /\ object' = object /\ line' = line /\ hand' = hand
        /\ extra' = extra \union (IF program = "10" THEN {own} ELSE {})
    <2>1. own \in Ties /\ (program = "10" /\ place[w] = "post" => own \in extra)
      BY <1>0 DEF ResourceInv, ResourceTypes, Begun
    <2>2. QED
      BY <1>0, <2>1 DEF Res!JoinMemory, Res!SetCounter, Res!RaiseCounter, Res!PostCounter,
         Res!OpenCounter, Res!At
  <1>2. own \in object /\ (program # "8" => own \in extra')
    BY <1>1 DEF ResourceInv, Begun
  <1>3. count' = [count EXCEPT ![own] = @ + 1]
    <2>1. CASE place[w] = "post"
      BY <1>0, <2>1 DEF Res!JoinMemory, Res!SetCounter, Res!RaiseCounter, Res!PostCounter,
         Res!OpenCounter, Res!At, Res!Add
    <2>2. CASE place[w] # "post"
      <3>1. count' = [count EXCEPT ![own] = 1]
        BY <1>0, <2>2 DEF Res!JoinMemory, Res!SetCounter, Res!RaiseCounter, Res!PostCounter,
             Res!OpenCounter, Res!At, Res!Add
      <3>2. count[own] = 0
        BY <1>1, <2>2, ZeroIsNobody DEF ResourceInv, JoinedIsThere
      <3>3. QED
        BY <3>1, <3>2
    <2>3. QED
      BY <2>1, <2>2
  <1>4. PICK l \in {"run", "open"}, t \in Ties :
            /\ GoesTo(w, l, t) /\ t = Res!LastTie(w)
            /\ \A x : UnitAt(program, w, l, t, x) <=>
                  x = own \/ UnitAt(program, w, place[w], own, x)
    BY <1>0, <1>1, OpenedGoesTo
  <1>5. w \notin Joined(own)
    BY <1>0, <1>1 DEF UnitAt, Joined
  <1>6. Joined(own)' = Joined(own) \union {w} /\ \A x : x # own => Joined(x)' = Joined(x)
    <2>1. \A x : w \in Joined(x) <=> UnitAt(program, w, place[w], own, x)
      BY <1>0 DEF Joined
    <2>2. \A x : Joined(x)' = IF UnitAt(program, w, l, t, x) THEN Joined(x) \union {w}
                              ELSE Joined(x) \ {w}
      BY <1>4, JoinedAfter DEF ResourceInv
    <2>3. \A x : Joined(x)' = IF x = own \/ w \in Joined(x) THEN Joined(x) \union {w}
                              ELSE Joined(x) \ {w}
      BY <1>4, <2>1, <2>2
    <2>4. QED
      BY <2>3
  <1>7. CountersCount' /\ count' \in [Ties -> Nat]
    BY <1>1, <1>3, <1>5, <1>6, CountersJoin DEF ResourceInv
  <1>8. ResourceTypes'
    <2>1. l \in Labels /\ object' \subseteq Ties /\ extra' \subseteq Ties
      BY <1>1, <1>4, ResourceSets DEF ResourceInv, ResourceTypes, Labels
    <2>2. QED
      BY <1>1, <1>4, <1>7, <2>1, TypesAfter DEF ResourceInv
  <1>9. /\ \A v \in Workers \ {w} : place'[v] = place[v] /\ tie'[v] = tie[v]
        /\ place'[w] = l /\ tie'[w] = t /\ program' = program
    BY <1>4, JoinedAfter DEF ResourceInv, GoesTo
  <1>10. \A v \in Workers \ {w} : tie[v] = own => place[v] \notin {"delete", "remove"}
    BY <1>1, NotDying DEF ResourceInv
  <1>11. Begun'
    BY <1>1, <1>9 DEF ResourceInv, Begun
  <1>12. Dead'
    BY <1>1, <1>6, <1>9, <1>10 DEF ResourceInv, Dead
  <1>13. JoinedIsThere'
    BY <1>1, <1>2, <1>6, <1>9 DEF ResourceInv, JoinedIsThere
  <1>14. Kept'
    <2>1. Joined(own)' # {} /\ \A x : Joined(x) # {} => Joined(x)' # {}
      BY <1>6
    <2>2. ObjectKeepers' = ObjectKeepers /\ CounterKeepers' = CounterKeepers
      BY <1>9 DEF ObjectKeepers, CounterKeepers
    <2>3. place[w] \in ObjectKeepers => program # "8"
      BY <1>1 DEF ObjectKeepers
    <2>4. QED
      BY <1>1, <1>2, <1>9, <2>1, <2>2, <2>3 DEF ResourceInv, Kept
  <1>15. Traced
    BY <1>1, <1>4, <1>6, <1>9 DEF Traced
  <1>16. QED
    BY <1>7, <1>8, <1>11, <1>12, <1>13, <1>14, <1>15 DEF ResourceInv, SizeOfObjects

\* The worker leaves its tie: it lowers the counter, and of mark-8 the one that finds 1 there
\* goes on to remove the objects, the others to the tie before.
LEMMA LeaveStep ==
    ASSUME ResourceInv, NEW w \in Workers, program' = program,
           Res!LeaveMemory(w) \/ Res!LowerCounter(w) \/ Res!TryWaitCounter(w)
    PROVE  ResourceInv' /\ Traced
  <1>0. PICK own : own = tie[w]
    OBVIOUS
  <1>1. /\ own = tie[w] /\ place[w] = "drop" /\ own \in Ties
        /\ own \in {Res!FirstTie(w), Res!LastTie(w)}
        /\ object' = object /\ extra' = extra /\ line' = line /\ hand' = hand
    BY <1>0 DEF Res!LeaveMemory, Res!LowerCounter, Res!TryWaitCounter, Res!At, ResourceInv,
       ResourceTypes
  <1>2. w \in Joined(own)
    BY <1>1 DEF UnitAt, Joined
  <1>3. own \in object /\ (program # "8" => own \in extra)
    BY <1>1, <1>2 DEF ResourceInv, JoinedIsThere
  <1>4. count[own] \in Nat /\ count[own] > 0
    BY <1>1, <1>2, ZeroIsNobody DEF ResourceInv
  <1>5. /\ count' = [count EXCEPT ![own] = @ - 1]
        /\ \/ program = "8" /\ count[own] = 1 /\ Res!Stay(w, "delete")
           \/ program = "8" /\ count[own] # 1 /\ Res!Left(w)
           \/ program \in {"9", "10"} /\ Res!Stay(w, "test")
    BY <1>1, <1>3, <1>4 DEF Res!LeaveMemory, Res!LowerCounter, Res!TryWaitCounter, Res!Lower
  <1>6. PICK l \in {"delete", "off", "drop", "test"}, t \in Ties :
            /\ GoesTo(w, l, t) /\ t \in {Res!FirstTie(w), Res!LastTie(w)}
            /\ \A x : UnitAt(program, w, l, t, x) <=>
                  x # own /\ UnitAt(program, w, place[w], own, x)
            /\ l = "delete" => program = "8" /\ count[own] = 1
            /\ l \in {"off", "drop"} => program = "8" /\ count[own] # 1
            /\ l = "test" => program \in {"9", "10"}
            /\ l \in {"delete", "test"} => t = own
    <2>1. \A l \in {"delete", "test"} : \A x : UnitAt(program, w, l, own, x) <=>
              x # own /\ UnitAt(program, w, place[w], own, x)
      BY <1>1 DEF UnitAt
    <2>2. \A l : Res!Stay(w, l) => GoesTo(w, l, own)
      BY <1>1, StayGoesTo DEF ResourceInv
    <2>3. CASE program = "8" /\ count[own] # 1 /\ Res!Left(w)
      <3>1. GoesTo(w, Res!Before(w), Res!FirstTie(w))
        BY <2>3, LeftGoesTo DEF ResourceInv
      <3>2. QED
        BY <1>1, <2>3, <3>1, BeforeIs DEF ResourceInv
    <2>4. QED
      BY <1>1, <1>5, <2>1, <2>2, <2>3
  <1>7. Joined(own)' = Joined(own) \ {w} /\ \A x : x # own => Joined(x)' = Joined(x)
    <2>1. \A x : w \in Joined(x) <=> UnitAt(program, w, place[w], own, x)
      BY <1>1 DEF Joined
    <2>2. \A x : Joined(x)' = IF UnitAt(program, w, l, t, x) THEN Joined(x) \union {w}
                              ELSE Joined(x) \ {w}
      BY <1>6, JoinedAfter DEF ResourceInv
    <2>3. \A x : Joined(x)' = IF x # own /\ w \in Joined(x) THEN Joined(x) \union {w}
                              ELSE Joined(x) \ {w}
      BY <1>6, <2>1, <2>2
    <2>4. QED
      BY <2>3
  <1>8. CountersCount' /\ count' \in [Ties -> Nat]
    BY <1>1, <1>2, <1>5, <1>7, CountersLeave DEF ResourceInv
  <1>9. ResourceTypes'
    <2>1. l \in Labels /\ object' \subseteq Ties /\ extra' \subseteq Ties
      BY <1>1, <1>6, ResourceSets DEF ResourceInv, ResourceTypes, Labels
    <2>2. QED
      BY <1>1, <1>6, <1>8, <2>1, TypesAfter DEF ResourceInv
  <1>10. /\ \A v \in Workers \ {w} : place'[v] = place[v] /\ tie'[v] = tie[v]
         /\ place'[w] = l /\ tie'[w] = t /\ program' = program
    BY <1>6, JoinedAfter DEF ResourceInv, GoesTo
  <1>11. count'[own] = count[own] - 1 /\ (count'[own] = 0 <=> Joined(own)' = {})
    <2>1. count'[own] = count[own] - 1
      BY <1>1, <1>5 DEF ResourceInv, ResourceTypes
    <2>2. count'[own] = Cardinality(Joined(own)')
      BY <1>1, <1>8 DEF CountersCount
    <2>3. Cardinality(Joined(own) \ {w}) = 0 <=> Joined(own) \ {w} = {}
      BY JoinedIsFinite, FS_RemoveElement, FS_EmptySet
    <2>4. QED
      BY <1>7, <2>1, <2>2, <2>3
  <1>12. /\ l = "delete" => Joined(own)' = {}
         /\ l \in {"off", "drop"} => Joined(own)' # {}
    BY <1>4, <1>6, <1>11
  <1>13. Begun'
    BY <1>1, <1>6, <1>10 DEF ResourceInv, Begun
  <1>14. Dead' /\ JoinedIsThere'
    BY <1>1, <1>6, <1>7, <1>10, <1>12 DEF ResourceInv, Dead, JoinedIsThere
  <1>15. Kept'
    <2>1. Joined(own)' # {} \/ (place'[w] \in {"test", "delete"} /\ tie'[w] = own)
      BY <1>6, <1>10, <1>12
    <2>2. \A x : x # own => Joined(x)' = Joined(x)
      BY <1>7
    <2>3. ObjectKeepers' = ObjectKeepers /\ place[w] \notin ObjectKeepers
      BY <1>1, <1>10 DEF ObjectKeepers
    <2>4. QED
      BY <1>1, <1>10, <2>1, <2>2, <2>3 DEF ResourceInv, Kept, CounterKeepers
  <1>16. Traced
    BY <1>1, <1>6, <1>7, <1>10, <1>12 DEF Traced
  <1>17. QED
    BY <1>8, <1>9, <1>13, <1>14, <1>15, <1>16 DEF ResourceInv, SizeOfObjects

\* Who reads 0 in the counter it has lowered removes the objects; who reads more knows that
\* somebody has joined.
LEMMA ReadStep ==
    ASSUME ResourceInv, NEW w \in Workers, program' = program,
           Res!ReadCounter(w) \/ Res!GetValue(w)
    PROVE  ResourceInv' /\ Traced
  <1>0. PICK own : own = tie[w]
    OBVIOUS
  <1>1. /\ own = tie[w] /\ place[w] = "test" /\ own \in Ties /\ program # "8"
        /\ own \in {Res!FirstTie(w), Res!LastTie(w)}
        /\ UNCHANGED <<object, extra, count, line, hand>>
        /\ IF count[own] = 0 THEN Res!Stay(w, "delete") ELSE Res!Left(w)
    BY <1>0 DEF Res!ReadCounter, Res!GetValue, Res!At, Res!objects, ResourceInv, ResourceTypes
  <1>2. count[own] = 0 <=> Joined(own) = {}
    BY <1>1, ZeroIsNobody DEF ResourceInv
  <1>3. PICK l \in {"delete", "off", "drop"}, t \in Ties :
            /\ GoesTo(w, l, t) /\ t \in {Res!FirstTie(w), Res!LastTie(w)}
            /\ \A x : UnitAt(program, w, l, t, x) <=> UnitAt(program, w, place[w], tie[w], x)
            /\ IF l = "delete" THEN t = own /\ Joined(own) = {} ELSE Joined(own) # {}
    <2>1. CASE count[own] = 0
      <3>1. GoesTo(w, "delete", own)
        BY <1>1, <2>1, StayGoesTo DEF ResourceInv
      <3>2. \A x : UnitAt(program, w, "delete", own, x) <=>
                   UnitAt(program, w, place[w], tie[w], x)
        BY <1>1 DEF UnitAt
      <3>3. QED
        BY <1>1, <1>2, <2>1, <3>1, <3>2
    <2>2. CASE count[own] # 0
      <3>1. GoesTo(w, Res!Before(w), Res!FirstTie(w))
        BY <1>1, <2>2, LeftGoesTo DEF ResourceInv
      <3>2. QED
        BY <1>1, <1>2, <2>2, <3>1, BeforeIs DEF ResourceInv
    <2>3. QED
      BY <2>1, <2>2
  <1>4. /\ \A v \in Workers \ {w} : place'[v] = place[v] /\ tie'[v] = tie[v]
        /\ place'[w] = l /\ tie'[w] = t /\ program' = program
        /\ \A x : Joined(x)' = Joined(x)
        /\ ResourceTypes' /\ CountersCount'
    <2>1. object' \subseteq Ties /\ extra' \subseteq Ties /\ l \in Labels
      BY <1>1, <1>3, ResourceSets DEF ResourceInv, ResourceTypes, Labels
    <2>2. QED
      BY <1>1, <1>3, <2>1, MoveKeeps
  <1>5. Begun'
    BY <1>1, <1>3, <1>4 DEF ResourceInv, Begun
  <1>6. Dead' /\ JoinedIsThere'
    BY <1>1, <1>3, <1>4 DEF ResourceInv, Dead, JoinedIsThere
  <1>7. Kept'
    <2>1. Joined(own)' # {} \/ (place'[w] = "delete" /\ tie'[w] = own)
      BY <1>3, <1>4
    <2>2. ObjectKeepers' = ObjectKeepers /\ place[w] \notin ObjectKeepers
      BY <1>1, <1>4 DEF ObjectKeepers
    <2>3. QED
      BY <1>1, <1>4, <2>1, <2>2 DEF ResourceInv, Kept, CounterKeepers
  <1>8. Traced
    BY <1>1, <1>3, <1>4 DEF Traced
  <1>9. QED
    BY <1>4, <1>5, <1>6, <1>7, <1>8 DEF ResourceInv, SizeOfObjects

\* A step in which the workers of a tie that read or remove it go on together: some leave the
\* tie, some go to places of the removal.  Their units stay.
Removing == {"test", "delete", "remove"}
LEMMA TogetherKeeps ==
    ASSUME ResourceInv, NEW t \in Ties, NEW S \in SUBSET Workers, NEW other,
           place' = [v \in Workers |-> IF v \in S THEN Res!Before(v) ELSE other[v]],
           tie' = [v \in Workers |-> IF v \in S THEN Res!FirstTie(v) ELSE tie[v]],
           program' = program,
           \A v \in S : place[v] \in Removing /\ tie[v] = t,
           \A v \in Workers : other[v] = place[v]
              \/ (place[v] \in Removing /\ tie[v] = t /\ other[v] \in Removing),
           object' \subseteq Ties, extra' \subseteq Ties, count' = count, hand' = hand,
           line' \in [Ties -> Seq(ResourcePins)], \A x \in Ties : Len(line'[x]) =< ResourceSize
    PROVE  /\ \A v \in S : place'[v] = Res!Before(v) /\ place'[v] \in {"off", "drop"}
           /\ \A v \in Workers \ S : place'[v] = other[v] /\ tie'[v] = tie[v]
           /\ \A x : Joined(x)' = Joined(x)
           /\ ResourceTypes' /\ CountersCount'
  <1>2. /\ \A v \in S : place'[v] = Res!Before(v) /\ tie'[v] = Res!FirstTie(v)
        /\ \A v \in Workers \ S : place'[v] = other[v] /\ tie'[v] = tie[v]
    OBVIOUS
  <1>3. \A v \in S : Res!Before(v) \in {"off", "drop"} /\ Res!FirstTie(v) \in Ties
    BY BeforeIs DEF ResourceInv
  <1>4. SameUnits
    <2>1. ASSUME NEW v \in S
          PROVE  \A x : UnitAt(program', v, place'[v], tie'[v], x)
                          <=> UnitAt(program, v, place[v], tie[v], x)
      <3>1. place[v] \notin {"off", "run", "drop", "create"} /\ v \in Workers
        BY DEF Removing
      <3>2. \A x : UnitAt(program, v, Res!Before(v), Res!FirstTie(v), x)
                     <=> UnitAt(program, v, place[v], tie[v], x)
        BY <3>1, BeforeIs DEF ResourceInv
      <3>3. QED
        BY <1>2, <3>2
    <2>2. ASSUME NEW v \in Workers \ S
          PROVE  \A x : UnitAt(program', v, place'[v], tie'[v], x)
                          <=> UnitAt(program, v, place[v], tie[v], x)
      <3>1. CASE other[v] = place[v]
        BY <1>2, <3>1
      <3>2. CASE place[v] \in Removing /\ other[v] \in Removing
        BY <1>2, <3>2 DEF UnitAt, Removing
      <3>3. QED
        BY <3>1, <3>2
    <2>3. QED
      BY <2>1, <2>2 DEF SameUnits
  <1>5. \A x : Joined(x)' = Joined(x)
    BY <1>4, JoinedSame
  <1>6. ResourceTypes'
    <2>1. /\ \A v \in Workers : place'[v] \in Labels /\ tie'[v] \in Ties
          /\ \A v \in Workers : tie'[v] \in {Res!FirstTie(v), Res!LastTie(v)}
      <3>1. \A v \in Workers : place[v] \in Labels /\ tie[v] \in Ties
                                  /\ tie[v] \in {Res!FirstTie(v), Res!LastTie(v)}
        BY DEF ResourceInv, ResourceTypes
      <3>2. Removing \subseteq Labels /\ {"off", "drop"} \subseteq Labels
        BY ResourceSets DEF Removing, Labels
      <3>3. QED
        BY <1>2, <1>3, <3>1, <3>2
    <2>2. place' \in [Workers -> Labels] /\ tie' \in [Workers -> Ties]
      BY <2>1
    <2>3. QED
      BY <2>1, <2>2 DEF ResourceInv, ResourceTypes
  <1>7. CountersCount'
    BY <1>5 DEF ResourceInv, CountersCount
  <1>8. QED
    BY <1>2, <1>3, <1>5, <1>6, <1>7

\* The semaphores of mark-8 are deleted when nobody has joined.
LEMMA DeleteSemaphoresStep ==
    ASSUME ResourceInv, NEW w \in Workers, program' = program, Res!DeleteSemaphores(w)
    PROVE  ResourceInv' /\ Traced
  <1>0. PICK t : t = tie[w]
    OBVIOUS
  <1>1. /\ t = tie[w] /\ program = "8" /\ place[w] = "delete" /\ t \in Ties
        /\ t \in {Res!FirstTie(w), Res!LastTie(w)} /\ "remove" \in Labels
        /\ object' = object /\ extra' = extra \ {t} /\ UNCHANGED <<count, line, hand>>
        /\ Res!Stay(w, "remove")
    BY <1>0, ResourceSets DEF Res!DeleteSemaphores, Res!At, ResourceInv, ResourceTypes, Labels
  <1>2. GoesTo(w, "remove", t)
    BY <1>1, StayGoesTo DEF ResourceInv
  <1>3. \A x : UnitAt(program, w, "remove", t, x) <=> UnitAt(program, w, place[w], tie[w], x)
    BY <1>1 DEF UnitAt
  <1>4. /\ \A v \in Workers \ {w} : place'[v] = place[v] /\ tie'[v] = tie[v]
        /\ place'[w] = "remove" /\ tie'[w] = t /\ program' = program
        /\ \A x : Joined(x)' = Joined(x)
        /\ ResourceTypes' /\ CountersCount'
    <2>1. object' \subseteq Ties /\ extra' \subseteq Ties
      BY <1>1 DEF ResourceInv, ResourceTypes
    <2>2. QED
      BY <1>1, <1>2, <1>3, <2>1, MoveKeeps
  <1>5. Begun'
    BY <1>1, <1>4 DEF ResourceInv, Begun
  <1>6. Dead' /\ JoinedIsThere'
    BY <1>1, <1>4 DEF ResourceInv, Dead, JoinedIsThere
  <1>7. Kept'
    BY <1>1, <1>4 DEF ResourceInv, Kept, CounterKeepers, ObjectKeepers
  <1>8. Traced
    BY <1>1, <1>4 DEF Traced
  <1>9. QED
    BY <1>4, <1>5, <1>6, <1>7, <1>8 DEF ResourceInv, SizeOfObjects

\* The counter is deleted, or loses its name, when nobody has joined; who has not read it yet
\* leaves, or reads 0 too.
LEMMA DeleteCounterStep ==
    ASSUME ResourceInv, NEW w \in Workers, program' = program,
           Res!DeleteCounter(w) \/ Res!UnlinkCounter(w)
    PROVE  ResourceInv' /\ Traced
  <1>0. PICK t : t = tie[w]
    OBVIOUS
  <1> DEFINE S == IF program = "9" THEN {v \in Workers : tie[v] = t /\ place[v] = "test"} ELSE {}
  <1> DEFINE other == IF program = "9"
         THEN [v \in Workers |-> IF v = w \/ (tie[v] = t /\ place[v] = "delete") THEN "remove"
                                 ELSE place[v]]
         ELSE [v \in Workers |-> IF v = w THEN "remove"
                                 ELSE IF tie[v] = t /\ place[v] = "test" THEN "delete"
                                 ELSE place[v]]
  <1>1. /\ t = tie[w] /\ program \in {"9", "10"} /\ place[w] = "delete" /\ t \in Ties
        /\ object' = object /\ extra' = extra \ {t}
        /\ count' = count /\ line' = line /\ hand' = hand
    BY <1>0 DEF Res!DeleteCounter, Res!UnlinkCounter, Res!At, ResourceInv, ResourceTypes
  <1>2. /\ place' = [v \in Workers |-> IF v \in S THEN Res!Before(v) ELSE other[v]]
        /\ tie' = [v \in Workers |-> IF v \in S THEN Res!FirstTie(v) ELSE tie[v]]
    <2>1. CASE Res!DeleteCounter(w)
      <3>1. program = "9" /\ Res!Others(w, {"test"}) = S
        BY <1>0, <1>1, <2>1, ResourceSets DEF Res!DeleteCounter, Res!Others
      <3>2. \A v \in Workers : v \in Res!Others(w, {"delete"})
                                 <=> v # w /\ tie[v] = t /\ place[v] = "delete"
        BY <1>0, ResourceSets DEF Res!Others
      <3>3. [v \in Res!Workers |->
                IF v = w \/ v \in Res!Others(w, {"delete"}) THEN "remove" ELSE place[v]] = other
        BY <3>1, <3>2, ResourceSets
      <3>4. QED
        BY <2>1, <3>1, <3>3, ResourceSets DEF Res!DeleteCounter, Res!Leave
    <2>2. CASE Res!UnlinkCounter(w)
      <3>1. program = "10" /\ S = {}
        BY <2>2 DEF Res!UnlinkCounter
      <3>2. \A v \in Workers : v \in Res!Others(w, {"test"})
                                 <=> v # w /\ tie[v] = t /\ place[v] = "test"
        BY <1>0, ResourceSets DEF Res!Others
      <3>3. [v \in Res!Workers |-> IF v = w THEN "remove"
                ELSE IF v \in Res!Others(w, {"test"}) THEN "delete" ELSE place[v]] = other
        BY <3>1, <3>2, ResourceSets
      <3>4. QED
        BY <2>2, <3>1, <3>3, ResourceSets DEF Res!UnlinkCounter, Res!Leave
    <2>3. QED
      BY <2>1, <2>2
  <1>3. /\ S \in SUBSET Workers /\ \A v \in S : place[v] \in Removing /\ tie[v] = t
        /\ \A v \in Workers : other[v] = place[v]
              \/ (place[v] \in Removing /\ tie[v] = t /\ other[v] \in Removing)
    BY <1>1 DEF Removing
  <1>4. /\ \A v \in S : program = "9" /\ tie[v] = t /\ place[v] = "test"
        /\ \A v \in Workers \ S : \/ other[v] = place[v]
              \/ /\ tie[v] = t /\ place[v] \in {"test", "delete"}
                 /\ other[v] \in {"delete", "remove"}
        /\ w \notin S /\ other[w] = "remove"
    BY <1>1
  <1> HIDE DEF S, other
  <1>5. /\ \A v \in S : place'[v] \in {"off", "drop"}
        /\ \A v \in Workers \ S : place'[v] = other[v] /\ tie'[v] = tie[v]
        /\ \A x : Joined(x)' = Joined(x)
        /\ ResourceTypes' /\ CountersCount'
    <2>1. /\ object' \subseteq Ties /\ extra' \subseteq Ties
          /\ line' \in [Ties -> Seq(ResourcePins)]
          /\ \A x \in Ties : Len(line'[x]) =< ResourceSize
      BY <1>1 DEF ResourceInv, ResourceTypes
    <2>2. QED
      BY <1>1, <1>2, <1>3, <2>1, TogetherKeeps
  <1>6. Joined(t) = {}
    BY <1>1 DEF ResourceInv, Dead
  <1>7. \A v \in Workers : tie[v] = t => place[v] \notin {"set", "post"}
    <2>1. \A v \in Workers \ {w} : tie[v] = t =>
              place[v] # "post" /\ (program = "9" => place[v] # "set")
      BY <1>0, ResourceSets DEF Res!DeleteCounter, Res!UnlinkCounter, Res!Others
    <2>2. QED
      BY <1>1, <2>1 DEF ResourceInv, Begun
  <1>8. Begun'
    <2>1. ASSUME NEW v \in Workers,
                 place'[v] \in {"create", "set", "post", "found"}
          PROVE  place'[v] = place[v] /\ tie'[v] = tie[v]
      BY <1>4, <1>5, <2>1
    <2>2. place'[w] = "remove" /\ tie'[w] = t
      BY <1>1, <1>4, <1>5
    <2>3. \A v \in Workers : place[v] = "remove" => place'[v] = "remove" /\ tie'[v] = tie[v]
      BY <1>4, <1>5
    <2>4. QED
      BY <1>1, <1>7, <2>1, <2>2, <2>3 DEF ResourceInv, Begun
  <1>9. Dead'
    <2>1. \A v \in Workers : place'[v] \in {"delete", "remove"} =>
             tie'[v] = tie[v] /\ (place[v] \in {"delete", "remove"} \/ tie[v] = t)
      BY <1>4, <1>5
    <2>2. QED
      BY <1>1, <1>5, <1>6, <2>1 DEF ResourceInv, Dead
  <1>10. JoinedIsThere'
    BY <1>1, <1>5, <1>6 DEF ResourceInv, JoinedIsThere
  <1>11. Kept'
    <2>1. \A v \in Workers : tie[v] # t => place'[v] = place[v] /\ tie'[v] = tie[v]
      BY <1>4, <1>5
    <2>2. ObjectKeepers' = ObjectKeepers /\ CounterKeepers' = CounterKeepers
      BY DEF ObjectKeepers, CounterKeepers
    <2>3. tie'[w] = t /\ place'[w] \in ObjectKeepers
      BY <1>1, <1>4, <1>5 DEF ObjectKeepers
    <2>4. QED
      BY <1>1, <1>5, <2>1, <2>2, <2>3 DEF ResourceInv, Kept
  <1>12. Traced
    BY <1>1, <1>4, <1>5, <1>6 DEF Traced
  <1>13. QED
    BY <1>5, <1>8, <1>9, <1>10, <1>11, <1>12 DEF ResourceInv, SizeOfObjects

\* The memory or the queue is removed with the pins in it, when nobody has joined.
LEMMA RemoveStep ==
    ASSUME ResourceInv, NEW w \in Workers, program' = program,
           Res!RemoveMemory(w) \/ Res!DeleteQueue(w) \/ Res!UnlinkQueue(w)
    PROVE  ResourceInv' /\ Traced
  <1>0. PICK t : t = tie[w]
    OBVIOUS
  <1> DEFINE L == IF program = "8" THEN {"delete", "remove"}
                  ELSE IF program = "9" THEN {"remove"} ELSE {}
  <1> DEFINE S == {w} \union {v \in Workers : tie[v] = t /\ place[v] \in L}
  <1>1. /\ t = tie[w] /\ program \in {"8", "9", "10"} /\ place[w] = "remove" /\ t \in Ties
        /\ object' = object \ {t} /\ line' = [line EXCEPT ![t] = <<>>]
        /\ extra' = extra /\ count' = count /\ hand' = hand
    BY <1>0 DEF Res!RemoveMemory, Res!DeleteQueue, Res!UnlinkQueue, Res!Remove, Res!At,
       ResourceInv, ResourceTypes
  <1>2. /\ place' = [v \in Workers |-> IF v \in S THEN Res!Before(v) ELSE place[v]]
        /\ tie' = [v \in Workers |-> IF v \in S THEN Res!FirstTie(v) ELSE tie[v]]
    <2>1. CASE Res!RemoveMemory(w)
      <3>1. {w} \union Res!Others(w, {"delete", "remove"}) = S
        BY <1>0, <2>1, ResourceSets DEF Res!RemoveMemory, Res!Others
      <3>2. QED
        BY <2>1, <3>1, ResourceSets DEF Res!RemoveMemory, Res!Leave
    <2>2. CASE Res!DeleteQueue(w)
      <3>1. {w} \union Res!Others(w, {"remove"}) = S
        BY <1>0, <2>2, ResourceSets DEF Res!DeleteQueue, Res!Others
      <3>2. QED
        BY <2>2, <3>1, ResourceSets DEF Res!DeleteQueue, Res!Leave
    <2>3. CASE Res!UnlinkQueue(w)
      <3>1. {w} = S
        BY <2>3 DEF Res!UnlinkQueue
      <3>2. QED
        BY <2>3, <3>1, ResourceSets DEF Res!UnlinkQueue, Res!Left, Res!Leave
    <2>4. QED
      BY <2>1, <2>2, <2>3
  <1>3. /\ S \in SUBSET Workers /\ w \in S
        /\ \A v \in S : place[v] \in {"delete", "remove"} /\ tie[v] = t
        /\ program # "8" => \A v \in S : place[v] = "remove"
    BY <1>1
  <1> HIDE DEF L, S
  <1>4. /\ \A v \in S : place'[v] \in {"off", "drop"}
        /\ \A v \in Workers \ S : place'[v] = place[v] /\ tie'[v] = tie[v]
        /\ \A x : Joined(x)' = Joined(x)
        /\ ResourceTypes' /\ CountersCount'
    <2>1. /\ object' \subseteq Ties /\ extra' \subseteq Ties
          /\ \A v \in S : place[v] \in Removing /\ tie[v] = t
      BY <1>1, <1>3 DEF ResourceInv, ResourceTypes, Removing
    <2>2. /\ line' \in [Ties -> Seq(ResourcePins)]
          /\ \A x \in Ties : Len(line'[x]) =< ResourceSize
      <3>1. <<>> \in Seq(ResourcePins) /\ Len(<<>>) = 0
        OBVIOUS
      <3>2. ResourceSize >= 0
        BY DEF ResourceInv, SizeOfObjects
      <3>3. QED
        BY <1>1, <3>1, <3>2 DEF ResourceInv, ResourceTypes
    <2>3. PICK other : other = place
      OBVIOUS
    <2>4. /\ place' = [v \in Workers |-> IF v \in S THEN Res!Before(v) ELSE other[v]]
          /\ \A v \in Workers : other[v] = place[v]
             \/ (place[v] \in Removing /\ tie[v] = t /\ other[v] \in Removing)
          /\ \A v \in Workers : other[v] = place[v]
          /\ tie' = [v \in Workers |-> IF v \in S THEN Res!FirstTie(v) ELSE tie[v]]
          /\ count' = count /\ hand' = hand /\ t \in Ties /\ S \in SUBSET Workers
      BY <1>1, <1>2, <1>3, <2>3
    <2>5. /\ \A v \in S : place'[v] = Res!Before(v) /\ place'[v] \in {"off", "drop"}
          /\ \A v \in Workers \ S : place'[v] = other[v] /\ tie'[v] = tie[v]
          /\ \A x : Joined(x)' = Joined(x)
          /\ ResourceTypes' /\ CountersCount'
      BY <2>1, <2>2, <2>4, TogetherKeeps
    <2>6. QED
      BY <2>4, <2>5
  <1>5. Joined(t) = {}
    BY <1>1 DEF ResourceInv, Dead
  <1>6. \A v \in Workers : tie[v] = t =>
            /\ place[v] \notin {"create", "set", "post"}
            /\ program # "8" => place[v] # "found"
    <2>1. ASSUME NEW v \in Workers, v # w, tie[v] = t
          PROVE  /\ place[v] # "post" /\ (program # "8" => place[v] \notin {"found", "create"})
                 /\ program # "10" => place[v] # "set"
      BY <1>0, <2>1, ResourceSets DEF Res!RemoveMemory, Res!DeleteQueue, Res!UnlinkQueue,
         Res!Others, Res!HaveQueue
    <2>2. ASSUME NEW v \in Workers, tie[v] = t, program = "8"
          PROVE  place[v] # "create"
      <3>1. place[v] = "create" => v \in Joined(t)
        BY <2>2 DEF Joined, UnitAt
      <3>2. QED
        BY <1>5, <3>1
    <2>3. \A v \in Workers : place[v] = "set" => program # "10"
      BY DEF ResourceInv, Begun
    <2>4. QED
      BY <1>1, <2>1, <2>2, <2>3
  <1>7. Begun'
    <2>1. ASSUME NEW v \in Workers, place'[v] \in {"create", "set", "post", "found"}
          PROVE  place'[v] = place[v] /\ tie'[v] = tie[v]
      BY <1>4, <2>1
    <2>2. ASSUME NEW v \in Workers, place[v] = "remove", tie[v] # t
          PROVE  place'[v] = "remove" /\ tie'[v] = tie[v]
      BY <1>3, <1>4, <2>2
    <2>3. QED
      BY <1>1, <1>6, <2>1, <2>2 DEF ResourceInv, Begun
  <1>8. Dead'
    BY <1>1, <1>3, <1>4 DEF ResourceInv, Dead
  <1>9. JoinedIsThere'
    BY <1>1, <1>4, <1>5 DEF ResourceInv, JoinedIsThere
  <1>10. Kept'
    <2>1. \A v \in Workers : tie[v] # t => place'[v] = place[v] /\ tie'[v] = tie[v]
      BY <1>3, <1>4
    <2>2. \A v \in Workers : place[v] \in CounterKeepers /\ program # "8" =>
              place'[v] = place[v] /\ tie'[v] = tie[v]
      BY <1>3, <1>4 DEF CounterKeepers
    <2>3. program = "8" => t \notin extra
      BY <1>1 DEF ResourceInv, Dead
    <2>4. ObjectKeepers' = ObjectKeepers /\ CounterKeepers' = CounterKeepers
      BY DEF ObjectKeepers, CounterKeepers
    <2>5. QED
      BY <1>1, <1>4, <2>1, <2>2, <2>3, <2>4 DEF ResourceInv, Kept
  <1>11. Traced
    BY <1>1, <1>3, <1>4 DEF Traced
  <1>12. QED
    BY <1>4, <1>7, <1>8, <1>9, <1>10, <1>11 DEF ResourceInv, SizeOfObjects

\* A worker starts, or leaves its work.
LEMMA StartOrQuitStep ==
    ASSUME ResourceInv, NEW w \in Workers, program' = program, Res!Start(w) \/ Res!Quit(w)
    PROVE  ResourceInv' /\ Traced
  <1>1. /\ UNCHANGED <<object, extra, count, line>>
        /\ hand' = [hand EXCEPT ![w] = NoPin] \/ hand' = hand
    BY DEF Res!Start, Res!Quit, Res!objects
  <1>2. PICK l \in {"open", "drop"}, t \in Ties :
            /\ GoesTo(w, l, t) /\ t \in {Res!FirstTie(w), Res!LastTie(w)}
            /\ place[w] \in {"off", "run"}
            /\ \A x : UnitAt(program, w, l, t, x) <=> UnitAt(program, w, place[w], tie[w], x)
    <2>1. CASE Res!Start(w)
      <3>1. GoesTo(w, "open", Res!FirstTie(w)) /\ place[w] = "off"
        BY <2>1 DEF Res!Start, Res!At, GoesTo
      <3>2. \A x : UnitAt(program, w, "open", Res!FirstTie(w), x)
                   <=> UnitAt(program, w, place[w], tie[w], x)
        BY <3>1 DEF UnitAt
      <3>3. QED
        BY <3>1, <3>2, ResourceSets
    <2>2. CASE Res!Quit(w)
      <3>1. GoesTo(w, "drop", Res!LastTie(w)) /\ place[w] = "run"
        BY <2>2 DEF Res!Quit, Res!At, GoesTo
      <3>2. \A x : UnitAt(program, w, "drop", Res!LastTie(w), x)
                   <=> UnitAt(program, w, place[w], tie[w], x)
        BY <3>1 DEF UnitAt
      <3>3. QED
        BY <3>1, <3>2, ResourceSets
    <2>3. QED
      BY <2>1, <2>2
  <1>3. \A x : Joined(x)' = Joined(x)
    <2>1. \A x : w \in Joined(x) <=> UnitAt(program, w, l, t, x)
      BY <1>2 DEF Joined
    <2>2. QED
      BY <1>2, <2>1, JoinedAfter DEF ResourceInv
  <1>4. ResourceTypes'
    BY <1>1, <1>2, ResourceSets DEF ResourceInv, ResourceTypes, GoesTo, Labels
  <1>5. CountersCount'
    BY <1>1, <1>3 DEF ResourceInv, CountersCount
  <1>6. /\ \A v \in Workers \ {w} : place'[v] = place[v] /\ tie'[v] = tie[v]
        /\ place'[w] = l /\ tie'[w] = t /\ program' = program
    BY <1>2, JoinedAfter DEF ResourceInv, GoesTo
  <1>7. Begun'
    BY <1>1, <1>2, <1>6 DEF ResourceInv, Begun
  <1>8. Dead' /\ JoinedIsThere'
    BY <1>1, <1>2, <1>3, <1>6 DEF ResourceInv, Dead, JoinedIsThere
  <1>9. Kept'
    BY <1>1, <1>2, <1>3, <1>6 DEF ResourceInv, Kept, ObjectKeepers, CounterKeepers
  <1>10. Traced
    BY <1>1, <1>2, <1>3, <1>6 DEF Traced
  <1>11. QED
    BY <1>4, <1>5, <1>7, <1>8, <1>9, <1>10 DEF ResourceInv, SizeOfObjects

\* What does not touch workers and objects keeps the invariant.
LEMMA FrameStep ==
    ASSUME ResourceInv, UNCHANGED <<program, place, tie, object, extra, count>>,
           line' \in [Ties -> Seq(ResourcePins)],
           \A t \in Ties : Len(line'[t]) =< ResourceSize,
           hand' \in [Workers -> ResourcePins \union {NoPin}]
    PROVE  ResourceInv' /\ \A x : Joined(x)' = Joined(x)
  <1>1. \A x : Joined(x)' = Joined(x)
    BY DEF Joined, UnitAt
  <1>2. ResourceTypes' /\ CountersCount'
    BY <1>1 DEF ResourceInv, ResourceTypes, CountersCount
  <1>3. Begun' /\ Dead' /\ JoinedIsThere'
    BY <1>1 DEF ResourceInv, Begun, Dead, JoinedIsThere
  <1>4. Kept'
    BY <1>1 DEF ResourceInv, Kept, ObjectKeepers, CounterKeepers
  <1>5. QED
    BY <1>1, <1>2, <1>3, <1>4 DEF ResourceInv, SizeOfObjects

\* The work moves pins, nothing else.
LEMMA WorkingStep ==
    ASSUME ResourceInv, NEW w \in Workers, program' = program, Res!Working(w)
    PROVE  ResourceInv' /\ Traced
  <1>1. UNCHANGED <<program, place, tie, object, extra, count>>
    BY DEF Res!Working, Res!MakePin, Res!SendPin, Res!WaitForPin, Res!CheckQuality,
       Res!objects
  <1>2. /\ line' \in [Ties -> Seq(ResourcePins)]
        /\ \A t \in Ties : Len(line'[t]) =< ResourceSize
        /\ hand' \in [Workers -> ResourcePins \union {NoPin}]
    <2>1. CASE Res!MakePin(w) \/ Res!CheckQuality(w)
      BY <2>1 DEF Res!MakePin, Res!CheckQuality, Res!objects, ResourceInv, ResourceTypes
    <2>2. CASE Res!SendPin(w)
      <3>1. PICK t \in Ties : t = Res!LastTie(w)
        BY ResourceSets
      <3>2. /\ hand[w] \in ResourcePins /\ Len(line[t]) < ResourceSize
            /\ line' = [line EXCEPT ![t] = Append(@, hand[w])]
            /\ hand' = [hand EXCEPT ![w] = NoPin]
        BY <2>2, <3>1 DEF Res!SendPin, Res!Sends, ResourceInv, ResourceTypes
      <3>3. line[t] \in Seq(ResourcePins)
        BY DEF ResourceInv, ResourceTypes
      <3>4. /\ Append(line[t], hand[w]) \in Seq(ResourcePins)
            /\ Len(Append(line[t], hand[w])) = Len(line[t]) + 1 /\ Len(line[t]) \in Nat
        BY <3>2, <3>3
      <3>5. Len(line[t]) + 1 =< ResourceSize
        BY <3>2, <3>4 DEF ResourceInv, SizeOfObjects
      <3>6. QED
        BY <3>2, <3>4, <3>5 DEF ResourceInv, ResourceTypes
    <2>3. CASE Res!WaitForPin(w)
      <3>1. PICK t \in Ties : t = Res!FirstTie(w)
        BY ResourceSets
      <3>2. /\ line[t] # <<>> /\ line' = [line EXCEPT ![t] = Tail(@)]
            /\ hand' = [hand EXCEPT ![w] = Head(line[t])]
        BY <2>3, <3>1 DEF Res!WaitForPin
      <3>3. line[t] \in Seq(ResourcePins)
        BY DEF ResourceInv, ResourceTypes
      <3>4. /\ Head(line[t]) \in ResourcePins /\ Tail(line[t]) \in Seq(ResourcePins)
            /\ Len(Tail(line[t])) = Len(line[t]) - 1 /\ Len(line[t]) \in Nat
        BY <3>2, <3>3
      <3>5. Len(Tail(line[t])) =< ResourceSize
        BY <3>4 DEF ResourceInv, SizeOfObjects, ResourceTypes
      <3>6. QED
        BY <3>2, <3>4, <3>5 DEF ResourceInv, ResourceTypes
    <2>4. QED
      BY <2>1, <2>2, <2>3 DEF Res!Working
  <1>3. ResourceInv' /\ \A x : Joined(x)' = Joined(x)
    BY <1>1, <1>2, FrameStep
  <1>4. Traced
    BY <1>1, <1>3 DEF Traced
  <1>5. QED
    BY <1>3, <1>4

\* At the start nobody has joined and nothing is there.
LEMMA ResourceInit ==
    ASSUME SizeOfObjects, Res!Init PROVE ResourceInv
  <1>1. \A t : Joined(t) = {}
    BY DEF Res!Init, Joined, UnitAt, Res!Workers, Workers
  <1>2. ResourceTypes
    <2>1. <<>> \in Seq(ResourcePins) /\ Len(<<>>) = 0 /\ ResourceSize >= 0
      BY DEF SizeOfObjects
    <2>2. QED
      BY <2>1, ResourceSets DEF Res!Init, ResourceTypes, Labels
  <1>3. CountersCount
    BY <1>1, FS_EmptySet, ResourceSets DEF Res!Init, CountersCount
  <1>4. Begun /\ Dead /\ JoinedIsThere /\ Kept
    BY <1>1, ResourceSets DEF Res!Init, Begun, Dead, JoinedIsThere, Kept
  <1>5. QED
    BY <1>2, <1>3, <1>4 DEF ResourceInv

\* A step of a worker, and one that goes wrong.
Acts(w) ==
    Res!Start(w) \/ Res!Quit(w) \/ Res!QuitEarly(w) \/ Res!Opening(w) \/ Res!Closing(w)
       \/ Res!Working(w)

\* What a worker does keeps the invariant.
LEMMA ActStep ==
    ASSUME ResourceInv, NEW w \in Workers, program' = program, Acts(w)
    PROVE  ResourceInv' /\ Traced
  <1>1. CASE Res!Opening(w)
    <2>1. /\ tie[w] \in object \/ tie[w] \notin object
          /\ tie[w] \in extra \/ tie[w] \notin extra
      OBVIOUS
    <2>2. QED
      BY <1>1, <2>1, GetStep, CounterStep, FindStep, FailStep, InitMemoryStep,
         CreateSemaphoresStep, JoinStep DEF Res!Opening
  <1>2. CASE Res!Closing(w)
    BY <1>2, LeaveStep, ReadStep, DeleteSemaphoresStep, DeleteCounterStep, RemoveStep
       DEF Res!Closing
  <1>3. QED
    BY <1>1, <1>2, StartOrQuitStep, FailStep, WorkingStep DEF Acts

\* A step that goes wrong changes nothing else.
LEMMA FrozenStep ==
    ASSUME ResourceInv, UNCHANGED <<program, place, tie, object, extra, count, line, hand>>
    PROVE  ResourceInv' /\ Traced
  <1>1. ResourceInv' /\ \A x : Joined(x)' = Joined(x)
    BY FrameStep DEF ResourceInv, ResourceTypes
  <1>2. QED
    BY <1>1 DEF Traced

\* What a step is.
LEMMA NextIs ==
    ASSUME [Res!Next]_(Res!vars)
    PROVE  /\ program' = program
           /\ \/ \E w \in Workers : Acts(w)
              \/ UNCHANGED <<program, place, tie, object, extra, count, line, hand>>
  <1>1. CASE UNCHANGED Res!vars
    BY <1>1 DEF Res!vars, Res!objects
  <1>2. CASE Res!Next
    <2>1. program' = program
      BY <1>2 DEF Res!Next
    <2>2. PICK w \in Workers : Acts(w) \/ UNCHANGED <<Res!objects, place, tie, hand>>
      BY <1>2, ResourceSets DEF Res!Next, Acts
    <2>3. QED
      BY <2>1, <2>2 DEF Res!objects
  <1>3. QED
    BY <1>1, <1>2

\* The invariant is inductive.
LEMMA ResourceStep ==
    ASSUME ResourceInv, [Res!Next]_(Res!vars) PROVE ResourceInv' /\ Traced
  BY NextIs, ActStep, FrozenStep

\* Who uses a tie has joined it.
LEMMA UsersHaveJoined ==
    ASSUME ResourceTypes, NEW w \in Workers, NEW t \in Res!Joined(w)
    PROVE  w \in Joined(t) /\ t \in Ties /\ (place[w] = "create" => t # tie[w])
  BY ResourceSets DEF Res!Joined, Res!At, Joined, UnitAt, ResourceTypes

\* The programs of mark-8, mark-9 and mark-10, for all numbers of workers and sizes of the
\* queues, with all their interleavings and signals, up to a step that goes wrong: the
\* counters never exceed the number of workers; what a worker uses is there
\* (deinit_shared_memory_info, deinit_queue); and when all have left nothing is left behind.
THEOREM ResourcesAlwaysFollowUsers ==
    SizeOfObjects /\ Res!Spec => []ResourcesFollowUsers
  <1>1. ResourceInv => Res!UsedExists /\ Res!NothingLeftBehind
    <2> SUFFICES ASSUME ResourceInv PROVE Res!UsedExists /\ Res!NothingLeftBehind
      OBVIOUS
    <2>1. ASSUME NEW w \in Workers, NEW t \in Res!Joined(w)
          PROVE  t \in object /\ (t \in extra \/ (program = "8" /\
                    \E v \in Workers : tie[v] = t /\ place[v] \in {"set", "create"}))
      <3>1. w \in Joined(t) /\ t \in Ties
        BY UsersHaveJoined DEF ResourceInv
      <3>2. t \in object /\ (program # "8" => t \in extra)
        BY <3>1 DEF ResourceInv, JoinedIsThere
      <3>3. \A v \in Workers : tie[v] = t => place[v] # "remove"
        BY <3>1 DEF ResourceInv, Dead
      <3>4. QED
        BY <3>2, <3>3 DEF ResourceInv, Kept, ObjectKeepers
    <2>2. Res!UsedExists
      BY <2>1, ResourceSets DEF Res!UsedExists
    <2>3. Res!NothingLeftBehind
      <3>1. SUFFICES ASSUME \A w \in Workers : place[w] = "off"
                     PROVE  object = {} /\ extra = {}
        BY ResourceSets DEF Res!NothingLeftBehind, Res!At
      <3>2. \A t : Joined(t) = {}
        BY <3>1 DEF Joined, UnitAt
      <3>3. extra = {}
        BY <3>1, <3>2 DEF ResourceInv, Kept, CounterKeepers
      <3>4. QED
        BY <3>1, <3>3 DEF ResourceInv, Kept, ObjectKeepers
    <2>4. QED
      BY <2>2, <2>3
  <1>2. ResourceInv /\ overlapped \in BOOLEAN /\ spoilt \in BOOLEAN => Res!TypeOK
    <2> SUFFICES ASSUME ResourceInv, overlapped \in BOOLEAN, spoilt \in BOOLEAN
                 PROVE  Res!TypeOK
      OBVIOUS
    <2>1. Cardinality(Workers) \in Nat
      BY FS_CardinalityType, PinBufferAssumption
    <2>2. \A t \in Ties : count[t] \in 0 .. Cardinality(Workers)
      BY <2>1, JoinedIsFinite DEF ResourceInv, CountersCount
    <2>3. count \in [Ties -> 0 .. Cardinality(Workers)]
      BY <2>2 DEF ResourceInv, ResourceTypes
    <2>4. /\ place \in [Workers -> {"off", "run"} \union Res!Starting \union Res!Leaving]
          /\ program \in Programs /\ object \subseteq Ties /\ extra \subseteq Ties
          /\ \A t \in Ties : Len(line[t]) =< ResourceSize
          /\ tie \in [Workers -> Ties] /\ hand \in [Workers -> ResourcePins \union {NoPin}]
      BY DEF ResourceInv, ResourceTypes, Labels
    <2>5. Res!Cardinality(Res!Workers) = Cardinality(Res!Workers)
      BY DEF Cardinality, Res!Cardinality
    <2>6. Res!Workers = Workers /\ Res!Ties = Ties
      BY ResourceSets
    <2>7. QED
      BY <2>3, <2>4, <2>5, <2>6, Zenon DEF Res!TypeOK
  <1>3. SizeOfObjects /\ Res!Init => ResourceInv /\ overlapped \in BOOLEAN /\ spoilt \in BOOLEAN
    BY ResourceInit DEF Res!Init
  <1>4. ResourceInv /\ [Res!Next]_(Res!vars) => ResourceInv'
    BY ResourceStep
  <1>5. overlapped \in BOOLEAN /\ spoilt \in BOOLEAN /\ [Res!Next]_(Res!vars)
           => (overlapped \in BOOLEAN /\ spoilt \in BOOLEAN)'
    <2> SUFFICES ASSUME overlapped \in BOOLEAN, spoilt \in BOOLEAN, [Res!Next]_(Res!vars)
                 PROVE  overlapped' \in BOOLEAN /\ spoilt' \in BOOLEAN
      OBVIOUS
    <2>1. CASE Res!Next
      <3>1. overlapped' = (overlapped \/ Res!Overlap') /\ (spoilt' = spoilt \/ spoilt' = TRUE)
        BY <2>1, Zenon DEF Res!Next
      <3>2. QED
        BY <3>1, Zenon
    <2>2. CASE UNCHANGED Res!vars
      BY <2>2 DEF Res!vars
    <2>3. QED
      BY <2>1, <2>2
  <1>6. QED
    BY <1>1, <1>2, <1>3, <1>4, <1>5, PTL DEF Res!Spec, ResourcesFollowUsers

\* The states from which something can go wrong by itself: a start overlaps a creation or a
\* removal, others use a tie whose creator has not finished, a counter vanishes under a start.
Conflict ==
    \/ Res!Overlap
    \/ \E v, w \in Workers : place[w] = "set" /\ v \in Joined(tie[w])
    \/ program = "8" /\ \E v, w \in Workers :
          v # w /\ place[w] = "create" /\ v \in Joined(tie[w])
    \/ program = "10" /\ \E w \in Workers : place[w] = "found" /\ tie[w] \notin extra

\* What goes wrong without a signal does so in such a state.
LEMMA WrongIsConflict ==
    ASSUME ResourceInv, NEW w \in Workers, Res!Wrong(w), ~Res!Caught(w)
    PROVE  Conflict
  <1>1. \A L : \A v \in Res!Others(w, L) : v \in Workers /\ v # w /\ tie[v] = tie[w]
                                              /\ place[v] \in L
    BY ResourceSets DEF Res!Others
  <1>2. tie[w] \in Ties
    BY DEF ResourceInv, ResourceTypes
  <1>3. CASE Res!SetsAgain(w)
    <2>1. place[w] = "set" /\ Joined(tie[w]) # {}
      BY <1>2, <1>3, ZeroIsNobody DEF Res!SetsAgain, Res!At, ResourceInv
    <2>2. QED
      BY <2>1 DEF Conflict, Joined
  <1>4. CASE Res!RemovesOpened(w)
    <2>1. PICK v \in Workers : v # w /\ tie[v] = tie[w] /\ place[v] \in Res!Starting
                                  /\ place[w] \in {"delete", "remove"}
      BY <1>1, <1>4, ResourceSets DEF Res!RemovesOpened, Res!At, Res!HaveQueue
    <2>2. QED
      BY <2>1, ResourceSets DEF Conflict, Res!Overlap
  <1>5. CASE Res!JoinsDying(w)
    <2>1. PICK v \in Workers : v # w /\ tie[v] = tie[w] /\ place[v] \in {"delete", "remove"}
      BY <1>1, <1>5 DEF Res!JoinsDying, Res!Dying
    <2>2. place[w] \in Res!Starting
      BY <1>5, ResourceSets DEF Res!JoinsDying, Res!At
    <2>3. QED
      BY <2>1, <2>2, ResourceSets DEF Conflict, Res!Overlap
  <1>6. CASE Res!Misses(w)
    <2>1. CASE program = "10"
      BY <1>6, <2>1 DEF Res!Misses, Res!Carries, Res!At, Conflict
    <2>2. CASE program # "10"
      <3>1. PICK t \in Ties : program = "8" /\ t \notin extra /\ place[w] = "run"
                                 /\ t \in {Res!FirstTie(w), Res!LastTie(w)}
        BY <1>6, <2>2, ResourceSets DEF Res!Misses, Res!Carries, Res!Sends, Res!Waits, Res!At
      <3>2. w \in Joined(t)
        BY <3>1 DEF Joined, UnitAt
      <3>3. PICK v \in Workers : tie[v] = t /\ place[v] \in {"set", "create", "remove"}
        BY <3>1, <3>2 DEF ResourceInv, JoinedIsThere, Kept, ObjectKeepers
      <3>4. place[v] \in {"set", "create"} /\ v # w
        BY <3>1, <3>2, <3>3 DEF ResourceInv, Dead
      <3>5. QED
        BY <3>1, <3>2, <3>3, <3>4 DEF Conflict
    <2>3. QED
      BY <2>1, <2>2
  <1>7. QED
    BY <1>3, <1>4, <1>5, <1>6 DEF Res!Wrong

\* Such a state comes about by an overlap only.
LEMMA ConflictStep ==
    ASSUME ResourceInv, ResourceInv', Traced, program' = program, Conflict'
    PROVE  Conflict \/ Res!Overlap'
  <1> SUFFICES ASSUME ~Conflict, ~Res!Overlap' PROVE FALSE
    OBVIOUS
  <1>0. \A v \in Workers : tie[v] \in Ties /\ tie'[v] \in Ties
    BY DEF ResourceInv, ResourceTypes
  <1>1. ASSUME NEW v \in Workers, NEW w \in Workers, v # w, tie[v] = tie[w],
               place[v] \in {"found", "create", "set", "post"}
        PROVE  /\ place[w] \notin {"set", "delete", "remove"}
               /\ program = "8" => place[w] # "create"
    BY <1>1, ResourceSets DEF Conflict, Res!Overlap, Res!At
  <1>2. ASSUME NEW v \in Workers, NEW w \in Workers, NEW t \in Ties, tie'[w] = t,
               v \in Joined(t)', place'[w] = "set"
        PROVE  FALSE
    <2>1. place[w] = "set" /\ tie[w] = t
      BY <1>2 DEF Traced
    <2>2. v \notin Joined(t)
      BY <2>1 DEF Conflict
    <2>3. tie[v] = t /\ place[v] \in {"create", "set", "post"}
      BY <1>2, <2>2 DEF Traced
    <2>4. v # w
      BY <1>2 DEF Joined, UnitAt
    <2>5. QED
      BY <1>1, <2>1, <2>3, <2>4
  <1>3. ASSUME NEW v \in Workers, NEW w \in Workers, NEW t \in Ties, tie'[w] = t,
               v \in Joined(t)', v # w, place'[w] = "create", program = "8"
        PROVE  FALSE
    <2>1. place[w] = "create" /\ tie[w] = t
      BY <1>3 DEF Traced
    <2>2. v \notin Joined(t)
      BY <1>3, <2>1 DEF Conflict
    <2>3. tie[v] = t /\ place[v] \in {"create", "set", "post"}
      BY <1>3, <2>2 DEF Traced
    <2>4. QED
      BY <1>1, <1>3, <2>1, <2>3
  <1>4. ASSUME NEW w \in Workers, place'[w] = "found", tie'[w] \notin extra', program = "10"
        PROVE  FALSE
    <2>1. place[w] = "found" /\ tie'[w] = tie[w]
      BY <1>4 DEF Traced
    <2>2. tie[w] \in extra
      BY <1>4, <2>1 DEF Conflict
    <2>3. PICK u \in Workers : tie[u] = tie[w] /\ place[u] = "delete"
      BY <1>4, <2>1, <2>2 DEF Traced
    <2>4. QED
      BY <1>1, <2>1, <2>3
  <1>5. QED
    BY <1>0, <1>2, <1>3, <1>4 DEF Conflict

\* A pin leaves a tie for a worker, or with the last user of the tie.
LEMMA LineStep ==
    ASSUME ResourceInv, NEW w \in Workers, Acts(w), NEW t \in Ties,
           NEW i \in 1 .. Len(line[t]),
           \A v \in Workers : hand'[v] # line[t][i]
    PROVE  (\E j \in 1 .. Len(line'[t]) : line'[t][j] = line[t][i]) \/ Joined(t) = {}
  <1>1. line[t] \in Seq(ResourcePins) /\ line \in [Ties -> Seq(ResourcePins)]
    BY DEF ResourceInv, ResourceTypes
  <1>2. CASE line'[t] = line[t]
    BY <1>2
  <1>3. CASE \E p : line' = [line EXCEPT ![Res!LastTie(w)] = Append(@, p)]
    <2>1. PICK p : line' = [line EXCEPT ![Res!LastTie(w)] = Append(@, p)]
      BY <1>3
    <2>2. line'[t] = Append(line[t], p) \/ line'[t] = line[t]
      BY <1>1, <2>1
    <2>3. line'[t] = Append(line[t], p) => i \in 1 .. Len(line'[t]) /\ line'[t][i] = line[t][i]
      BY <1>1
    <2>4. QED
      BY <2>2, <2>3
  <1>4. CASE Res!WaitForPin(w)
    <2>1. PICK s \in Ties : s = Res!FirstTie(w)
      BY ResourceSets
    <2>2. /\ hand' = [hand EXCEPT ![w] = Head(line[s])]
          /\ line' = [line EXCEPT ![s] = Tail(@)]
          /\ hand \in [Workers -> ResourcePins \union {NoPin}]
      BY <1>4, <2>1 DEF Res!WaitForPin, ResourceInv, ResourceTypes
    <2>3. CASE s = t
      <3>1. line'[t] = Tail(line[t]) /\ hand'[w] = line[t][1] /\ i # 1
        BY <1>1, <2>2, <2>3
      <3>2. i - 1 \in 1 .. Len(line'[t]) /\ line'[t][i - 1] = line[t][i]
        BY <1>1, <3>1
      <3>3. QED
        BY <3>2
    <2>4. CASE s # t
      BY <1>1, <1>2, <2>2, <2>4
    <2>5. QED
      BY <2>3, <2>4
  <1>5. CASE Res!RemoveMemory(w) \/ Res!DeleteQueue(w) \/ Res!UnlinkQueue(w)
    <2>1. place[w] = "remove" /\ line' = [line EXCEPT ![tie[w]] = <<>>]
      BY <1>5 DEF Res!RemoveMemory, Res!DeleteQueue, Res!UnlinkQueue, Res!Remove, Res!At
    <2>2. Joined(tie[w]) = {}
      BY <2>1 DEF ResourceInv, Dead
    <2>3. line'[t] = line[t] \/ t = tie[w]
      BY <1>1, <2>1
    <2>4. QED
      BY <1>2, <2>2, <2>3
  <1>6. CASE line' = line
    BY <1>2, <1>6
  <1>7. QED
    BY <1>3, <1>4, <1>5, <1>6 DEF Acts, Res!Start, Res!Quit, Res!QuitEarly, Res!Opening,
       Res!Closing, Res!Working, Res!MakePin, Res!SendPin, Res!CheckQuality, Res!objects,
       Res!GetMemory, Res!FindMemory, Res!InitMemory, Res!CreateSemaphores, Res!JoinMemory,
       Res!GetQueue, Res!CreateCounter, Res!FindCounter, Res!SetCounter, Res!RaiseCounter,
       Res!OpenQueue, Res!OpenCounter, Res!ReopenCounter, Res!PostCounter, Res!LeaveMemory,
       Res!DeleteSemaphores, Res!LowerCounter, Res!ReadCounter, Res!DeleteCounter,
       Res!TryWaitCounter, Res!GetValue, Res!UnlinkCounter

\* For the same programs: pins on the way are taken, or lost with the last user of their tie
\* (deinit_shared_memory_info, deinit_queue); who decides to remove a tie is
\* the last to have it; and a step goes wrong only when a signal comes inside a start or
\* inside the handler, or after a start has overlapped a creation or a removal of the same
\* tie (init_resources_impl, init_queue).
THEOREM OnlyTheLastRemoves ==
    SizeOfObjects /\ Res!Spec =>
        Res!PinsWaitForUsers /\ Res!LastRemoves /\ Res!SpoiltByOverlap
  <1> DEFINE Noted == (Conflict => overlapped) /\ overlapped \in BOOLEAN
  <1>1. SizeOfObjects /\ Res!Init => ResourceInv /\ Noted
    <2> SUFFICES ASSUME SizeOfObjects, Res!Init PROVE ResourceInv /\ Noted
      OBVIOUS
    <2>1. \A w \in Workers : place[w] = "off"
      BY DEF Res!Init, Res!Workers, Workers
    <2>2. ~Conflict
      BY <2>1, ResourceSets DEF Conflict, Res!Overlap, Res!At
    <2>3. QED
      BY <2>2, ResourceInit DEF Res!Init
  <1>2. ResourceInv /\ Noted /\ [Res!Next]_(Res!vars) => ResourceInv' /\ Noted'
    <2> SUFFICES ASSUME ResourceInv, Noted, [Res!Next]_(Res!vars) PROVE ResourceInv' /\ Noted'
      OBVIOUS
    <2>1. ResourceInv' /\ Traced /\ program' = program
      BY ResourceStep, NextIs
    <2>2. Conflict' => Conflict \/ Res!Overlap'
      BY <2>1, ConflictStep
    <2>3. CASE Res!Next
      <3>1. overlapped' = (overlapped \/ Res!Overlap')
        BY <2>3, Zenon DEF Res!Next
      <3>2. QED
        BY <2>1, <2>2, <3>1, Zenon
    <2>4. CASE UNCHANGED Res!vars
      <3>1. overlapped' = overlapped /\ Conflict' = Conflict
        BY <2>4 DEF Res!vars, Res!objects, Conflict, Res!Overlap, Res!At, Joined, UnitAt
      <3>2. QED
        BY <2>1, <3>1, Zenon
    <2>5. QED
      BY <2>3, <2>4
  <1>3. ResourceInv /\ [Res!Next]_(Res!vars) =>
           \A w \in Workers : Res!At(w, "delete")' /\ ~Res!At(w, "delete") =>
              \A v \in Workers \ {w} : tie[w] \notin Res!Joined(v)
    <2> SUFFICES ASSUME ResourceInv, [Res!Next]_(Res!vars), NEW w \in Workers,
                        place'[w] = "delete", place[w] # "delete",
                        NEW v \in Workers \ {w}, tie[w] \in Res!Joined(v)
                 PROVE  FALSE
      BY DEF Res!At
    <2>1. Joined(tie[w]) \subseteq {w}
      BY ResourceStep DEF Traced
    <2>2. v \in Joined(tie[w])
      BY UsersHaveJoined DEF ResourceInv
    <2>3. QED
      BY <2>1, <2>2
  <1>4. ResourceInv /\ Noted /\ [Res!Next]_(Res!vars) /\ spoilt' =>
           spoilt \/ overlapped \/ \E w \in Workers : Res!Caught(w)
    <2> SUFFICES ASSUME ResourceInv, Noted, [Res!Next]_(Res!vars), spoilt', ~spoilt,
                        \A w \in Workers : ~Res!Caught(w)
                 PROVE  overlapped
      OBVIOUS
    <2>1. CASE Res!Next
      <3>1. PICK w \in Workers : Res!Wrong(w)
        BY <2>1, ResourceSets, Zenon DEF Res!Next
      <3>2. QED
        BY <3>1, WrongIsConflict
    <2>2. CASE UNCHANGED Res!vars
      BY <2>2 DEF Res!vars
    <2>3. QED
      BY <2>1, <2>2
  <1>5. ResourceInv /\ [Res!Next]_(Res!vars) =>
           \A p \in ResourcePins : \A t \in Ties : Res!InLine(p, t) =>
              \/ Res!InLine(p, t)' \/ \E w \in Workers : hand'[w] = p
              \/ \A w \in Workers : t \notin Res!Joined(w)
    <2> SUFFICES ASSUME ResourceInv, [Res!Next]_(Res!vars), NEW p \in ResourcePins,
                        NEW t \in Ties, Res!InLine(p, t),
                        \A w \in Workers : hand'[w] # p,
                        NEW v \in Workers, t \in Res!Joined(v)
                 PROVE  Res!InLine(p, t)'
      OBVIOUS
    <2>1. PICK i \in 1 .. Len(line[t]) : line[t][i] = p
      BY DEF Res!InLine
    <2>2. Joined(t) # {}
      BY UsersHaveJoined DEF ResourceInv
    <2>3. CASE \E w \in Workers : Acts(w)
      BY <2>1, <2>2, <2>3, LineStep DEF Res!InLine
    <2>4. CASE line' = line
      BY <2>1, <2>4 DEF Res!InLine
    <2>5. QED
      BY <2>3, <2>4, NextIs
  <1>6. /\ ResourceInv /\ [Res!Next]_(Res!vars) => [
              \A w \in Res!Workers : Res!At(w, "delete")' /\ ~Res!At(w, "delete") =>
                 \A v \in Res!Workers \ {w} : tie[w] \notin Res!Joined(v)]_(Res!vars)
        /\ ResourceInv /\ Noted /\ [Res!Next]_(Res!vars) => [
              spoilt' => spoilt \/ overlapped \/ \E w \in Res!Workers : Res!Caught(w)]_(Res!vars)
        /\ ResourceInv /\ [Res!Next]_(Res!vars) => [
              \A p \in ResourcePins, t \in Res!Ties : Res!InLine(p, t) =>
                 Res!InLine(p, t)' \/ (\E w \in Res!Workers : hand'[w] = p)
                    \/ \A w \in Res!Workers : t \notin Res!Joined(w)]_(Res!vars)
    BY <1>3, <1>4, <1>5, ResourceSets
  <1>7. QED
    BY <1>1, <1>2, <1>6, PTL DEF Res!Spec, Res!PinsWaitForUsers, Res!LastRemoves,
       Res!SpoiltByOverlap
=============================================================================
