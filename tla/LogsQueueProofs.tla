-------------------------- MODULE LogsQueueProofs ---------------------------
(***************************************************************************)
(* Proofs about LogsQueue, for every set of producers, every set of        *)
(* messages and every capacity: the inductive invariant QueueInv, and from *)
(* it that the two asserts of the code hold and that the ring implements   *)
(* the FIFO of LogsFifo.                                                   *)
(***************************************************************************)
EXTENDS LogsQueue, Integers, FiniteSetTheorems, SequenceTheorems, TLAPS

-----------------------------------------------------------------------------
(* The arithmetic of the ring.                                             *)

\* A number below M is its own remainder (an index before the end of the ring).
LEMMA ModSmall ==
    ASSUME NEW M \in Nat \ {0}, NEW x \in Nat, x < M
    PROVE  x % M = x
  OBVIOUS

\* A number between M and 2M loses one M (an index that ran past the end once).
LEMMA ModWrap ==
    ASSUME NEW M \in Nat \ {0}, NEW x \in Nat, x >= M, x < 2 * M
    PROVE  x % M = x - M
  OBVIOUS

\* Advancing an index of the ring gives an index of the ring.
LEMMA NextSlotType ==
    ASSUME NEW i \in Slots
    PROVE  NextSlot(i) \in Slots
  <1>1. CASE i + 1 < MaxSize
    BY <1>1, ModSmall, QueueAssumption DEF NextSlot, Slots
  <1>2. CASE i + 1 = MaxSize
    BY <1>2, ModWrap, QueueAssumption DEF NextSlot, Slots
  <1>3. QED
    BY <1>1, <1>2, QueueAssumption DEF Slots

\* The slot n places after r, without the division.
LEMMA SlotAfter ==
    ASSUME NEW r \in Slots, NEW n \in 0 .. MaxSize
    PROVE  /\ r + n < MaxSize => (r + n) % MaxSize = r + n
           /\ r + n >= MaxSize => (r + n) % MaxSize = (r + n) - MaxSize
           /\ (r + n) % MaxSize \in Slots
  <1>1. /\ MaxSize \in Nat \ {0} /\ r + n \in Nat /\ r + n < 2 * MaxSize
        /\ r \in Nat /\ n \in Nat
    BY QueueAssumption DEF Slots
  <1>2. r + n < MaxSize => (r + n) % MaxSize = r + n
    BY <1>1, ModSmall
  <1>3. ASSUME r + n >= MaxSize
        PROVE  (r + n) % MaxSize = (r + n) - MaxSize
    BY <1>1, <1>3, ModWrap
  <1>4. (r + n) % MaxSize \in Slots
    BY <1>1, <1>2, <1>3 DEF Slots
  <1>5. QED
    BY <1>2, <1>3, <1>4

\* Advancing the slot n places after r gives the slot n + 1 places after r.
LEMMA NextSlotAfter ==
    ASSUME NEW r \in Slots, NEW n \in 0 .. MaxSize - 1
    PROVE  NextSlot((r + n) % MaxSize) = (r + (n + 1)) % MaxSize
  <1> DEFINE a == (r + n) % MaxSize
  <1>1. n \in 0 .. MaxSize /\ n + 1 \in 0 .. MaxSize /\ r \in Nat /\ r < MaxSize
    BY QueueAssumption DEF Slots
  <1>2. CASE r + n < MaxSize
    BY <1>1, <1>2, SlotAfter, QueueAssumption DEF NextSlot
  <1>3. CASE r + n >= MaxSize
    <2>1. a = (r + n) - MaxSize
      BY <1>1, <1>3, SlotAfter
    <2>2. a + 1 \in Nat /\ a + 1 < MaxSize
      BY <2>1, <1>1, <1>3, QueueAssumption
    <2>3. NextSlot(a) = (r + n) - MaxSize + 1
      BY <2>1, <2>2, ModSmall, QueueAssumption DEF NextSlot
    <2>4. (r + (n + 1)) % MaxSize = r + (n + 1) - MaxSize
      BY <1>1, <1>3, SlotAfter, QueueAssumption
    <2>5. QED
      BY <2>3, <2>4, <1>1, QueueAssumption
  <1>4. QED
    BY <1>1, <1>2, <1>3, QueueAssumption

\* Going n - 1 places from the slot after r is going n places from r.
LEMMA SlotBefore ==
    ASSUME NEW r \in Slots, NEW n \in 1 .. MaxSize
    PROVE  (NextSlot(r) + (n - 1)) % MaxSize = (r + n) % MaxSize
  <1>1. /\ n \in 0 .. MaxSize /\ n - 1 \in 0 .. MaxSize /\ n - 1 \in Nat
        /\ r \in Nat /\ r < MaxSize
    BY QueueAssumption DEF Slots
  <1>2. CASE r + 1 < MaxSize
    <2>1. NextSlot(r) = r + 1
      BY <1>1, <1>2, ModSmall, QueueAssumption DEF NextSlot
    <2>2. r + 1 + (n - 1) = r + n
      BY <1>1
    <2>3. QED
      BY <2>1, <2>2
  <1>3. CASE r + 1 = MaxSize
    <2>1. NextSlot(r) = 0
      BY <1>1, <1>3, ModWrap, QueueAssumption DEF NextSlot
    <2>2. (r + n) % MaxSize = (r + n) - MaxSize
      BY <1>1, <1>3, SlotAfter, QueueAssumption
    <2>3. (0 + (n - 1)) % MaxSize = n - 1
      BY <1>1, ModSmall, QueueAssumption
    <2>4. QED
      BY <2>1, <2>2, <2>3, <1>1, <1>3, QueueAssumption
  <1>4. QED
    BY <1>1, <1>2, <1>3, QueueAssumption

-----------------------------------------------------------------------------
(* The inductive invariant.                                                *)

\* The producers holding a free slot are finitely many.
LEMMA ReservingFinite ==
    IsFiniteSet(Reserving) /\ Cardinality(Reserving) \in Nat
  BY FS_Subset, FS_CardinalityType, QueueAssumption DEF Reserving

\* A step of p adds p to the producers holding a slot, or removes it.
LEMMA ReservingStep ==
    ASSUME TypeOK, NEW p \in Producers, NEW l, Goto(p, l)
    PROVE  Cardinality(Reserving') =
             IF l \in {"trylock", "giveup", "write", "cancelled"}
             THEN IF p \in Reserving THEN Cardinality(Reserving)
                                     ELSE Cardinality(Reserving) + 1
             ELSE IF p \in Reserving THEN Cardinality(Reserving) - 1
                                     ELSE Cardinality(Reserving)
  <1>1. CASE l \in {"trylock", "giveup", "write", "cancelled"}
    <2>1. Reserving' = Reserving \union {p}
      BY <1>1 DEF Reserving, Goto, TypeOK
    <2>2. QED
      BY <1>1, <2>1, ReservingFinite, FS_AddElement
  <1>2. CASE l \notin {"trylock", "giveup", "write", "cancelled"}
    <2>1. Reserving' = Reserving \ {p}
      BY <1>2 DEF Reserving, Goto, TypeOK
    <2>2. QED
      BY <1>2, <2>1, ReservingFinite, FS_RemoveElement
  <1>3. QED
    BY <1>1, <1>2

\* A producer that holds a slot makes their number positive.
LEMMA ReservingPositive ==
    ASSUME NEW p \in Reserving
    PROVE  Cardinality(Reserving) > 0
  BY ReservingFinite, FS_EmptySet

\* The initial ring is empty and all of its slots are free.
LEMMA InitQueueInv == Init => QueueInv
  <1> SUFFICES ASSUME Init PROVE QueueInv
    OBVIOUS
  <1>1. 0 \in Slots /\ (0 + 0) % MaxSize = 0
    BY ModSmall, QueueAssumption DEF Slots
  <1>2. TypeOK
    <2>1. stopping \in BOOLEAN /\ array \in [Slots -> Logs \union {NoLog}]
      BY Zenon DEF Init
    <2>2. QED
      BY <1>1, <2>1, QueueAssumption DEF Init, TypeOK, ProducerPC, Ended, SenderPC
  <1>3. MutexHeld
    BY QueueAssumption DEF Init, MutexHeld
  <1>4. FreeSlotsCounted
    <2>1. Reserving = {}
      BY DEF Init, Reserving
    <2>2. QED
      BY <2>1, FS_EmptySet, QueueAssumption DEF Init, FreeSlotsCounted
  <1>5. FilledSlotsCounted /\ IndicesAgree
    BY <1>1 DEF Init, FilledSlotsCounted, IndicesAgree
  <1>6. QED
    BY <1>2, <1>3, <1>4, <1>5 DEF QueueInv

\* Every step of every thread keeps the semaphores, the size field, the indices
\* and the mutex in agreement.
LEMMA NextQueueInv == QueueInv /\ [Next]_vars => QueueInv'
  <1> SUFFICES ASSUME QueueInv, [Next]_vars PROVE QueueInv'
    OBVIOUS
  <1> USE QueueAssumption
  <1>t. TypeOK /\ MutexHeld /\ FreeSlotsCounted /\ FilledSlotsCounted /\ IndicesAgree
    BY DEF QueueInv
  <1>n. Cardinality(Reserving) \in Nat
    BY ReservingFinite
  <1>1. ASSUME NEW p \in Producers, TryWait(p) PROVE QueueInv'
    <2>1. TypeOK'
      BY <1>1, <1>t, <1>n DEF TryWait, Goto, ring, TypeOK, ProducerPC, Ended, SenderPC
    <2>2. MutexHeld'
      BY <1>1, <1>t DEF TryWait, Goto, ring, TypeOK, MutexHeld
    <2>3. FreeSlotsCounted'
      <3>1. Cardinality(Reserving') = Cardinality(Reserving) + 1
        <4>1. Goto(p, "trylock")
          BY <1>1 DEF TryWait
        <4>2. p \notin Reserving
          BY <1>1 DEF TryWait, Reserving
        <4>3. QED
          BY <4>1, <4>2, <1>t, ReservingStep
      <3>2. QED
        BY <3>1, <1>1, <1>t, <1>n DEF TryWait, ring, TypeOK, FreeSlotsCounted
    <2>4. FilledSlotsCounted'
      BY <1>1, <1>t DEF TryWait, Goto, ring, TypeOK, FilledSlotsCounted
    <2>5. IndicesAgree'
      BY <1>1, <1>t DEF TryWait, ring, IndicesAgree
    <2>6. QED
      BY <2>1, <2>2, <2>3, <2>4, <2>5 DEF QueueInv
  <1>2. ASSUME NEW p \in Producers, TryLock(p) PROVE QueueInv'
    <2>1. TypeOK'
      BY <1>2, <1>t, <1>n DEF TryLock, Goto, ring, TypeOK, ProducerPC, Ended, SenderPC
    <2>2. MutexHeld'
      BY <1>2, <1>t DEF TryLock, Goto, ring, TypeOK, MutexHeld
    <2>3. FreeSlotsCounted'
      BY <1>2, <1>t, <1>n, ReservingStep DEF TryLock, ring, Goto, TypeOK, FreeSlotsCounted, Reserving
    <2>4. FilledSlotsCounted'
      BY <1>2, <1>t DEF TryLock, Goto, ring, TypeOK, FilledSlotsCounted
    <2>5. IndicesAgree'
      BY <1>2, <1>t DEF TryLock, ring, IndicesAgree
    <2>6. QED
      BY <2>1, <2>2, <2>3, <2>4, <2>5 DEF QueueInv
  <1>3. ASSUME NEW p \in Producers, GiveUp(p) PROVE QueueInv'
    <2>1. TypeOK'
      <3>1. free + 1 \in 0 .. MaxSize
        <4>1. Cardinality(Reserving) > 0
          BY <1>3, ReservingPositive DEF GiveUp, Reserving
        <4>2. QED
          BY <4>1, <1>t, <1>n DEF FreeSlotsCounted, TypeOK
      <3>2. QED
        BY <3>1, <1>3, <1>t DEF GiveUp, Goto, ring, TypeOK, ProducerPC, Ended
    <2>2. MutexHeld'
      BY <1>3, <1>t DEF GiveUp, Goto, ring, TypeOK, MutexHeld
    <2>3. FreeSlotsCounted'
      <3>1. Cardinality(Reserving') = Cardinality(Reserving) - 1
        <4>1. Goto(p, "idle")
          BY <1>3 DEF GiveUp
        <4>2. p \in Reserving
          BY <1>3 DEF GiveUp, Reserving
        <4>3. QED
          BY <4>1, <4>2, <1>t, ReservingStep
      <3>2. QED
        BY <3>1, <1>3, <1>t, <1>n DEF GiveUp, ring, TypeOK, FreeSlotsCounted
    <2>4. FilledSlotsCounted'
      BY <1>3, <1>t DEF GiveUp, Goto, ring, TypeOK, FilledSlotsCounted
    <2>5. IndicesAgree'
      BY <1>3, <1>t DEF GiveUp, ring, IndicesAgree
    <2>6. QED
      BY <2>1, <2>2, <2>3, <2>4, <2>5 DEF QueueInv
  <1>4. ASSUME NEW p \in Producers, WriteSlot(p) PROVE QueueInv'
    <2>0. size + 1 \in 0 .. MaxSize
      <3>1. Cardinality(Reserving) > 0
        BY <1>4, ReservingPositive DEF WriteSlot, Reserving
      <3>2. QED
        BY <3>1, <1>t, <1>n DEF FreeSlotsCounted, TypeOK
    <2>1. TypeOK'
      <3>1. write_index' \in Slots
        BY <1>4, <1>t, NextSlotType DEF WriteSlot, TypeOK
      <3>2. array' \in [Slots -> Logs \union {NoLog}]
        BY <1>4, <1>t DEF WriteSlot, TypeOK
      <3>3. QED
        BY <2>0, <3>1, <3>2, <1>4, <1>t DEF WriteSlot, Goto, TypeOK, ProducerPC, Ended
    <2>2. MutexHeld'
      BY <1>4, <1>t DEF WriteSlot, Goto, ring, TypeOK, MutexHeld
    <2>3. FreeSlotsCounted'
      <3>1. Cardinality(Reserving') = Cardinality(Reserving) - 1
        <4>1. Goto(p, "post")
          BY <1>4 DEF WriteSlot
        <4>2. p \in Reserving
          BY <1>4 DEF WriteSlot, Reserving
        <4>3. QED
          BY <4>1, <4>2, <1>t, ReservingStep
      <3>2. QED
        BY <3>1, <1>4, <1>t, <1>n DEF WriteSlot, ring, TypeOK, FreeSlotsCounted
    <2>4. FilledSlotsCounted'
      <3>1. ~ \E q \in Producers : pc[q] = "post"
        BY <1>4, <1>t DEF WriteSlot, MutexHeld
      <3>2. pc'[p] = "post"
        BY <1>4, <1>t DEF WriteSlot, Goto, TypeOK
      <3>3. QED
        BY <3>1, <3>2, <1>4, <1>t DEF WriteSlot, TypeOK, FilledSlotsCounted
    <2>5. IndicesAgree'
      <3>1. size \in 0 .. MaxSize - 1
        BY <2>0, <1>t DEF TypeOK
      <3>2. NextSlot(write_index) = (read_index + (size + 1)) % MaxSize
        BY <3>1, <1>t, NextSlotAfter DEF TypeOK, IndicesAgree
      <3>3. QED
        BY <3>2, <1>4 DEF WriteSlot, IndicesAgree
    <2>6. QED
      BY <2>1, <2>2, <2>3, <2>4, <2>5 DEF QueueInv
  <1>5. ASSUME NEW p \in Producers, PostAdded(p) PROVE QueueInv'
    <2>0. /\ \E q \in Producers : pc[q] = "post"
          /\ ~ \E q \in Producers : pc'[q] = "post"
      BY <1>5, <1>t DEF PostAdded, Goto, TypeOK, MutexHeld
    <2>1. TypeOK'
      <3>1. added + 1 \in 0 .. MaxSize
        BY <2>0, <1>t DEF FilledSlotsCounted, TypeOK
      <3>2. QED
        BY <3>1, <1>5, <1>t DEF PostAdded, Goto, ring, TypeOK, ProducerPC, Ended
    <2>2. MutexHeld'
      BY <1>5, <1>t DEF PostAdded, Goto, ring, TypeOK, MutexHeld
    <2>3. FreeSlotsCounted'
      BY <1>5, <1>t, <1>n, ReservingStep DEF PostAdded, ring, Goto, TypeOK, FreeSlotsCounted, Reserving
    <2>4. FilledSlotsCounted'
      BY <2>0, <1>5, <1>t DEF PostAdded, ring, TypeOK, FilledSlotsCounted
    <2>5. IndicesAgree'
      BY <1>5, <1>t DEF PostAdded, ring, IndicesAgree
    <2>6. QED
      BY <2>1, <2>2, <2>3, <2>4, <2>5 DEF QueueInv
  <1>6. ASSUME NEW p \in Producers, Unlock(p) PROVE QueueInv'
    <2>1. TypeOK'
      BY <1>6, <1>t, <1>n DEF Unlock, Goto, ring, TypeOK, ProducerPC, Ended, SenderPC
    <2>2. MutexHeld'
      BY <1>6, <1>t DEF Unlock, Goto, ring, TypeOK, MutexHeld
    <2>3. FreeSlotsCounted'
      BY <1>6, <1>t, <1>n, ReservingStep DEF Unlock, ring, Goto, TypeOK, FreeSlotsCounted, Reserving
    <2>4. FilledSlotsCounted'
      BY <1>6, <1>t DEF Unlock, Goto, ring, TypeOK, FilledSlotsCounted
    <2>5. IndicesAgree'
      BY <1>6, <1>t DEF Unlock, ring, IndicesAgree
    <2>6. QED
      BY <2>1, <2>2, <2>3, <2>4, <2>5 DEF QueueInv
  <1>7. ASSUME NEW p \in Producers, ProducerExit(p) PROVE QueueInv'
    <2>1. TypeOK'
      BY <1>7, <1>t, <1>n DEF ProducerExit, Goto, ring, TypeOK, ProducerPC, Ended, SenderPC
    <2>2. MutexHeld'
      BY <1>7, <1>t DEF ProducerExit, Goto, ring, TypeOK, MutexHeld
    <2>3. FreeSlotsCounted'
      BY <1>7, <1>t, <1>n, ReservingStep DEF ProducerExit, ring, Goto, TypeOK, FreeSlotsCounted, Reserving
    <2>4. FilledSlotsCounted'
      BY <1>7, <1>t DEF ProducerExit, Goto, ring, TypeOK, FilledSlotsCounted
    <2>5. IndicesAgree'
      BY <1>7, <1>t DEF ProducerExit, ring, IndicesAgree
    <2>6. QED
      BY <2>1, <2>2, <2>3, <2>4, <2>5 DEF QueueInv
  <1>8. CASE SenderLoop
    <2>1. TypeOK'
      BY <1>8, <1>t, <1>n DEF SenderLoop, ring, TypeOK, SenderPC, FreeSlotsCounted
    <2>2. MutexHeld'
      BY <1>8, <1>t DEF SenderLoop, ring, MutexHeld
    <2>3. FreeSlotsCounted'
      BY <1>8, <1>t, <1>n DEF SenderLoop, ring, TypeOK, FreeSlotsCounted, Reserving
    <2>4. FilledSlotsCounted'
      BY <1>8, <1>t DEF SenderLoop, ring, TypeOK, FilledSlotsCounted
    <2>5. IndicesAgree'
      BY <1>8, <1>t DEF SenderLoop, ring, IndicesAgree
    <2>6. QED
      BY <2>1, <2>2, <2>3, <2>4, <2>5 DEF QueueInv
  <1>9. CASE WaitAdded
    <2>1. TypeOK'
      BY <1>9, <1>t, <1>n DEF WaitAdded, ring, TypeOK, SenderPC, FreeSlotsCounted
    <2>2. MutexHeld'
      BY <1>9, <1>t DEF WaitAdded, ring, MutexHeld
    <2>3. FreeSlotsCounted'
      BY <1>9, <1>t, <1>n DEF WaitAdded, ring, TypeOK, FreeSlotsCounted, Reserving
    <2>4. FilledSlotsCounted'
      BY <1>9, <1>t DEF WaitAdded, ring, TypeOK, FilledSlotsCounted
    <2>5. IndicesAgree'
      BY <1>9, <1>t DEF WaitAdded, ring, IndicesAgree
    <2>6. QED
      BY <2>1, <2>2, <2>3, <2>4, <2>5 DEF QueueInv
  <1>10. CASE LockMutex
    <2>1. TypeOK'
      BY <1>10, <1>t, <1>n DEF LockMutex, ring, TypeOK, SenderPC, FreeSlotsCounted
    <2>2. MutexHeld'
      BY <1>10, <1>t DEF LockMutex, ring, MutexHeld
    <2>3. FreeSlotsCounted'
      BY <1>10, <1>t, <1>n DEF LockMutex, ring, TypeOK, FreeSlotsCounted, Reserving
    <2>4. FilledSlotsCounted'
      BY <1>10, <1>t DEF LockMutex, ring, TypeOK, FilledSlotsCounted
    <2>5. IndicesAgree'
      BY <1>10, <1>t DEF LockMutex, ring, IndicesAgree
    <2>6. QED
      BY <2>1, <2>2, <2>3, <2>4, <2>5 DEF QueueInv
  <1>11. CASE ReadSlot
    <2>0. size \in 1 .. MaxSize
      BY <1>11, <1>t DEF ReadSlot, FilledSlotsCounted, TypeOK
    <2>1. TypeOK'
      <3>1. read_index' \in Slots
        BY <1>11, <1>t, NextSlotType DEF ReadSlot, TypeOK
      <3>2. slog' \in Logs \union {NoLog}
        BY <1>11, <1>t DEF ReadSlot, TypeOK
      <3>3. QED
        BY <2>0, <3>1, <3>2, <1>11, <1>t DEF ReadSlot, TypeOK, SenderPC
    <2>2. MutexHeld'
      BY <1>11, <1>t DEF ReadSlot, ring, MutexHeld
    <2>3. FreeSlotsCounted'
      BY <1>11, <1>t, <1>n DEF ReadSlot, ring, TypeOK, FreeSlotsCounted, Reserving
    <2>4. FilledSlotsCounted'
      BY <1>11, <1>t DEF ReadSlot, ring, TypeOK, FilledSlotsCounted
    <2>5. IndicesAgree'
      BY <2>0, <1>11, <1>t, SlotBefore DEF ReadSlot, TypeOK, IndicesAgree
    <2>6. QED
      BY <2>1, <2>2, <2>3, <2>4, <2>5 DEF QueueInv
  <1>12. CASE PostFree
    <2>1. TypeOK'
      BY <1>12, <1>t, <1>n DEF PostFree, ring, TypeOK, SenderPC, FreeSlotsCounted
    <2>2. MutexHeld'
      BY <1>12, <1>t DEF PostFree, ring, MutexHeld
    <2>3. FreeSlotsCounted'
      BY <1>12, <1>t, <1>n DEF PostFree, ring, TypeOK, FreeSlotsCounted, Reserving
    <2>4. FilledSlotsCounted'
      BY <1>12, <1>t DEF PostFree, ring, TypeOK, FilledSlotsCounted
    <2>5. IndicesAgree'
      BY <1>12, <1>t DEF PostFree, ring, IndicesAgree
    <2>6. QED
      BY <2>1, <2>2, <2>3, <2>4, <2>5 DEF QueueInv
  <1>13. CASE SenderUnlock
    <2>1. TypeOK'
      BY <1>13, <1>t, <1>n DEF SenderUnlock, ring, TypeOK, SenderPC, FreeSlotsCounted
    <2>2. MutexHeld'
      BY <1>13, <1>t DEF SenderUnlock, ring, MutexHeld
    <2>3. FreeSlotsCounted'
      BY <1>13, <1>t, <1>n DEF SenderUnlock, ring, TypeOK, FreeSlotsCounted, Reserving
    <2>4. FilledSlotsCounted'
      BY <1>13, <1>t DEF SenderUnlock, ring, TypeOK, FilledSlotsCounted
    <2>5. IndicesAgree'
      BY <1>13, <1>t DEF SenderUnlock, ring, IndicesAgree
    <2>6. QED
      BY <2>1, <2>2, <2>3, <2>4, <2>5 DEF QueueInv
  <1>14. CASE Send
    <2>1. TypeOK'
      BY <1>14, <1>t, <1>n DEF Send, ring, TypeOK, SenderPC, FreeSlotsCounted
    <2>2. MutexHeld'
      BY <1>14, <1>t DEF Send, ring, MutexHeld
    <2>3. FreeSlotsCounted'
      BY <1>14, <1>t, <1>n DEF Send, ring, TypeOK, FreeSlotsCounted, Reserving
    <2>4. FilledSlotsCounted'
      BY <1>14, <1>t DEF Send, ring, TypeOK, FilledSlotsCounted
    <2>5. IndicesAgree'
      BY <1>14, <1>t DEF Send, ring, IndicesAgree
    <2>6. QED
      BY <2>1, <2>2, <2>3, <2>4, <2>5 DEF QueueInv
  <1>15. CASE SenderCancelled
    <2>1. TypeOK'
      BY <1>15, <1>t, <1>n DEF SenderCancelled, ring, TypeOK, SenderPC, FreeSlotsCounted
    <2>2. MutexHeld'
      BY <1>15, <1>t DEF SenderCancelled, ring, MutexHeld
    <2>3. FreeSlotsCounted'
      BY <1>15, <1>t, <1>n DEF SenderCancelled, ring, TypeOK, FreeSlotsCounted, Reserving
    <2>4. FilledSlotsCounted'
      BY <1>15, <1>t DEF SenderCancelled, ring, TypeOK, FilledSlotsCounted
    <2>5. IndicesAgree'
      BY <1>15, <1>t DEF SenderCancelled, ring, IndicesAgree
    <2>6. QED
      BY <2>1, <2>2, <2>3, <2>4, <2>5 DEF QueueInv
  <1>16. CASE StopAllThreads
    <2>1. TypeOK'
      BY <1>16, <1>t, <1>n DEF StopAllThreads, ring, TypeOK, SenderPC, FreeSlotsCounted
    <2>2. MutexHeld'
      BY <1>16, <1>t DEF StopAllThreads, ring, MutexHeld
    <2>3. FreeSlotsCounted'
      BY <1>16, <1>t, <1>n DEF StopAllThreads, ring, TypeOK, FreeSlotsCounted, Reserving
    <2>4. FilledSlotsCounted'
      BY <1>16, <1>t DEF StopAllThreads, ring, TypeOK, FilledSlotsCounted
    <2>5. IndicesAgree'
      BY <1>16, <1>t DEF StopAllThreads, ring, IndicesAgree
    <2>6. QED
      BY <2>1, <2>2, <2>3, <2>4, <2>5 DEF QueueInv
  <1>17. CASE UNCHANGED vars
    BY <1>17, <1>t DEF vars, ring, QueueInv, TypeOK, MutexHeld, FreeSlotsCounted,
       FilledSlotsCounted, IndicesAgree, Reserving
  <1>18. QED
    BY <1>1, <1>2, <1>3, <1>4, <1>5, <1>6, <1>7, <1>8, <1>9, <1>10, <1>11, <1>12, <1>13, <1>14, <1>15, <1>16, <1>17 DEF Next, Enqueue, SenderStep, NoFreeSlot

-----------------------------------------------------------------------------
(* The theorems.                                                           *)

\* The semaphores, the size field, the indices and the mutex of
\* server-logs-queue.h agree in every reachable state, for any number of
\* producer threads and any SERVER_LOGS_QUEUE_MAX_SIZE.
THEOREM QueueInvariant == Spec => []QueueInv
  BY InitQueueInv, NextQueueInv, PTL DEF Spec

\* The fields of the queue never leave their ranges.
THEOREM TypeCorrect == Spec => []TypeOK
  <1>1. QueueInv => TypeOK
    BY DEF QueueInv
  <1>2. QED
    BY <1>1, QueueInvariant, PTL

\* What the asserts of lines 80 and 106 test follows from the accounting: a
\* producer about to write reserved a slot that is not filled, and the sender
\* about to read claimed a filled one.
LEMMA QueueInvAsserts == QueueInv => AssertsHold
  <1> SUFFICES ASSUME QueueInv PROVE AssertsHold
    OBVIOUS
  <1> USE QueueAssumption
  <1>1. ASSUME NEW p \in Producers, pc[p] = "write" PROVE size < MaxSize
    <2>1. Cardinality(Reserving) > 0 /\ Cardinality(Reserving) \in Nat
      BY <1>1, ReservingPositive, ReservingFinite DEF Reserving
    <2>2. QED
      BY <2>1 DEF QueueInv, TypeOK, FreeSlotsCounted
  <1>2. ASSUME spc = "read" PROVE size > 0
    BY <1>2 DEF QueueInv, TypeOK, FilledSlotsCounted
  <1>3. QED
    BY <1>1, <1>2 DEF AssertsHold

\* The asserts of the enqueue and of the dequeue never abort the server.
THEOREM AssertsNeverFail == Spec => []AssertsHold
  BY QueueInvariant, QueueInvAsserts, PTL

-----------------------------------------------------------------------------
(* The ring implements the FIFO.                                           *)

\* The empty ring is the empty FIFO.
LEMMA InitFifo == Init => Fifo!Init
  <1> SUFFICES ASSUME Init PROVE Fifo!Init
    OBVIOUS
  <1>1. Contents = <<>>
    BY DEF Init, Contents, SlotsFrom
  <1>2. QED
    BY <1>1 DEF Init, Fifo!Init

\* A step that changes neither the ring nor the sender's buffer is no step of
\* the FIFO.
LEMMA FifoStutter ==
    ASSUME UNCHANGED <<array, size, read_index, slog>>
    PROVE  UNCHANGED Fifo!vars
  BY DEF Fifo!vars, Contents, SlotsFrom

\* The slots that hold logs differ from the slot to be written.
LEMMA WriteSlotIsFree ==
    ASSUME QueueInv, size < MaxSize, NEW i \in 1 .. size
    PROVE  /\ (read_index + i - 1) % MaxSize \in Slots
           /\ (read_index + i - 1) % MaxSize # write_index
  <1> USE QueueAssumption
  <1>1. /\ i - 1 \in 0 .. MaxSize /\ i - 1 < size /\ size \in 0 .. MaxSize
        /\ read_index \in Nat /\ read_index < MaxSize /\ read_index \in Slots
        /\ MaxSize \in Nat
    BY DEF QueueInv, TypeOK, Slots
  <1>2. /\ write_index = (read_index + size) % MaxSize
        /\ read_index + i - 1 = read_index + (i - 1)
    BY <1>1 DEF QueueInv, IndicesAgree
  <1>3. (read_index + (i - 1)) % MaxSize =
          IF read_index + (i - 1) < MaxSize THEN read_index + (i - 1)
                                            ELSE (read_index + (i - 1)) - MaxSize
    BY <1>1, SlotAfter
  <1>4. (read_index + size) % MaxSize =
          IF read_index + size < MaxSize THEN read_index + size
                                         ELSE (read_index + size) - MaxSize
    BY <1>1, SlotAfter
  <1>5. (read_index + (i - 1)) % MaxSize \in Slots
    BY <1>1, SlotAfter
  <1>6. (read_index + (i - 1)) % MaxSize # (read_index + size) % MaxSize
    BY <1>1, <1>3, <1>4
  <1>7. QED
    BY <1>2, <1>5, <1>6

\* n slots of a ring from slot r on, in order, are a sequence of length n.
LEMMA SlotsAreSeq ==
    ASSUME NEW S, NEW a \in [Slots -> S], NEW r \in Slots, NEW n \in 0 .. MaxSize
    PROVE  SlotsFrom(a, r, n) \in Seq(S) /\ Len(SlotsFrom(a, r, n)) = n
  <1> DEFINE C == SlotsFrom(a, r, n)
  <1>1. ASSUME NEW i \in 1 .. n
        PROVE  (r + i - 1) % MaxSize \in Slots
    <2>1. r + i - 1 = r + (i - 1) /\ i - 1 \in 0 .. MaxSize
      BY QueueAssumption DEF Slots
    <2>2. QED
      BY <2>1, SlotAfter
  <1>2. C \in [1 .. n -> S] /\ n \in Nat
    BY <1>1, QueueAssumption DEF SlotsFrom
  <1>3. QED
    BY <1>2, SeqDef

\* Writing the slot at write_index appends the producer's log.
LEMMA WriteAccepts ==
    ASSUME QueueInv, QueueInv', NEW p \in Producers, WriteSlot(p)
    PROVE  Fifo!Accept(plog[p]) /\ plog[p] \in Logs
  <1> USE QueueAssumption
  <1> DEFINE S == Logs \union {NoLog}
             C == Contents
             A == Append(Contents, plog[p])
  <1>1. size \in Nat /\ size < MaxSize /\ plog[p] \in Logs
    BY QueueInvAsserts DEF AssertsHold, WriteSlot, QueueInv, TypeOK, Ended
  <1>2. C \in Seq(S) /\ Len(C) = size /\ C' \in Seq(S) /\ Len(C') = size + 1
    <2>1. C \in Seq(S) /\ Len(C) = size
      <3>1. /\ array \in [Slots -> S] /\ read_index \in Slots
            /\ size \in 0 .. MaxSize
        BY DEF QueueInv, TypeOK
      <3>2. QED
        BY <3>1, SlotsAreSeq DEF Contents
    <2>2. C' \in Seq(S) /\ Len(C') = size'
      <3>1. /\ array' \in [Slots -> S] /\ read_index' \in Slots
            /\ size' \in 0 .. MaxSize
        BY DEF QueueInv, TypeOK
      <3>2. QED
        BY <3>1, SlotsAreSeq DEF Contents
    <2>3. QED
      BY <2>1, <2>2 DEF WriteSlot
  <1>3. A \in Seq(S) /\ Len(A) = size + 1
    BY <1>1, <1>2
  <1>4. ASSUME NEW i \in 1 .. size + 1 PROVE C'[i] = A[i]
    <2>1. C'[i] = array'[(read_index + i - 1) % MaxSize]
      BY <1>1, <1>4 DEF Contents, SlotsFrom, WriteSlot
    <2>2. CASE i = size + 1
      <3>1. read_index + i - 1 = read_index + size
        BY <1>1, <2>2 DEF QueueInv, TypeOK, Slots
      <3>2. (read_index + i - 1) % MaxSize = write_index
        BY <3>1 DEF QueueInv, IndicesAgree
      <3>3. C'[i] = plog[p]
        BY <2>1, <3>2 DEF WriteSlot, QueueInv, TypeOK
      <3>4. QED
        BY <3>3, <2>2, <1>1, <1>2
    <2>3. CASE i \in 1 .. size
      <3>1. /\ (read_index + i - 1) % MaxSize \in Slots
            /\ (read_index + i - 1) % MaxSize # write_index
        BY <1>1, <2>3, WriteSlotIsFree
      <3>2. C'[i] = array[(read_index + i - 1) % MaxSize]
        BY <2>1, <3>1 DEF WriteSlot, QueueInv, TypeOK
      <3>3. C'[i] = C[i]
        BY <3>2, <2>3 DEF Contents, SlotsFrom
      <3>4. QED
        BY <3>3, <2>3, <1>1, <1>2
    <2>4. i = size + 1 \/ i \in 1 .. size
      BY <1>1, <1>4
    <2>5. QED
      BY <2>2, <2>3, <2>4
  <1>5. Contents' = A
    BY <1>2, <1>3, <1>4, SeqEqual
  <1>6. QED
    BY <1>1, <1>2, <1>5 DEF Fifo!Accept, WriteSlot

\* Reading the slot at read_index takes the oldest log.
LEMMA ReadTakes ==
    ASSUME QueueInv, QueueInv', ReadSlot
    PROVE  Fifo!Take
  <1> USE QueueAssumption
  <1> DEFINE S == Logs \union {NoLog}
             C == Contents
             T == Tail(Contents)
  <1>1. /\ size \in 1 .. MaxSize /\ size \in Nat /\ read_index \in Slots
        /\ read_index \in Nat /\ read_index < MaxSize
    BY QueueInvAsserts DEF AssertsHold, ReadSlot, QueueInv, TypeOK, Slots
  <1>2. C \in Seq(S) /\ Len(C) = size /\ C' \in Seq(S) /\ Len(C') = size - 1
    <2>1. C \in Seq(S) /\ Len(C) = size
      <3>1. /\ array \in [Slots -> S] /\ read_index \in Slots
            /\ size \in 0 .. MaxSize
        BY DEF QueueInv, TypeOK
      <3>2. QED
        BY <3>1, SlotsAreSeq DEF Contents
    <2>2. C' \in Seq(S) /\ Len(C') = size'
      <3>1. /\ array' \in [Slots -> S] /\ read_index' \in Slots
            /\ size' \in 0 .. MaxSize
        BY DEF QueueInv, TypeOK
      <3>2. QED
        BY <3>1, SlotsAreSeq DEF Contents
    <2>3. QED
      BY <2>1, <2>2 DEF ReadSlot
  <1>3. C # <<>>
    BY <1>1, <1>2, EmptySeq
  <1>4. T \in Seq(S) /\ Len(T) = size - 1 /\ \A i \in 1 .. size - 1 : T[i] = C[i + 1]
    BY <1>2, <1>3, HeadTailProperties
  <1>5. ASSUME NEW i \in 1 .. size - 1 PROVE C'[i] = T[i]
    <2>1. C'[i] = array[(NextSlot(read_index) + i - 1) % MaxSize]
      BY <1>1, <1>5 DEF Contents, SlotsFrom, ReadSlot
    <2>2. (NextSlot(read_index) + i - 1) % MaxSize = (read_index + i) % MaxSize
      <3>1. i \in 1 .. MaxSize /\ NextSlot(read_index) \in Nat
        BY <1>1, <1>5, NextSlotType DEF Slots
      <3>2. NextSlot(read_index) + i - 1 = NextSlot(read_index) + (i - 1)
        BY <3>1
      <3>3. QED
        BY <3>1, <3>2, <1>1, SlotBefore
    <2>3. i + 1 \in 1 .. size /\ read_index + (i + 1) - 1 = read_index + i
      BY <1>1, <1>5
    <2>4. C[i + 1] = array[(read_index + i) % MaxSize]
      BY <2>3 DEF Contents, SlotsFrom
    <2>5. QED
      BY <2>1, <2>2, <2>4, <1>4, <1>5
  <1>6. Contents' = T
    BY <1>2, <1>4, <1>5, SeqEqual
  <1>7. slog' = Head(Contents)
    <2>1. Head(C) = C[1]
      BY <1>2, <1>3
    <2>2. read_index + 1 - 1 = read_index + 0 /\ 1 \in 1 .. size /\ read_index + 0 = read_index
      BY <1>1
    <2>3. C[1] = array[read_index % MaxSize]
      BY <2>2 DEF Contents, SlotsFrom
    <2>4. read_index % MaxSize = read_index
      BY <1>1, ModSmall
    <2>5. QED
      BY <2>1, <2>3, <2>4 DEF ReadSlot
  <1>8. QED
    BY <1>3, <1>6, <1>7 DEF Fifo!Take

\* Every step of the queue is a step of the FIFO or changes nothing of it.
LEMMA NextFifo ==
    QueueInv /\ QueueInv' /\ [Next]_vars => [Fifo!Next]_(Fifo!vars)
  <1> SUFFICES ASSUME QueueInv, QueueInv', [Next]_vars
               PROVE  [Fifo!Next]_(Fifo!vars)
    OBVIOUS
  <1>1. ASSUME NEW p \in Producers, WriteSlot(p) PROVE Fifo!Next
    BY <1>1, WriteAccepts DEF Fifo!Next
  <1>2. CASE ReadSlot
    BY <1>2, ReadTakes DEF Fifo!Next
  <1>3. ASSUME NEW p \in Producers,
               \/ TryWait(p) \/ NoFreeSlot(p) \/ TryLock(p) \/ GiveUp(p)
               \/ PostAdded(p) \/ Unlock(p) \/ ProducerExit(p)
        PROVE  UNCHANGED Fifo!vars
    BY <1>3, FifoStutter DEF TryWait, NoFreeSlot, TryLock, GiveUp, PostAdded,
       Unlock, ProducerExit, ring, vars
  <1>4. CASE \/ SenderLoop \/ WaitAdded \/ LockMutex \/ PostFree \/ SenderUnlock
             \/ Send \/ SenderCancelled \/ StopAllThreads \/ UNCHANGED vars
    BY <1>4, FifoStutter DEF SenderLoop, WaitAdded, LockMutex, PostFree,
       SenderUnlock, Send, SenderCancelled, StopAllThreads, ring, vars
  <1>5. QED
    BY <1>1, <1>2, <1>3, <1>4 DEF Next, Enqueue, SenderStep

\* The ring of server-logs-queue.h, with its producers that never wait and its
\* cancelled threads, implements the FIFO of LogsFifo: an accepted log is taken
\* once, in its turn and unchanged.
THEOREM RingImplementsFifo == Spec => ImplementsFifo
  BY QueueInvariant, InitFifo, NextFifo, PTL DEF Spec, Fifo!Spec, ImplementsFifo

=============================================================================
