----------------------------- MODULE PinBuffer ------------------------------
(***************************************************************************)
(* The pin factory of os_ihw2/mark-4-5 and mark-6-7: main creates two      *)
(* buffers in shared memory, each with three semaphores, forks the workers *)
(* of the three stages and waits for them.  Every access to a semaphore or *)
(* to a buffer is a step.  Ctrl-C ends the workers wherever they are, kill *)
(* ends one; main may be run again.                                        *)
(*                                                                         *)
(* The marks differ in their semaphores: those of mark-4-5 have names and  *)
(* outlive a main that did not remove them, those of mark-6-7 lie in the   *)
(* shared memory and are set again when main starts.                       *)
(***************************************************************************)
EXTENDS Naturals, Sequences, FiniteSets

CONSTANTS
    FirstWorkers, SecondWorkers, ThirdWorkers,
    Pins, NoPin,
    Size,               \* SH_MEM_BUFFER_SIZE
    Marks,              \* the programs, of {"4-5", "6-7"}
    EarlyInterrupt,     \* those that Ctrl-C may reach before main ignores it
    Killable,           \* <<mark, w>>: kill may end w
    Watched             \* the pins PinsAreTaken is about; all pins are alike

Ties == {"1-2", "2-3"}
Workers == FirstWorkers \union SecondWorkers \union ThirdWorkers
Stages == {FirstWorkers, SecondWorkers, ThirdWorkers}
Slots == 0 .. Size - 1

ASSUME PinBufferAssumption ==
    /\ FirstWorkers \intersect SecondWorkers = {}
    /\ FirstWorkers \intersect ThirdWorkers = {}
    /\ SecondWorkers \intersect ThirdWorkers = {}
    /\ IsFiniteSet(Workers) /\ NoPin \notin Pins /\ Size \in Nat \ {0}

VARIABLES
    mark,
    main,       \* where main is: "off", "fork" or "wait"
    named,      \* named semaphores exist
    access, added, free,    \* the values of the semaphores of each tie
    buffer, rd, wr,         \* buffer, read_index and write_index of each tie
    pc, pin,    \* where a worker is, or was when it ended, and its pin
    alive       \* the workers that run

sems == <<access, added, free>>
memory == <<buffer, rd, wr>>
vars == <<mark, main, named, sems, memory, pc, pin, alive>>

In(w) == IF w \in SecondWorkers THEN "1-2" ELSE "2-3"
Out(w) == IF w \in FirstWorkers THEN "1-2" ELSE "2-3"
Loop(w) == IF w \in FirstWorkers THEN "make" ELSE "added"

Init ==
    /\ mark \in Marks /\ main = "off" /\ named = FALSE
    /\ access = [t \in Ties |-> 1] /\ added = [t \in Ties |-> 0]
    /\ free = [t \in Ties |-> Size]
    /\ buffer = [t \in Ties |-> [i \in Slots |-> NoPin]]
    /\ rd = [t \in Ties |-> 0] /\ wr = [t \in Ties |-> 0]
    /\ pc = [w \in Workers |-> "none"] /\ pin = [w \in Workers |-> NoPin] /\ alive = {}

-----------------------------------------------------------------------------
(* Main.                                                                   *)

\* sem_open of a name that exists takes the semaphore as it is.
OpenSemaphores ==
    IF mark = "4-5" /\ named THEN UNCHANGED sems
    ELSE /\ access' = [t \in Ties |-> 1] /\ added' = [t \in Ties |-> 0]
         /\ free' = [t \in Ties |-> Size]

\* A pin in the buffer of an earlier run is gone, its id can be used again.
InitResources ==
    /\ main = "off" /\ alive = {}
    /\ OpenSemaphores /\ named' = (mark = "4-5")
    /\ buffer' = [t \in Ties |-> [i \in Slots |-> NoPin]]
    /\ rd' = [t \in Ties |-> 0] /\ wr' = [t \in Ties |-> 0]
    /\ pc' = [w \in Workers |-> "none"] /\ pin' = [w \in Workers |-> NoPin]
    /\ main' = "fork" /\ UNCHANGED <<mark, alive>>

DeinitResources == named' = FALSE /\ main' = "off"

Fork(W) ==
    /\ \E w \in W :
          /\ pc[w] = "none"
          /\ pc' = [pc EXCEPT ![w] = Loop(w)] /\ alive' = alive \union {w}
    /\ UNCHANGED <<mark, main, named, sems, memory, pin>>

StartFirst == main = "fork" /\ Fork(FirstWorkers)
StartSecond ==
    /\ main = "fork" /\ \A w \in FirstWorkers : pc[w] # "none"
    /\ Fork(SecondWorkers)
StartThird ==
    /\ main = "fork" /\ \A w \in FirstWorkers \union SecondWorkers : pc[w] # "none"
    /\ Fork(ThirdWorkers)

\* When fork fails, main removes the resources and ends; the workers go on.
ForkFails ==
    /\ main = "fork" /\ \E w \in Workers : pc[w] = "none"
    /\ DeinitResources
    /\ UNCHANGED <<mark, sems, memory, pc, pin, alive>>

IgnoreInterrupt ==
    /\ main = "fork" /\ \A w \in Workers : pc[w] # "none"
    /\ main' = "wait"
    /\ UNCHANGED <<mark, named, sems, memory, pc, pin, alive>>

WaitForWorkers ==
    /\ main = "wait" /\ alive = {}
    /\ DeinitResources
    /\ UNCHANGED <<mark, sems, memory, pc, pin, alive>>

-----------------------------------------------------------------------------
(* Signals.                                                                *)

\* All workers end.  A main that does not ignore the signal yet is killed, and
\* removes nothing.
CtrlC ==
    /\ main = "wait" \/ (main = "fork" /\ mark \in EarlyInterrupt)
    /\ alive' = {} /\ main' = IF main = "fork" THEN "off" ELSE main
    /\ pin' = [w \in Workers |-> NoPin] /\ UNCHANGED <<mark, named, sems, memory, pc>>

Kill(w) ==
    /\ w \in alive /\ <<mark, w>> \in Killable /\ alive' = alive \ {w}
    /\ pin' = [pin EXCEPT ![w] = NoPin]
    /\ UNCHANGED <<mark, main, named, sems, memory, pc>>

-----------------------------------------------------------------------------
(* The workers: run_first_worker, run_second_worker, run_third_worker.     *)

At(w, l) == w \in alive /\ pc[w] = l
Go(w, l) == pc' = [pc EXCEPT ![w] = l] /\ UNCHANGED <<mark, main, named, alive>>

Down(s, t) == s[t] > 0 /\ s' = [s EXCEPT ![t] = @ - 1]
Up(s, t) == s' = [s EXCEPT ![t] = @ + 1]

InBuffer(p) ==
    \E t \in Ties : \E k \in 0 .. Size - 1 :
        /\ k < Size - free[t] /\ buffer[t][(rd[t] + k) % Size] = p
InHand(p) == \E w \in alive : pin[w] = p

\* rand(): an id that is nowhere; which of them makes no difference.
MakePin(w) ==
    LET new == {p \in Pins : ~InBuffer(p) /\ ~InHand(p)} IN
    /\ At(w, "make") /\ new # {}
    /\ pin' = [pin EXCEPT ![w] = CHOOSE p \in new : TRUE]
    /\ Go(w, "check") /\ UNCHANGED <<sems, memory>>

\* check_pin_crookness and check_sharpened_pin_quality.
CheckPin(w) ==
    /\ At(w, "check")
    /\ \/ w \in FirstWorkers /\ Go(w, "free") /\ UNCHANGED pin
       \/ pin' = [pin EXCEPT ![w] = NoPin] /\ Go(w, Loop(w))
    /\ UNCHANGED <<sems, memory>>

\* wait_for_pin
WaitAdded(w) ==
    /\ At(w, "added") /\ Down(added, In(w)) /\ Go(w, "rlock")
    /\ UNCHANGED <<access, free, memory, pin>>

LockToRead(w) ==
    /\ At(w, "rlock") /\ Down(access, In(w)) /\ Go(w, "read")
    /\ UNCHANGED <<added, free, memory, pin>>

\* Mutant: the index of the reader does not move on.
ReadPinAgain(w) ==
    /\ At(w, "read")
    /\ pin' = [pin EXCEPT ![w] = buffer[In(w)][rd[In(w)]]]
    /\ Go(w, "rfree") /\ UNCHANGED <<sems, memory>>

\* The copy that stays in the slot is never looked at again, and left out.
ReadPin(w) ==
    /\ At(w, "read")
    /\ pin' = [pin EXCEPT ![w] = buffer[In(w)][rd[In(w)]]]
    /\ buffer' = [buffer EXCEPT ![In(w)][rd[In(w)]] = NoPin]
    /\ rd' = [rd EXCEPT ![In(w)] = (@ + 1) % Size]
    /\ Go(w, "rfree") /\ UNCHANGED <<sems, wr>>

PostFree(w) ==
    /\ At(w, "rfree") /\ Up(free, In(w)) /\ Go(w, "runlock")
    /\ UNCHANGED <<access, added, memory, pin>>

\* A second worker sharpens the pin and sends it, a third one judges it.
UnlockRead(w) ==
    /\ At(w, "runlock") /\ Up(access, In(w))
    /\ Go(w, IF w \in SecondWorkers THEN "free" ELSE "check")
    /\ UNCHANGED <<added, free, memory, pin>>

\* Mutant: nobody waits for a free slot.
WaitFreeNot(w) ==
    /\ At(w, "free") /\ Go(w, "wlock")
    /\ free' = [free EXCEPT ![Out(w)] = IF @ > 0 THEN @ - 1 ELSE 0]
    /\ UNCHANGED <<access, added, memory, pin>>

\* send_pin
WaitFree(w) ==
    /\ At(w, "free") /\ Down(free, Out(w)) /\ Go(w, "wlock")
    /\ UNCHANGED <<access, added, memory, pin>>

LockToWrite(w) ==
    /\ At(w, "wlock") /\ Down(access, Out(w)) /\ Go(w, "write")
    /\ UNCHANGED <<added, free, memory, pin>>

WritePin(w) ==
    /\ At(w, "write")
    /\ buffer' = [buffer EXCEPT ![Out(w)][wr[Out(w)]] = pin[w]]
    /\ wr' = [wr EXCEPT ![Out(w)] = (@ + 1) % Size]
    /\ pin' = [pin EXCEPT ![w] = NoPin]
    /\ Go(w, "wadd") /\ UNCHANGED <<sems, rd>>

PostAdded(w) ==
    /\ At(w, "wadd") /\ Up(added, Out(w)) /\ Go(w, "wunlock")
    /\ UNCHANGED <<access, free, memory, pin>>

\* Mutant: the access semaphore is not given back.
UnlockWriteNot(w) ==
    /\ At(w, "wunlock") /\ Go(w, Loop(w)) /\ UNCHANGED <<sems, memory, pin>>

UnlockWrite(w) ==
    /\ At(w, "wunlock") /\ Up(access, Out(w)) /\ Go(w, Loop(w))
    /\ UNCHANGED <<added, free, memory, pin>>

Worker(w) ==
    \/ MakePin(w) \/ CheckPin(w)
    \/ WaitAdded(w) \/ LockToRead(w) \/ ReadPin(w) \/ PostFree(w) \/ UnlockRead(w)
    \/ WaitFree(w) \/ LockToWrite(w) \/ WritePin(w) \/ PostAdded(w) \/ UnlockWrite(w)

Main ==
    \/ InitResources \/ StartFirst \/ StartSecond \/ StartThird \/ ForkFails
    \/ IgnoreInterrupt \/ WaitForWorkers

Next ==
    \/ Main \/ CtrlC
    \/ \E w \in Workers : Kill(w) \/ Worker(w)

Spec == Init /\ [][Next]_vars

\* The processes run; nobody has to start main, and nothing has to fail.
Forking == StartFirst \/ StartSecond \/ StartThird \/ IgnoreInterrupt

Fairness ==
    /\ WF_vars(Forking)
    /\ \A w \in Workers : WF_vars(Worker(w))

FairSpec == Spec /\ Fairness

-----------------------------------------------------------------------------
(* Properties.                                                             *)

PC == {"none", "make", "check", "added", "rlock", "read", "rfree", "runlock",
       "free", "wlock", "write", "wadd", "wunlock"}

\* The type of the state: no semaphore exceeds its ring, no index leaves it.
TypeOK ==
    /\ mark \in Marks /\ main \in {"off", "fork", "wait"} /\ named \in BOOLEAN
    /\ access \in [Ties -> 0 .. 1]
    /\ added \in [Ties -> 0 .. Size] /\ free \in [Ties -> 0 .. Size]
    /\ buffer \in [Ties -> [Slots -> Pins \union {NoPin}]]
    /\ rd \in [Ties -> Slots] /\ wr \in [Ties -> Slots]
    /\ pc \in [Workers -> PC] /\ pin \in [Workers -> Pins \union {NoPin}]
    /\ alive \subseteq Workers

SendersAt(t, L) == {w \in Workers : Out(w) = t /\ w \notin ThirdWorkers /\ pc[w] \in L}
TakersAt(t, L) == {w \in Workers : In(w) = t /\ w \notin FirstWorkers /\ pc[w] \in L}

\* The number of pins in a buffer, from the slots that are not free.
Stored(t) ==
    Size - free[t] - Cardinality(SendersAt(t, {"wlock", "write"}))
                   - Cardinality(TakersAt(t, {"rfree"}))

\* A unit of a semaphore is in it, or with a worker at one of these places.
UnitsAddUp == \A t \in Ties :
    /\ Stored(t) = added[t] + Cardinality(SendersAt(t, {"wadd"}))
                            + Cardinality(TakersAt(t, {"rlock", "read"}))
    /\ (rd[t] + Stored(t)) % Size = wr[t]
    /\ access[t] + Cardinality(SendersAt(t, {"write", "wadd", "wunlock"}))
                 + Cardinality(TakersAt(t, {"read", "rfree", "runlock"})) = 1

\* The semaphores, the indices and the places of the workers always add up, those of
\* the workers that were killed included: no unit is made up or lost otherwise.
SemaphoresAddUp == TypeOK /\ UnitsAddUp

\* The buffers with their semaphores are the lines of PinLine: no pin is
\* overwritten, taken twice or out of order.
LineOf(t) == [k \in 1 .. Stored(t) |-> buffer[t][(rd[t] + k - 1) % Size]]
Abstract == INSTANCE PinLine WITH line <- [t \in Ties |-> LineOf(t)],
                                  hand <- pin
ImplementsPinLine == Abstract!Spec

\* A worker that was killed between two semaphores, with a unit of one of them.
DiedInside == \E w \in Workers \ alive : pc[w] \notin {"none", "make", "check", "added", "free"}

\* A pin that is in a buffer is taken out, unless main's run ends, a stage has no
\* worker left, or one was killed between two semaphores.
PinsAreTaken == \A t \in Ties : \A p \in Watched :
    (\E k \in 1 .. Stored(t) : LineOf(t)[k] = p)
        ~> \/ ~ \E k \in 1 .. Stored(t) : LineOf(t)[k] = p
           \/ main = "off" \/ DiedInside \/ \E S \in Stages : S \intersect alive = {}
=============================================================================
