------------------------------ MODULE PinLine -------------------------------
(***************************************************************************)
(* What the pin factories of os_ihw2 promise, whatever carries the pins:   *)
(* two bounded lines between three stages of workers.  First workers make  *)
(* pins and drop the crooked ones, second workers sharpen, third workers   *)
(* judge.  A pin is taken once, in the order of sending; it is lost only   *)
(* with the worker that holds it, or with its line.                        *)
(***************************************************************************)
EXTENDS Naturals, Sequences

CONSTANTS FirstWorkers, SecondWorkers, ThirdWorkers, Pins, NoPin, Size

VARIABLES line, hand

lineVars == <<line, hand>>

Ties == {"1-2", "2-3"}
Workers == FirstWorkers \union SecondWorkers \union ThirdWorkers
Senders(t) == IF t = "1-2" THEN FirstWorkers ELSE SecondWorkers
Takers(t) == IF t = "1-2" THEN SecondWorkers ELSE ThirdWorkers

Init == line = [t \in Ties |-> <<>>] /\ hand = [w \in Workers |-> NoPin]

Unused(p) ==
    /\ \A w \in Workers : hand[w] # p
    /\ \A t \in Ties : \A i \in 1 .. Len(line[t]) : line[t][i] # p

Make(w, p) ==
    /\ w \in FirstWorkers /\ hand[w] = NoPin /\ Unused(p)
    /\ hand' = [hand EXCEPT ![w] = p] /\ UNCHANGED line

Send(w, t) ==
    /\ w \in Senders(t) /\ hand[w] # NoPin /\ Len(line[t]) < Size
    /\ line' = [line EXCEPT ![t] = Append(@, hand[w])]
    /\ hand' = [hand EXCEPT ![w] = NoPin]

Take(w, t) ==
    /\ w \in Takers(t) /\ hand[w] = NoPin /\ line[t] # <<>>
    /\ hand' = [hand EXCEPT ![w] = Head(line[t])]
    /\ line' = [line EXCEPT ![t] = Tail(@)]

\* A pin is judged or found crooked, or its worker ends.
Drop(W) ==
    /\ hand' = [w \in Workers |-> IF w \in W THEN NoPin ELSE hand[w]]
    /\ UNCHANGED line

\* The lines of T are removed or made again.
Renew(T) ==
    /\ line' = [t \in Ties |-> IF t \in T THEN <<>> ELSE line[t]]
    /\ UNCHANGED hand

Next ==
    \/ \E w \in Workers :
          (\E p \in Pins : Make(w, p)) \/ \E t \in Ties : Send(w, t) \/ Take(w, t)
    \/ \E W \in SUBSET Workers : Drop(W)
    \/ \E T \in SUBSET Ties : Renew(T)

Spec == Init /\ [][Next]_lineVars
=============================================================================
