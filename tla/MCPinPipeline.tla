--------------------------- MODULE MCPinPipeline ----------------------------
(***************************************************************************)
(* Values for TLC.  Stage 1 has more workers than slots, so that slots are *)
(* fought for and used again; stage 2 has two slots.  The pins are alike.  *)
(***************************************************************************)
EXTENDS PinPipeline, TLC

CONSTANTS a1, a2, b1, b2, c1

MCWorkers == <<{a1, a2}, {b1, b2}, {c1}>>
MCMaxWorkers == <<1, 2, 1>>
MCPinsAlike == Permutations(Pins)

\* For the temporal properties: one worker a stage.
MCOneWorkerEach == <<{a1}, {b1}, {c1}>>
MCOneSlotEach == <<1, 1, 1>>
=============================================================================
