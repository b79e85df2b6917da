---------------------------- MODULE MCPinWorkers ----------------------------
\* The pin factories of os_ihw2, one behaviour for each: running is the program
\* that runs, the variables of the others stay as they are.
EXTENDS PinWorkers

VARIABLE running

all == <<running, vars, resources>>

MCInit ==
    /\ Init /\ Res!Init
    /\ running \in {mark, program}
    /\ (running # mark => mark = "4-5") /\ (running # program => program = "8")

MCNext ==
    /\ UNCHANGED running
    /\ \/ running = mark /\ Next /\ UNCHANGED resources
       \/ running = program /\ Res!Next /\ UNCHANGED vars

\* The fairness of PinBuffer, for the behaviours in which it runs.
MCSpec ==
    /\ MCInit /\ [][MCNext]_all
    /\ WF_all(running = mark /\ Forking /\ UNCHANGED <<running, resources>>)
    /\ \A w \in Workers :
          WF_all(running = mark /\ Worker(w) /\ UNCHANGED <<running, resources>>)

\* Only one worker can be killed, one of mark-6-7.
MCKillable == {"6-7"} \X {CHOOSE w \in SecondWorkers : TRUE}

\* PinBuffer: a pin in a ring is taken.  WorkerResources: pins on the way are lost with the
\* last user of their tie only, only the last user removes, and what goes wrong has a cause.
PinsReachUsers ==
    PinsAreTaken /\ Res!PinsWaitForUsers /\ Res!LastRemoves /\ Res!SpoiltByOverlap
=============================================================================
