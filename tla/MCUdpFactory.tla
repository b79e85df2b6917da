---------------------------- MODULE MCUdpFactory -----------------------------
\* The UDP factory with a few casts of clients for each mark.
EXTENDS UdpFactory

CONSTANTS f, s1, s2, t, l, m1

Cast == {c \in Clients : pc[c] # "absent"}

\* Who takes part in which mark, whether calls fail and whether Ctrl-C may be pressed:
\* pins are doubled by two workers of a stage; a collector misses the end of mark 8; the
\* logs of pins fill the queue; a command is for others or for the manager itself.
MCInit ==
    /\ Init
    /\ \/ mark = "4" /\ Cast = {f, s1, t} /\ allowed = 0
       \/ mark = "4" /\ Cast = {f, s1, s2, t} /\ allowed = 0 /\ ctrlC = "never"
       \/ mark = "8" /\ Cast = {s1, l}
       \/ mark = "10" /\ Cast = {f, s1} /\ ctrlC = "never"
       \/ mark = "10" /\ Cast = {s1, m1} /\ ctrlC = "never" /\ allowed = 0

MCSpec == MCInit /\ [][Next]_vars /\ Fairness

\* Who is there when its shutdown is sent heeds it; after Ctrl-C the server ends.
ProgramsEnd == ShutdownIsHeeded /\ ServerEnds
=============================================================================
