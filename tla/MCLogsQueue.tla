---------------------------- MODULE MCLogsQueue -----------------------------
(* LogsQueue on small instances: the three producer threads of the server, *)
(* a ring with fewer slots than producers, and two distinct messages.      *)
EXTENDS LogsQueue
=============================================================================
