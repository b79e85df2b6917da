---------------------------- MODULE TextReversal ----------------------------
(***************************************************************************)
(* The text reversal of os_ihw1, marks 4 to 8: a file is read, part of its *)
(* text reversed, the result written, by up to three processes that talk   *)
(* over two pipes.  Marks 4 and 6 use pipes made by main, which every      *)
(* child inherits; marks 5, 7 and 8 use FIFOs.  In mark 8 two programs are *)
(* started by hand.                                                        *)
(*                                                                         *)
(* Each function of the source is a sequence of operations, one system     *)
(* call or check each; a step of a process is the next of them.  Who still *)
(* holds which end of a pipe decides whether a read waits, ends, or kills. *)
(***************************************************************************)
EXTENDS Naturals, Sequences

CONSTANT Marks      \* of {"4", "5", "6", "7", "8"}

Inputs == {"missing", "empty", "short", "text"}    \* short: end_n2 is beyond its end
Pipes == {"rp", "pw"}       \* reader to processor, processor to writer
Ends == Pipes \X {"r", "w"}
Processes == {"main", "R", "P", "W"}
Other(e) == <<e[1], IF e[2] = "r" THEN "w" ELSE "r">>

\* Operations.
Close(p, e) == <<"close", <<p, e>> >>
Open(p, e) == <<"open", <<p, e>> >>
Need(file) == <<"need", file>>
Do(what, p) == <<what, p>>
Fork(q) == <<"fork", q>>
Wait(q) == <<"wait", q>>

-----------------------------------------------------------------------------
(* mark4: create_file_reader_impl and its like, and run.                   *)

FileReader4 ==
    <<Close("rp", "r"), Need("in"), Do("load", "in"), Do("write", "rp"), Close("rp", "w")>>
DataProcessor4 ==
    <<Close("rp", "w"), Close("pw", "r"), Do("read", "rp"), Do("reverse", "text"),
      Do("write", "pw"), Close("rp", "r"), Close("pw", "w")>>
FileWriter4 ==
    <<Close("pw", "w"), Need("out"), Do("read", "pw"), Do("save", "out"), Close("pw", "r")>>
Run4 == <<Fork("R"), Fork("P"), Fork("W"), Wait("R"), Wait("P"), Wait("W")>>

\* mark5: each child opens its ends by name.
OpenReader5 == <<Open("rp", "w")>>
FileReader5 == <<Need("in"), Do("load", "in"), Do("write", "rp")>>
OpenProcessor5 == <<Open("rp", "r"), Open("pw", "w")>>
DataProcessor5 == <<Do("read", "rp"), Do("reverse", "text"), Do("write", "pw")>>
OpenWriter5 == <<Open("pw", "r")>>
FileWriter5 == <<Need("out"), Do("read", "pw"), Do("save", "out")>>
Run5 == <<Fork("R"), Fork("P"), Fork("W"), Wait("R"), Wait("P"), Wait("W")>>

\* mark6: the reader is the writer too.
FileReaderWriter6 ==
    <<Close("rp", "r"), Need("in"), Close("pw", "w"), Need("out"), Do("load", "in"),
      Do("write", "rp"), Close("rp", "w"), Do("read", "pw"), Do("save", "out"),
      Close("pw", "r")>>
DataProcessor6 ==
    <<Close("rp", "w"), Close("pw", "r"), Do("read", "rp"), Do("reverse", "text"),
      Do("write", "pw"), Close("rp", "r"), Close("pw", "w")>>
Run6 == <<Fork("R"), Fork("P"), Wait("R"), Wait("P")>>

\* mark7: as mark6, over FIFOs.
OpenReaderWriter7 == <<Open("rp", "w"), Open("pw", "r")>>
FileReaderWriter7 ==
    <<Need("in"), Need("out"), Do("load", "in"), Do("write", "rp"), Do("read", "pw"),
      Do("save", "out")>>
OpenProcessor7 == <<Open("rp", "r"), Open("pw", "w")>>
DataProcessor7 == <<Do("read", "rp"), Do("reverse", "text"), Do("write", "pw")>>
Run7 == <<Fork("R"), Fork("P"), Wait("R"), Wait("P")>>

\* mark8: io_handler and text_processor.
OpenIoHandler8 == <<Open("rp", "w"), Open("pw", "r")>>
IoHandler8 ==
    <<Need("in"), Need("out"), Do("load", "in"), Do("write", "rp"), Do("read", "pw"),
      Do("save", "out")>>
OpenTextProcessor8 == <<Open("rp", "r"), Open("pw", "w")>>
TextProcessor8 == <<Do("read", "rp"), Do("reverse", "text"), Do("write", "pw")>>

None == [q \in Processes |-> <<>>]
Program == [m \in {"4", "5", "6", "7", "8"} |->
    CASE m = "4" -> [None EXCEPT !["main"] = Run4, !["R"] = FileReader4,
                                 !["P"] = DataProcessor4, !["W"] = FileWriter4]
      [] m = "5" -> [None EXCEPT !["main"] = Run5, !["R"] = OpenReader5 \o FileReader5,
                                 !["P"] = OpenProcessor5 \o DataProcessor5,
                                 !["W"] = OpenWriter5 \o FileWriter5]
      [] m = "6" -> [None EXCEPT !["main"] = Run6, !["R"] = FileReaderWriter6,
                                 !["P"] = DataProcessor6]
      [] m = "7" -> [None EXCEPT !["main"] = Run7,
                                 !["R"] = OpenReaderWriter7 \o FileReaderWriter7,
                                 !["P"] = OpenProcessor7 \o DataProcessor7]
      [] OTHER -> [None EXCEPT !["R"] = OpenIoHandler8 \o IoHandler8,
                               !["P"] = OpenTextProcessor8 \o TextProcessor8]]

-----------------------------------------------------------------------------
VARIABLES
    mark, input, writable,  \* writable: the output file can be opened
    status,     \* "none" before the fork, "run", "ok", "failed" or "killed"
    at,         \* the operation of a process that comes next
    fds,        \* the ends of pipes it holds
    pipe,       \* what was written and not read
    buf,        \* read_buffer
    out         \* the output file

vars == <<mark, input, writable, status, at, fds, pipe, buf, out>>
data == <<pipe, buf, out>>
given == <<mark, input, writable>>

ByHand == IF mark = "8" THEN {"R", "P"} ELSE {"main"}

Init ==
    /\ mark \in Marks /\ input \in Inputs /\ writable \in BOOLEAN
    /\ status = [q \in Processes |-> IF q \in ByHand THEN "run" ELSE "none"]
    /\ at = [q \in Processes |-> 1]
    /\ fds = [q \in Processes |-> IF q = "main" /\ mark \in {"4", "6"} THEN Ends ELSE {}]
    /\ pipe = [p \in Pipes |-> <<>>] /\ buf = [q \in Processes |-> "empty"] /\ out = "none"

Runs(q) == status[q] = "run"
Op(q) == IF at[q] <= Len(Program[mark][q]) THEN Program[mark][q][at[q]] ELSE <<"end", "end">>
Next1(q) == at' = [at EXCEPT ![q] = @ + 1]
Is(q, what) == Runs(q) /\ Op(q)[1] = what
Arg(q) == Op(q)[2]
Held(e) == \E q \in Processes : e \in fds[q]

Exit(q, s) ==
    /\ status' = [status EXCEPT ![q] = s] /\ fds' = [fds EXCEPT ![q] = {}]
    /\ UNCHANGED <<given, at, data>>

\* return false, the cleanup after it and exit(EXIT_FAILURE) are one step, as all
\* descriptors go at once.
End(q) == Is(q, "end") /\ Exit(q, "ok")

\* Mutant: a child keeps the end that it should close first.
CloseEndLater(q) ==
    /\ Is(q, "close") /\ Next1(q)
    /\ fds' = [fds EXCEPT ![q] = IF at[q] = 1 THEN @ ELSE @ \ {Arg(q)}]
    /\ UNCHANGED <<given, status, data>>

CloseEnd(q) ==
    /\ Is(q, "close") /\ fds' = [fds EXCEPT ![q] = @ \ {Arg(q)}] /\ Next1(q)
    /\ UNCHANGED <<given, status, data>>

\* Mutant: the FIFOs are opened without waiting for the other end.
OpenFifoAlone(q) ==
    /\ Is(q, "open") /\ fds' = [fds EXCEPT ![q] = @ \union {Arg(q)}] /\ Next1(q)
    /\ UNCHANGED <<given, status, data>>

\* A FIFO opens when its other end is open, or being opened: then both open.
OpenFifo(q) ==
    /\ Is(q, "open")
    /\ LET waiting == {v \in Processes : Is(v, "open") /\ Arg(v) = Other(Arg(q))}
           both == waiting \union {q}
       IN /\ waiting # {} \/ Held(Other(Arg(q)))
          /\ fds' = [v \in Processes |-> IF v \in both THEN fds[v] \union {Arg(v)} ELSE fds[v]]
          /\ at' = [v \in Processes |-> IF v \in both THEN at[v] + 1 ELSE at[v]]
    /\ UNCHANGED <<given, status, data>>

CheckFile(q) ==
    /\ Is(q, "need")
    /\ IF (Arg(q) = "in" /\ input = "missing") \/ (Arg(q) = "out" /\ ~writable)
       THEN Exit(q, "failed")
       ELSE Next1(q) /\ UNCHANGED <<given, status, fds, data>>

Load(q) ==
    /\ Is(q, "load") /\ buf' = [buf EXCEPT ![q] = input] /\ Next1(q)
    /\ UNCHANGED <<given, status, fds, pipe, out>>

\* Nothing is written for an empty text.
WritePipe(q) ==
    /\ Is(q, "write")
    /\ \/ buf[q] = "empty" /\ Next1(q) /\ UNCHANGED <<given, status, fds, data>>
       \/ buf[q] # "empty" /\ ~Held(<<Arg(q), "r">>) /\ Exit(q, "killed")
       \/ /\ buf[q] # "empty" /\ Held(<<Arg(q), "r">>)
          /\ pipe' = [pipe EXCEPT ![Arg(q)] = Append(@, buf[q])] /\ Next1(q)
          /\ UNCHANGED <<given, status, fds, buf, out>>

\* read returns 0 when nobody holds the writing end any more, and waits before that.
ReadPipe(q) ==
    /\ Is(q, "read")
    /\ \/ /\ pipe[Arg(q)] # <<>>
          /\ buf' = [buf EXCEPT ![q] = Head(pipe[Arg(q)])]
          /\ pipe' = [pipe EXCEPT ![Arg(q)] = Tail(@)]
       \/ /\ pipe[Arg(q)] = <<>> /\ ~Held(<<Arg(q), "w">>)
          /\ buf' = [buf EXCEPT ![q] = "empty"] /\ UNCHANGED pipe
    /\ Next1(q) /\ UNCHANGED <<given, status, fds, out>>

Reverse(q) ==
    /\ Is(q, "reverse")
    /\ IF buf[q] # "text" THEN Exit(q, "failed")
       ELSE /\ buf' = [buf EXCEPT ![q] = "reversed"] /\ Next1(q)
            /\ UNCHANGED <<given, status, fds, pipe, out>>

Save(q) ==
    /\ Is(q, "save") /\ out' = buf[q] /\ Next1(q)
    /\ UNCHANGED <<given, status, fds, pipe, buf>>

ForkChild(q) ==
    /\ Is(q, "fork")
    /\ status' = [status EXCEPT ![Arg(q)] = "run"]
    /\ fds' = [fds EXCEPT ![Arg(q)] = fds[q]] /\ Next1(q) /\ UNCHANGED <<given, data>>

\* Mutant: the status of a child is not looked at.
WaitAnyChild(q) ==
    /\ Is(q, "wait") /\ ~Runs(Arg(q)) /\ Next1(q)
    /\ UNCHANGED <<given, status, fds, data>>

\* A child that failed ends the run; the others are not waited for.
WaitChild(q) ==
    /\ Is(q, "wait") /\ ~Runs(Arg(q))
    /\ IF status[Arg(q)] = "ok" THEN Next1(q) /\ UNCHANGED <<given, status, fds, data>>
       ELSE Exit(q, "failed")

Step(q) ==
    \/ CloseEnd(q) \/ OpenFifo(q) \/ CheckFile(q) \/ Load(q) \/ WritePipe(q) \/ ReadPipe(q)
    \/ Reverse(q) \/ Save(q) \/ ForkChild(q) \/ WaitChild(q) \/ End(q)

Next == \E q \in Processes : Step(q)

\* The kernel runs every process that can go on.
Fairness == \A q \in Processes : WF_vars(Step(q))

Spec == Init /\ [][Next]_vars /\ Fairness

-----------------------------------------------------------------------------
(* Properties.                                                             *)

TypeOK ==
    /\ mark \in Marks /\ input \in Inputs /\ writable \in BOOLEAN
    /\ status \in [Processes -> {"none", "run", "ok", "failed", "killed"}]
    /\ \A q \in Processes : at[q] \in 1 .. Len(Program[mark][q]) + 1
    /\ fds \in [Processes -> SUBSET Ends]
    /\ \A p \in Pipes : Len(pipe[p]) <= 1
    /\ buf \in [Processes -> {"empty", "short", "text", "reversed"}]
    /\ out \in {"none", "empty", "reversed"}

Success == \A q \in ByHand : status[q] = "ok"
Good == input = "text" /\ writable

\* EXIT_SUCCESS is an answer: main (or both programs of mark8) ends well only when the
\* reversed text is in the output file.
SuccessMeansReversed == Success => out = "reversed"

\* With a readable, long enough text and a file to write to, all marks succeed.
GoodInputSucceeds == Good ~> Success

\* Where a process waits for ever: for the end of a pipe whose writing end is held by
\* main, by a brother that was forked with it (mark4's writer), or by the process that
\* waits for the answer itself (7 and 8).
Hangs ==
    \/ mark = "4" /\ (input = "empty" \/ (input = "missing" /\ writable))
    \/ mark = "6" /\ input \in {"empty", "short"} /\ writable
    \/ mark \in {"7", "8"} /\ input = "empty" /\ writable

\* In all other cases no process is left behind, whatever fails: each read ends because
\* the ends of the pipe have been closed by all who held them.
NobodyIsLeft == (~Hangs) ~> (\A q \in Processes : ~Runs(q))

\* A process is killed by SIGPIPE only for want of an output file.
NoBrokenPipe == (\E q \in Processes : status[q] = "killed") => ~writable
=============================================================================
