---------------------------- MODULE Calculations -----------------------------
(***************************************************************************)
(* os_hw3: one child process calculates a factorial, one a Fibonacci       *)
(* number, both in 64 bits; when both have ended a third lists a           *)
(* directory.  A number is the sequence of its bytes, the lowest first.    *)
(***************************************************************************)
EXTENDS Integers, Sequences, FiniteSetsExt

CONSTANTS
    Inputs      \* the arguments: the same for both calculations

Width == 8

VARIABLES
    input,
    pc,                         \* of the parent
    fib, fact,                  \* the children: "off", "runs" or "done"
    n, fibmatrix, pow_matrix,   \* calculate_fibonacci_num
    fib_num, fib_overflow,
    i, ans, fact_overflow       \* calculate_factorial

vars == <<input, pc, fib, fact, n, fibmatrix, pow_matrix, fib_num, fib_overflow, i, ans,
          fact_overflow>>

-----------------------------------------------------------------------------
(* Arithmetic of uint64_t.                                                 *)

Number(small) == [k \in 1 .. Width |-> IF k = 1 THEN small ELSE 0]

\* The carries of columns that were added up, and what is left of these.
Carries(columns) ==
    LET carry[k \in 0 .. Width] == IF k = 0 THEN 0 ELSE (columns[k] + carry[k - 1]) \div 256
    IN  carry
Carried(columns) ==
    LET carry == Carries(columns) IN [k \in 1 .. Width |-> (columns[k] + carry[k - 1]) % 256]

Sums(a, b) == [k \in 1 .. Width |-> a[k] + b[k]]
Products(a, b) ==
    [k \in 1 .. Width |-> MapThenSumSet(LAMBDA j : a[j] * b[k + 1 - j], 1 .. k)]

Plus(a, b) == Carried(Sums(a, b))
Times(a, b) == Carried(Products(a, b))

\* A number times a factor below 256 does not fit.
Overflows(a, factor) == Carries([k \in 1 .. Width |-> a[k] * factor])[Width] > 0

Matrix(a, b, c, d) == <<<<Number(a), Number(b)>>, <<Number(c), Number(d)>>>>
MatrixTimes(p, q) ==
    [r \in 1 .. 2 |-> [c \in 1 .. 2 |-> Plus(Times(p[r][1], q[1][c]), Times(p[r][2], q[2][c]))]]

-----------------------------------------------------------------------------

Init ==
    /\ input \in Inputs /\ pc = "fork factorial" /\ fib = "off" /\ fact = "off"
    /\ n = input /\ fibmatrix = Matrix(1, 0, 0, 1) /\ pow_matrix = Matrix(0, 1, 1, 1)
    /\ fib_num = Number(0) /\ fib_overflow = FALSE
    /\ i = 2 /\ ans = Number(1) /\ fact_overflow = FALSE

fibonacci == <<n, fibmatrix, pow_matrix, fib_num, fib_overflow>>
factorial == <<i, ans, fact_overflow>>

\* fork may fail: then the parent exits, and does not wait for the child it has.
CreateFactorialProcess ==
    /\ pc = "fork factorial"
    /\ \/ pc' = "fork Fibonacci" /\ fact' = "runs"
       \/ pc' = "failed" /\ UNCHANGED fact
    /\ UNCHANGED <<input, fib, fibonacci, factorial>>

CreateFibonacciProcess ==
    /\ pc = "fork Fibonacci"
    /\ \/ pc' = "wait Fibonacci" /\ fib' = "runs"
       \/ pc' = "failed" /\ UNCHANGED fib
    /\ UNCHANGED <<input, fact, fibonacci, factorial>>

\* waitpid, and then the process that lists the directory.
Wait ==
    /\ \/ pc = "wait Fibonacci" /\ fib = "done" /\ pc' = "wait factorial"
       \/ pc = "wait factorial" /\ fact = "done" /\ pc' = "list"
       \/ pc = "list" /\ pc' \in {"ok", "failed"}
    /\ UNCHANGED <<input, fib, fact, fibonacci, factorial>>

\* Mutant: the matrix is squared before it is used.
SquareFirst ==
    /\ fib = "runs"
    /\ n' = n \div 2 /\ fib_overflow' = (input >= 93)
    /\ pow_matrix' = IF n' = 0 THEN pow_matrix ELSE MatrixTimes(pow_matrix, pow_matrix)
    /\ fibmatrix' = IF n % 2 # 0 THEN MatrixTimes(fibmatrix, pow_matrix') ELSE fibmatrix
    /\ IF n' = 0 THEN fib' = "done" /\ fib_num' = Plus(fibmatrix'[1][1], fibmatrix'[2][1])
       ELSE UNCHANGED <<fib, fib_num>>
    /\ UNCHANGED <<input, pc, fact, factorial>>

\* calculate_fibonacci_num: one turn of the loop, and the result after the last.
FibonacciTurn ==
    /\ fib = "runs"
    /\ fibmatrix' = IF n % 2 # 0 THEN MatrixTimes(fibmatrix, pow_matrix) ELSE fibmatrix
    /\ n' = n \div 2 /\ fib_overflow' = (input >= 93)
    /\ IF n' = 0
       THEN /\ fib' = "done" /\ fib_num' = Plus(fibmatrix'[1][1], fibmatrix'[2][1])
            /\ UNCHANGED pow_matrix
       ELSE /\ pow_matrix' = MatrixTimes(pow_matrix, pow_matrix) /\ UNCHANGED <<fib, fib_num>>
    /\ UNCHANGED <<input, pc, fact, factorial>>

\* Mutant: only the last product counts.
OnlyLastOverflow(before, now) == now

\* overflow_occured |= ...
Overflowed(before, now) == before \/ now

\* calculate_factorial: one turn of the loop.
FactorialTurn ==
    /\ fact = "runs"
    /\ IF i =< input
       THEN /\ i' = i + 1 /\ ans' = Times(ans, Number(i)) /\ UNCHANGED fact
            /\ fact_overflow' = Overflowed(fact_overflow, Overflows(ans, i))
       ELSE fact' = "done" /\ UNCHANGED factorial
    /\ UNCHANGED <<input, pc, fib, fibonacci>>

Next ==
    \/ CreateFactorialProcess \/ CreateFibonacciProcess \/ Wait
    \/ FibonacciTurn \/ FactorialTurn

Spec == Init /\ [][Next]_vars

-----------------------------------------------------------------------------
(* Properties.                                                             *)

\* The type of the state.
TypeOK ==
    /\ fib \in {"off", "runs", "done"} /\ fact \in {"off", "runs", "done"} /\ n \in 0 .. input
    /\ DOMAIN ans = 1 .. Width /\ i \in 2 .. (IF input < 2 THEN 2 ELSE input + 1)

\* The definitions: F_k, F_(k + 1) and whether F_k needs more than 64 bits; k! and whether it does.
FibonacciOf[k \in Nat] ==
    IF k = 0 THEN [this |-> Number(1), next |-> Number(1), over |-> FALSE, nextOver |-> FALSE]
    ELSE LET f == FibonacciOf[k - 1] IN
         [this |-> f.next, next |-> Plus(f.this, f.next), over |-> f.nextOver,
          nextOver |-> f.nextOver \/ Carries(Sums(f.this, f.next))[Width] > 0]

\* The logarithmic algorithm gives the Fibonacci number modulo 2^64, and n >= 93 are just
\* the numbers that do not fit (calculate_fibonacci_num).
FibonacciIsRight ==
    fib = "done" =>
        fib_num = FibonacciOf[input].this /\ fib_overflow = FibonacciOf[input].over

\* The factorial overflows from 21! on and stays known to, and from 66! on it is zero, as
\* the comment says (calculate_factorial).
FactorialIsRight ==
    fact = "done" =>
        /\ fact_overflow = (input > 20) /\ (ans = Number(0)) = (input >= 66)
        /\ input <= 5 => ans = Number(CASE input < 2 -> 1 [] input = 2 -> 2 [] input = 3 -> 6
                                        [] input = 4 -> 24 [] input = 5 -> 120)
=============================================================================
