--------------------------- MODULE PlanningWindows ---------------------------
(***************************************************************************)
(* PlanInputBudget.windows: the units of a document are cut into windows   *)
(* whose planning request fits the token budget.  Slices of WindowSize     *)
(* units are halved until they fit, a single table is halved by rows, and  *)
(* what can not be halved is handed on although it does not fit.           *)
(*                                                                         *)
(* Evidence (a row of a table, or a unit that is no table with rows) is    *)
(* numbered through the document; unit u ends with evidence UnitLast[u].   *)
(* The recursion of split_window and split_rows is the stack of jobs it    *)
(* has left to do.  Each job is counted once, and a counter is free to     *)
(* answer anything, so the count is a choice between fitting and not.      *)
(***************************************************************************)
EXTENDS Integers, Sequences

CONSTANTS
    Units,         \* how many units the document has
    UnitLast,      \* the last evidence of each unit
    WindowSize     \* window_size

ASSUME DocumentAssumption ==
    /\ Units \in Nat
    /\ UnitLast \in [1..Units -> Nat \ {0}]
    /\ \A u, v \in 1..Units : u < v => UnitLast[u] < UnitLast[v]
ASSUME WindowAssumption == WindowSize \in Nat \ {0}

UnitFirst(u) == IF u = 1 THEN 1 ELSE UnitLast[u - 1] + 1
Length == IF Units = 0 THEN 0 ELSE UnitLast[Units]

VARIABLES
    phase,         \* "splitting", "returned", or "failed"
    start,         \* the first unit of the next slice
    stack,         \* the calls of split_window and split_rows under way
    result         \* the windows handed on

vars == <<phase, start, stack, result>>

-----------------------------------------------------------------------------
(* A job is a range of units, or a range of rows (as evidence). *)

Window(a, b) == [rows |-> FALSE, from |-> a, to |-> b]
RowView(a, b) == [rows |-> TRUE, from |-> a, to |-> b]

First(j) == IF j.rows THEN j.from ELSE UnitFirst(j.from)
LastOf(j) == IF j.rows THEN j.to ELSE UnitLast[j.to]

\* A single row, or a single unit without rows to halve.
Indivisible(j) ==
    j.from = j.to /\ (IF j.rows THEN TRUE ELSE UnitFirst(j.from) = UnitLast[j.from])

Emitted(j, fits) == [first |-> First(j), last |-> LastOf(j), fits |-> fits,
                     units |-> IF j.rows THEN 1 ELSE j.to - j.from + 1]

Init ==
    /\ phase = "splitting"
    /\ start = 1
    /\ stack = <<>>
    /\ result = <<>>

\* Bug variant: a slice also holds the unit behind it.
NextSliceWide ==
    /\ phase = "splitting" /\ stack = <<>> /\ start <= Units
    /\ LET end == IF start + WindowSize <= Units THEN start + WindowSize ELSE Units
       IN  /\ stack' = <<Window(start, end)>>
           /\ start' = end + 1
    /\ UNCHANGED <<phase, result>>

NextSlice ==
    /\ phase = "splitting" /\ stack = <<>> /\ start <= Units
    /\ LET end == IF start + WindowSize - 1 <= Units THEN start + WindowSize - 1 ELSE Units
       IN  stack' = <<Window(start, end)>>
    /\ start' = start + WindowSize
    /\ UNCHANGED <<phase, result>>

\* The request fits, or there is nothing left to halve.
Emit(fits) ==
    /\ phase = "splitting" /\ stack # <<>>
    /\ fits \/ Indivisible(Head(stack))
    /\ result' = Append(result, Emitted(Head(stack), fits))
    /\ stack' = Tail(stack)
    /\ UNCHANGED <<phase, start>>

\* Bug variant: rows are halved beside the middle row.
HalvesRowLost(j) ==
    LET middle == j.from + (j.to - j.from + 1) \div 2
        a == UnitFirst(j.from)
        b == UnitLast[j.from]
        middleRow == a + (b - a + 1) \div 2
    IN  IF j.rows THEN <<RowView(j.from, middle - 1), RowView(middle, j.to)>>
        ELSE IF j.from < j.to THEN <<Window(j.from, middle - 1), Window(middle, j.to)>>
        ELSE <<RowView(a, middleRow - 1), RowView(middleRow + 1, b)>>

\* A job in two: units by their number, rows by theirs.
Halves(j) ==
    LET middle == j.from + (j.to - j.from + 1) \div 2
        a == UnitFirst(j.from)
        b == UnitLast[j.from]
        middleRow == a + (b - a + 1) \div 2
    IN  IF j.rows THEN <<RowView(j.from, middle - 1), RowView(middle, j.to)>>
        ELSE IF j.from < j.to THEN <<Window(j.from, middle - 1), Window(middle, j.to)>>
        ELSE <<RowView(a, middleRow - 1), RowView(middleRow, b)>>

Halve ==
    /\ phase = "splitting" /\ stack # <<>>
    /\ ~Indivisible(Head(stack))
    /\ stack' = Halves(Head(stack)) \o Tail(stack)
    /\ UNCHANGED <<phase, start, result>>

\* The caller's counter returned no count: windows raises, and chunk() too.
CountFails ==
    /\ phase = "splitting" /\ stack # <<>>
    /\ phase' = "failed"
    /\ UNCHANGED <<start, stack, result>>

\* Bug variant: the slices have to end with the last unit.
ReturnAtExactEnd ==
    /\ phase = "splitting" /\ stack = <<>> /\ start = Units + 1
    /\ phase' = "returned"
    /\ UNCHANGED <<start, stack, result>>

Return ==
    /\ phase = "splitting" /\ stack = <<>> /\ start > Units
    /\ phase' = "returned"
    /\ UNCHANGED <<start, stack, result>>

Next ==
    \/ NextSlice
    \/ \E fits \in BOOLEAN : Emit(fits)
    \/ Halve
    \/ CountFails
    \/ Return

Spec == Init /\ [][Next]_vars

\* The recursion is a loop of one thread: it goes on while it can.
FairSpec == Spec /\ WF_vars(Next)

-----------------------------------------------------------------------------
(* Properties *)

JobType == [rows : BOOLEAN, from : Nat, to : Nat]
JobOK(j) ==
    /\ j \in JobType
    /\ IF j.rows THEN 1 <= j.from /\ j.from <= j.to /\ j.to <= Length
       ELSE 1 <= j.from /\ j.from <= j.to /\ j.to <= Units

\* No job is empty or beyond the document.
TypeOK ==
    /\ phase \in {"splitting", "returned", "failed"}
    /\ start \in Nat \ {0}
    /\ stack \in Seq(JobType)
    /\ \A i \in 1..Len(stack) : JobOK(stack[i])
    /\ result \in Seq([first : Nat, last : Nat, fits : BOOLEAN, units : Nat])

\* Units u to v stand in one slice of the document.
OneSlice(u, v) == \E k \in 0..Units : k * WindowSize < u /\ v <= k * WindowSize + WindowSize

\* Evidence "first" to "last", of n units, is a run of whole units, or rows of
\* one unit.
CutRight(first, last, n) ==
    \E u, v \in 1..Units :
        /\ u <= v /\ v - u + 1 = n /\ OneSlice(u, v)
        /\ UnitFirst(u) <= first /\ first <= last /\ last <= UnitLast[v]
        /\ u < v => first = UnitFirst(u) /\ last = UnitLast[v]

\* However often slices, units and rows were halved, a window is about units of
\* one slice, no more than window_size, and rows that were cut out of a table
\* never share a window with another unit (windows, split_window, split_rows).
WindowsWellCut ==
    \A i \in 1..Len(result) : CutRight(result[i].first, result[i].last, result[i].units)

\* The evidence handed on, as a prefix of the document.
Adjoin == \A i \in 1..Len(result) - 1 : result[i + 1].first = result[i].last + 1
Frontier ==
    IF result = <<>> THEN 0
    ELSE IF result[1].first = 1 /\ Adjoin THEN result[Len(result)].last
    ELSE 0 - 1
Flow == INSTANCE EvidenceFlow WITH frontier <- Frontier, closed <- (phase = "returned")

\* The windows hold the evidence of the document once and in order.
HandsOnInOrder == Flow!Spec

\* windows() returns, or a counter raised.
Returns == <>(phase # "splitting")

=============================================================================
