------------------------------ MODULE RowSweep ------------------------------
(***************************************************************************)
(* The sweep with which TableRowIndex (materialization.py) finds, for each *)
(* row of a table, the cells above that span down to it, in one pass over  *)
(* the rows and one over the spanning cells: cells wait, sorted by their   *)
(* row, are active from the row behind it, and are dropped behind the last *)
(* row they reach. TableRows takes the result for granted (Spanning).      *)
(***************************************************************************)
EXTENDS Integers, Sequences

CONSTANTS
    SpanLists,    \* spanning cells, as sequences of their [first, last] rows
    IndexLists    \* row indexes, as ascending sequences

SpanListsAssumption ==
    \A s \in SpanLists :
        /\ s \in Seq([first : Int, last : Int])
        /\ \A k \in DOMAIN s : s[k].first < s[k].last     \* rowspan > 1
IndexListsAssumption ==
    \A s \in IndexLists :
        /\ s \in Seq(Int)
        /\ \A p, q \in DOMAIN s : p < q => s[p] < s[q]

VARIABLES
    spans,      \* the spanning cells of the table, by ordinal
    indexes,    \* its row indexes
    at,         \* the row the sweep has come to
    waiting,    \* ordinals of cells whose row is not above it yet
    active,     \* ordinals of cells that span down to the row before
    context     \* what was found for the rows before

vars == <<spans, indexes, at, waiting, active, context>>

Init ==
    /\ spans \in SpanLists
    /\ indexes \in IndexLists
    /\ at = 1
    /\ waiting = DOMAIN spans
    /\ active = {}
    /\ context = <<>>

\* Bug variant: a cell does not reach its last row.
SweepDropsEarly ==
    /\ at <= Len(indexes)
    /\ LET begun == {k \in waiting : spans[k].first < indexes[at]}
           ended == {k \in active \cup begun : spans[k].last <= indexes[at]}
       IN  /\ waiting' = waiting \ begun
           /\ active' = (active \cup begun) \ ended
           /\ context' = Append(context, (active \cup begun) \ ended)
    /\ at' = at + 1
    /\ UNCHANGED <<spans, indexes>>

\* One row of the loop: the cells above it become active, those that end
\* above it are dropped, and the others are what spans down to it.
Sweep ==
    /\ at <= Len(indexes)
    /\ LET begun == {k \in waiting : spans[k].first < indexes[at]}
           ended == {k \in active \cup begun : spans[k].last < indexes[at]}
       IN  /\ waiting' = waiting \ begun
           /\ active' = (active \cup begun) \ ended
           /\ context' = Append(context, (active \cup begun) \ ended)
    /\ at' = at + 1
    /\ UNCHANGED <<spans, indexes>>

Next == Sweep

Spec == Init /\ [][Next]_vars

-----------------------------------------------------------------------------

\* The type of the state: what was found is kept row by row.
TypeOK ==
    /\ spans \in SpanLists
    /\ indexes \in IndexLists
    /\ at \in 1..Len(indexes) + 1
    /\ waiting \subseteq DOMAIN spans
    /\ active \subseteq DOMAIN spans
    /\ context \in Seq(SUBSET DOMAIN spans)
    /\ Len(context) = at - 1

\* The cells that span from above row i down to it.
SpanningTo(i) == {k \in DOMAIN spans : spans[k].first < i /\ i <= spans[k].last}

\* For every row, the sweep has found the cells that span down to it, whatever
\* rows the table has and however its cells overlap.
ContextRight == \A p \in DOMAIN context : context[p] = SpanningTo(indexes[p])

=============================================================================
