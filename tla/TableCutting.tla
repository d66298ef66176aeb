---------------------------- MODULE TableCutting ----------------------------
(***************************************************************************)
(* What is done with the rows of tables: cells that span rows are found    *)
(* (RowSweep), rows keep showing their cells through repeated cutting      *)
(* (TableRows), a row that is over the maximum is cut into fragments       *)
(* (RowFragments), and a chunk is cut at its tables (TableSplits). A       *)
(* behaviour is one of these; the others stay where they begin.            *)
(***************************************************************************)
EXTENDS RowFragments

CONSTANTS
    SpanLists, IndexLists,        \* as in RowSweep
    Tables,                       \* as in TableRows
    Chunks, Target, Maximum       \* as in TableSplits

VARIABLES
    part,                                          \* which of the four
    spans, indexes, at, waiting, active, context,  \* RowSweep
    table, viewed, stage, pieces, piece,           \* TableRows
    chunk, place, pending, out, didSplit           \* TableSplits

Sweeping == INSTANCE RowSweep
Rows == INSTANCE TableRows WITH at <- piece
Splits == INSTANCE TableSplits WITH at <- place

ASSUME SweepingAssumption == Sweeping!SpanListsAssumption /\ Sweeping!IndexListsAssumption
ASSUME CuttingAssumption == RowsAssumption
ASSUME SplittingAssumption == Splits!BudgetAssumption /\ Splits!ChunksAssumption

sweepVars == <<spans, indexes, at, waiting, active, context>>
rowsVars == <<table, viewed, stage, pieces, piece>>
splitVars == <<chunk, place, pending, out, didSplit>>
allVars == <<part, vars, sweepVars, rowsVars, splitVars>>

\* Only one of the four begins with a choice.
TablesInit ==
    /\ part \in {"sweep", "rows", "fragments", "splits"}
    /\ IF part = "sweep" THEN TRUE
       ELSE spans = (CHOOSE s \in SpanLists : TRUE) /\ indexes = (CHOOSE s \in IndexLists : TRUE)
    /\ IF part = "rows" THEN TRUE
       ELSE table = (CHOOSE t \in Tables : TRUE) /\ viewed = FALSE
    /\ IF part = "fragments" THEN TRUE
       ELSE cells = (CHOOSE c \in RowSet : TRUE) /\ repeated = {}
    /\ IF part = "splits" THEN TRUE
       ELSE chunk = (CHOOSE c \in Chunks : TRUE)
    /\ Sweeping!Init /\ Rows!Init /\ Init /\ Splits!Init

SweepStep == part = "sweep" /\ Sweeping!Next /\ UNCHANGED <<part, vars, rowsVars, splitVars>>
RowsStep == part = "rows" /\ Rows!Next /\ UNCHANGED <<part, vars, sweepVars, splitVars>>
CutStep == part = "fragments" /\ Next /\ UNCHANGED <<part, sweepVars, rowsVars, splitVars>>
SplitStep == part = "splits" /\ Splits!Next /\ UNCHANGED <<part, vars, sweepVars, rowsVars>>

TablesNext == SweepStep \/ RowsStep \/ CutStep \/ SplitStep

\* The cutting of a row is one thread that calls nothing that waits.
TablesSpec == TablesInit /\ [][TablesNext]_allVars
TablesFairSpec == TablesSpec /\ WF_allVars(CutStep)

\* The sweep finds for each row exactly the cells that span down to it.
ContextRight == Sweeping!ContextRight

\* However often a table is cut, a row shows the cells that it shows in the
\* table (TableRowIndex.subset).
RowsShowTheirCells == Rows!RowsShowTheirCells

\* What a cut makes of the cells that span it is well formed: they end with
\* their piece, take no place of an own cell, and say where they come from
\* when the table was planned in views (_row_with_carried_cells).
CutsWellFormed ==
    Rows!TypeOK /\ Rows!SpansWithinRun /\ Rows!OwnCellsFirst /\ Rows!ViewsTellOrigin

\* A chunk over the target keeps its evidence, and its groups of rows where they
\* fit, when it is cut at its tables (TableSplits!SplitsRight).
SplitsRight == Splits!SplitsRight

\* The cutting of a row ends, whatever the tokenizer counts.
CuttingEnds == part = "fragments" => Ends

=============================================================================
