----------------------------- MODULE TableRows -----------------------------
(***************************************************************************)
(* How a table is cut into runs of rows, and what becomes of cells that    *)
(* span rows on both sides of a cut: TableRowIndex of materialization.py,  *)
(* and the three stages of agentic.py that cut with it.                    *)
(*                                                                         *)
(* A piece is first cut by the plan (out of the table or, when the table   *)
(* was planned in views, out of the view and then anew out of the table),  *)
(* pieces that cut a row group may be joined again, and pieces that are    *)
(* too large are cut further. Where a stage cuts depends on token counts   *)
(* (TableSplits); here it may cut anywhere. A cell is known by the row and *)
(* column it was read from; its text is left out.                          *)
(***************************************************************************)
EXTENDS Integers, Sequences, FiniteSets, SequencesExt, FiniteSetsExt

CONSTANTS
    Tables      \* tables: sequences of rows [index, cells]

VARIABLES
    table,      \* the table of the document
    viewed,     \* it was over the planning budget and planned in views
    stage,      \* "plan", "join", "split" or "done"
    pieces,     \* the pieces, in order: their rows, cut or the whole table
    at          \* the piece that the stage has come to

vars == <<table, viewed, stage, pieces, at>>

Smaller(a, b) == IF a <= b THEN a ELSE b

Indexes(t) == {t[p].index : p \in DOMAIN t}
LastRow(row, cell) == row.index + cell.height - 1

-----------------------------------------------------------------------------
(* Subsets of the rows of a table.                                         *)

\* The run of consecutive indexes of S that i is in.
RunFirst(S, i) == CHOOSE j \in S : j <= i /\ j..i \subseteq S /\ j - 1 \notin S
RunLast(S, i) == CHOOSE j \in S : i <= j /\ i..j \subseteq S /\ j + 1 \notin S

\* Bug variant: a cell is dropped one row too late.
SpanningPastTheEnd(t, i) ==
    FlattenSeq([p \in DOMAIN t |->
        IF t[p].index < i
        THEN LET reaching == SelectSeq(t[p].cells, LAMBDA c : c.height > 1 /\ LastRow(t[p], c) >= i - 1)
             IN  [k \in DOMAIN reaching |-> [row |-> t[p].index, cell |-> reaching[k]]]
        ELSE <<>>])

\* The cells above row i that reach it, in the order of the table.
Spanning(t, i) ==
    FlattenSeq([p \in DOMAIN t |->
        IF t[p].index < i
        THEN LET reaching == SelectSeq(t[p].cells, LAMBDA c : LastRow(t[p], c) >= i)
             IN  [k \in DOMAIN reaching |-> [row |-> t[p].index, cell |-> reaching[k]]]
        ELSE <<>>])

\* A spanning cell as it is continued in a run of rows first..last.
Continued(span, first, last) ==
    [span.cell EXCEPT
        !.height = Smaller(LastRow([index |-> span.row], span.cell), last) - first + 1,
        !.context = <<span.row, span.cell.height>>]

Overlap(c, d) == c.column < d.column + d.width /\ d.column < c.column + c.width

\* Bug variant: without the look at the row's own cells.
WithAllCarried(cells, carried) ==
    SortSeq(cells \o carried, LAMBDA c, d : c.column < d.column)

\* A row with the continued cells that fit between its own, by column.
WithCarried(cells, carried) ==
    LET Fit(held, c) == IF \E k \in DOMAIN held : Overlap(c, held[k]) THEN held ELSE Append(held, c)
    IN  SortSeq(FoldLeft(Fit, cells, carried), LAMBDA c, d : c.column < d.column)

Clipped(row, last) ==
    [k \in DOMAIN row.cells |->
        [row.cells[k] EXCEPT !.height = Smaller(@, last - row.index + 1)]]

\* The rows of t with an index in S: cells end with their run, and the first
\* row of a run continues the cells that reach it.
Subset(t, S) ==
    LET Row(row) ==
            LET first == RunFirst(S, row.index)
                last == RunLast(S, row.index)
                spans == Spanning(t, first)
            IN  [row EXCEPT !.cells =
                    IF row.index # first THEN Clipped(row, last)
                    ELSE WithCarried(Clipped(row, last),
                                     [k \in DOMAIN spans |-> Continued(spans[k], first, last)])]
        selected == SelectSeq(t, LAMBDA row : row.index \in S)
    IN  [p \in DOMAIN selected |-> Row(selected[p])]

-----------------------------------------------------------------------------
(* The stages.                                                             *)

Piece(rows, cut) == [rows |-> rows, cut |-> cut]
RowsOf(piece) == Indexes(piece.rows)

\* The ways to divide indexes into blocks that follow one another.
Divisions(S) ==
    {{ {i \in S : c <= i /\ \A d \in cuts : d > c => i < d} : c \in cuts }
        : cuts \in {C \cup {Min(S)} : C \in SUBSET S}}
InOrder(blocks) == SetToSortSeq(blocks, LAMBDA A, B : Min(A) < Min(B))

Init ==
    /\ table \in Tables
    /\ viewed \in BOOLEAN
    /\ stage = "plan"
    /\ pieces = <<>>
    /\ at = 1

\* The plan includes the table whole, or rows of it. The views of a table
\* that is over the planning budget are included as cut rows always: whatever
\* is planned of a view is cut anew out of the table (_restore_planning_rows).
Plan ==
    /\ stage = "plan"
    /\ \/ /\ ~viewed
          /\ pieces' = << Piece(table, FALSE) >>
       \/ \E blocks \in Divisions(Indexes(table)) :
            LET S == InOrder(blocks)
            IN  pieces' = [k \in DOMAIN S |-> Piece(Subset(table, S[k]), TRUE)]
    /\ stage' = "join"
    /\ UNCHANGED <<table, viewed, at>>

\* Rows i and j are tied by cells that span from one to the next.
SameGroup(i, j) ==
    \A k \in {r \in Indexes(table) : i < r /\ r <= j} :
        \E p \in DOMAIN table : /\ table[p].index < k
                                /\ \E c \in DOMAIN table[p].cells :
                                        LastRow(table[p], table[p].cells[c]) >= k

\* _join_table_row_boundaries: the joined rows are cut out of the table.
Join ==
    /\ stage = "join"
    /\ at < Len(pieces)
    /\ SameGroup(Max(RowsOf(pieces[at])), Min(RowsOf(pieces[at + 1])))
    /\ LET joined == Subset(table, RowsOf(pieces[at]) \cup RowsOf(pieces[at + 1]))
       IN  pieces' = ReplaceAt(RemoveAt(pieces, at + 1), at, Piece(joined, TRUE))
    /\ UNCHANGED <<table, viewed, stage, at>>

\* Not one group, or the limits refuse it.
KeepApart ==
    /\ stage = "join"
    /\ IF at < Len(pieces) THEN at' = at + 1 /\ stage' = "join"
                           ELSE at' = 1 /\ stage' = "split"
    /\ UNCHANGED <<table, viewed, pieces>>

\* What _split_table_item_by_rows cuts a piece out of.
SplitSource(piece) == IF viewed THEN table ELSE piece.rows

\* _split_large_table_chunks
Split ==
    /\ stage = "split"
    /\ \E blocks \in Divisions(RowsOf(pieces[at])) :
          /\ Cardinality(blocks) > 1
          /\ LET S == InOrder(blocks)
                 cut == [k \in DOMAIN S |-> Piece(Subset(SplitSource(pieces[at]), S[k]), TRUE)]
             IN  /\ pieces' = SubSeq(pieces, 1, at - 1) \o cut
                              \o SubSeq(pieces, at + 1, Len(pieces))
                 /\ at' = at + Len(cut)
    /\ stage' = IF at = Len(pieces) THEN "done" ELSE "split"
    /\ UNCHANGED <<table, viewed>>

Keep ==
    /\ stage = "split"
    /\ at' = at + 1
    /\ stage' = IF at = Len(pieces) THEN "done" ELSE "split"
    /\ UNCHANGED <<table, viewed, pieces>>

Next == Plan \/ Join \/ KeepApart \/ Split \/ Keep

Spec == Init /\ [][Next]_vars

-----------------------------------------------------------------------------
(* Properties.                                                             *)

\* The type of the state; cut pieces are not empty and in order.
TypeOK ==
    /\ table \in Tables
    /\ viewed \in BOOLEAN
    /\ stage \in {"plan", "join", "split", "done"}
    /\ at \in 1..Len(pieces) + 1
    /\ \A k \in DOMAIN pieces :
          /\ RowsOf(pieces[k]) # {}
          /\ ~pieces[k].cut => pieces[k].rows = table
          /\ k > 1 => Max(RowsOf(pieces[k - 1])) < Min(RowsOf(pieces[k]))

\* The cells of t that can be seen in row i of it: own ones and those that
\* span down to it, by the row and column they were read from.
SeenIn(t, i) ==
    UNION {{t[p].cells[c].from : c \in {k \in DOMAIN t[p].cells :
                                t[p].index = i \/ LastRow(t[p], t[p].cells[k]) >= i}}
              : p \in {q \in DOMAIN t : t[q].index <= i}}

\* The tables whose cells lie side by side.
Orderly(t) ==
    \A p, q \in DOMAIN t : \A c \in DOMAIN t[p].cells, d \in DOMAIN t[q].cells :
        (t[p].index < t[q].index /\ LastRow(t[p], t[p].cells[c]) >= t[q].index)
            => ~Overlap(t[p].cells[c], t[q].cells[d])

\* However often a table is cut, and whatever it is cut out of, a row shows
\* the cells in its piece that it shows in the table (TableRowIndex.subset).
RowsShowTheirCells ==
    Orderly(table) =>
        \A k \in DOMAIN pieces : \A i \in RowsOf(pieces[k]) :
            SeenIn(pieces[k].rows, i) = SeenIn(table, i)

\* No cell of a cut piece spans rows that the piece does not have
\* (_row_with_clipped_rowspans, and the height of continued cells).
SpansWithinRun ==
    \A k \in DOMAIN pieces : pieces[k].cut =>
        \A p \in DOMAIN pieces[k].rows : \A c \in DOMAIN pieces[k].rows[p].cells :
            pieces[k].rows[p].index..LastRow(pieces[k].rows[p], pieces[k].rows[p].cells[c])
                \subseteq RowsOf(pieces[k])

\* A continued cell takes no place of a cell that the row has of its own
\* (_row_with_carried_cells), and no own cell is lost to one.
OwnCellsFirst ==
    \A k \in DOMAIN pieces : \A p \in DOMAIN pieces[k].rows :
        LET cells == pieces[k].rows[p].cells
            own(r) == {r.cells[c].from : c \in {d \in DOMAIN r.cells : r.cells[d].context = <<>>}}
        IN  /\ \A c, d \in DOMAIN cells :
                  (cells[c].context = <<>> /\ cells[d].context # <<>>) => ~Overlap(cells[c], cells[d])
            /\ \E q \in DOMAIN table : table[q].index = pieces[k].rows[p].index
                                       /\ own(table[q]) = own(pieces[k].rows[p])

\* A continued cell says where it comes from and how far it spans.
TellsOrigin(cell) ==
    cell.context # <<>> =>
        \E p \in DOMAIN table : \E c \in DOMAIN table[p].cells :
            /\ table[p].cells[c].from = cell.from
            /\ cell.context = << table[p].index, table[p].cells[c].height >>
CellsOf(piece) == UNION {ToSet(piece.rows[p].cells) : p \in DOMAIN piece.rows}

\* Of a table that was planned in views, it says so of the table, not of the
\* view ("Further splits must use the original origins and spans").
ViewsTellOrigin == viewed => \A k \in DOMAIN pieces : \A c \in CellsOf(pieces[k]) : TellsOrigin(c)

=============================================================================
