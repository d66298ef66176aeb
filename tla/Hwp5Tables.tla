----------------------------- MODULE Hwp5Tables -----------------------------
(***************************************************************************)
(* Hwp5TableBuilder and Hwp5TableSourceProjector: the cells an HWP5 table  *)
(* was read with become a grid without gaps, its first rows become headers,*)
(* and each data row's source text repeats the cells that span into it.    *)
(*                                                                         *)
(* A cell is [row, col, rowspan, colspan, blocks], rows and columns from 0;*)
(* its text is its "text" blocks, every other block is a child. The parser *)
(* gives every cell an address and spans of at least 1, so that the        *)
(* fallbacks for cells without one are left out. Labels of columns and the *)
(* wording of the source are not modelled.                                 *)
(***************************************************************************)
EXTENDS Integers, FiniteSets, Sequences, SequencesExt, FiniteSetsExt

CONSTANTS
    WideColumns,    \* a table with as many columns,
    WideCells       \* and as many cells, omits blank ones when half of them are

NoCount == -1       \* the table did not declare its number of rows or columns

Cell(r, c, rs, cs, bs) == [row |-> r, col |-> c, rowspan |-> rs, colspan |-> cs, blocks |-> bs]
Blank(r, c) == Cell(r, c, 1, 1, <<>>)

HasText(cell) == \E i \in DOMAIN cell.blocks : cell.blocks[i].kind = "text"
HasChildren(cell) == \E i \in DOMAIN cell.blocks : cell.blocks[i].kind # "text"
HasContent(cell) == HasText(cell) \/ HasChildren(cell)
RowIsBlank(row) == \A i \in DOMAIN row : ~HasContent(row[i])
TableHasContent(rows) == \E i \in DOMAIN rows : ~RowIsBlank(rows[i])

ColumnsOf(cell) == cell.col .. cell.col + cell.colspan - 1
RowsOf(cell) == cell.row .. cell.row + cell.rowspan - 1

-----------------------------------------------------------------------------
(* _normalize_rows *)

\* Bug variant: a span is cut one row too late.
FirstHitLate(cell, hits) == IF hits = {} THEN cell.rowspan ELSE Min(hits) - cell.row + 1
\* The rows left to a span when rows "hits" below it have cells of their own in
\* its columns.
FirstHit(cell, hits) == IF hits = {} THEN cell.rowspan ELSE Min(hits) - cell.row

Clipped(cells) ==
    [i \in DOMAIN cells |->
        LET hits == {r \in RowsOf(cells[i]) \ {cells[i].row} : \E j \in DOMAIN cells :
                        /\ cells[j].row = r /\ HasContent(cells[j])
                        /\ ColumnsOf(cells[j]) \cap ColumnsOf(cells[i]) # {}}
        IN [cells[i] EXCEPT !.rowspan = FirstHit(cells[i], hits)]]

ColumnCount(cells, declared) == Max({declared, 0} \cup {Max(ColumnsOf(cells[i])) + 1 : i \in DOMAIN cells})

RowIndexes(cells, declared) ==
    IF declared = NoCount THEN {cells[i].row : i \in DOMAIN cells}
    ELSE 0 .. Max({declared} \cup {Max(RowsOf(cells[i])) + 1 : i \in DOMAIN cells}) - 1

\* Row r: its own cells, and a blank one in every column no cell covers.
GridRow(cells, r, columns) ==
    LET own == SelectSeq(cells, LAMBDA c : c.row = r)
        covered == UNION {ColumnsOf(cells[i]) : i \in {i \in DOMAIN cells : r \in RowsOf(cells[i])}}
    IN FlattenSeq([c \in 1..columns |->
           SelectSeq(own, LAMBDA cell : cell.col = c - 1)
               \o IF c - 1 \in covered THEN <<>> ELSE <<Blank(r, c - 1)>>])

NormalizeRows(rows, rowCount, columnCount) ==
    LET cells == Clipped(FlattenSeq(rows))
        columns == ColumnCount(cells, columnCount)
        indexes == SetToSortSeq(RowIndexes(cells, rowCount), <)
    IN IF columns = 0 THEN <<>>
       ELSE SelectSeq([i \in DOMAIN indexes |-> GridRow(cells, indexes[i], columns)],
                      LAMBDA row : row # <<>>)

\* The text of a table that is one cell is a text, not a table.
IsSingleText(rows, rowCount, columnCount) ==
    LET grid == NormalizeRows(rows, rowCount, columnCount) IN
    /\ Len(grid) = 1 /\ Len(grid[1]) = 1
    /\ ~HasChildren(grid[1][1]) /\ HasText(grid[1][1])

-----------------------------------------------------------------------------
(* Headers *)

\* refines_header_groups: a lower header row divides the groups above it.
Refines(row, previous) ==
    LET groups == {previous[i] : i \in {i \in DOMAIN previous :
                                           previous[i].colspan > 1 /\ HasText(previous[i])}}
        texts == {row[i] : i \in {i \in DOMAIN row : HasText(row[i])}}
        Under(g) == {c \in texts : ColumnsOf(c) \subseteq ColumnsOf(g)}
    IN /\ \A i \in DOMAIN row : ~HasChildren(row[i])
       /\ groups # {} /\ \A g \in groups : Under(g) # {}
       /\ texts = UNION {Under(g) : g \in groups}
       /\ \E g \in groups : \E c \in Under(g) : c.colspan < g.colspan

RowStart(row) == Min({row[i].row : i \in DOMAIN row})
RowEnd(row) == Max({row[i].row + row[i].rowspan : i \in DOMAIN row})

\* _header_row_count goes down the rows: a blank row joins the headers only
\* before a row that refines them, another row when it lies in a header's span
\* or refines them.
HeaderStep(grid, headers, i) ==
    LET row == grid[i] IN
    IF ~headers.open THEN headers
    ELSE IF RowIsBlank(row)
         THEN IF i < Len(grid) /\ Refines(grid[i + 1], headers.last)
              THEN [headers EXCEPT !.count = i] ELSE [headers EXCEPT !.open = FALSE]
    ELSE IF RowStart(row) < headers.end \/ Refines(row, headers.last)
         THEN [headers EXCEPT !.count = i, !.last = row, !.end = Max({@, RowEnd(row)})]
    ELSE [headers EXCEPT !.open = FALSE]

HeaderCount(grid) ==
    IF \E i \in DOMAIN grid[1] : HasChildren(grid[1][i]) THEN 0
    ELSE FoldLeft(LAMBDA h, i : HeaderStep(grid, h, i),
                  [count |-> 1, end |-> RowEnd(grid[1]), last |-> grid[1], open |-> TRUE],
                  [i \in 1 .. Len(grid) - 1 |-> i + 1]).count

\* Blank header rows are left out, and spans count the rows that remain.
VisibleHeaders(rows) ==
    LET visible == SelectSeq(rows, LAMBDA row : ~RowIsBlank(row))
        starts == {RowStart(visible[i]) : i \in DOMAIN visible}
        Adjusted(cell) == [cell EXCEPT !.rowspan =
                              Max({1, Cardinality(starts \cap RowsOf(cell))})]
    IN [i \in DOMAIN visible |-> [j \in DOMAIN visible[i] |-> Adjusted(visible[i][j])]]

-----------------------------------------------------------------------------
(* _structured_table and the source text of it *)

OmitsBlanks(grid, columns) ==
    LET cells == FlattenSeq(grid)
        blanks == Len(SelectSeq(cells, LAMBDA c : ~HasContent(c)))
    IN columns >= WideColumns /\ Len(cells) >= WideCells /\ 2 * blanks >= Len(cells)

\* A blank row is kept where the table declared how many rows it has.
DataRows(grid, rowCount) ==
    SelectSeq(SubSeq(grid, HeaderCount(grid) + 1, Len(grid)),
              LAMBDA row : rowCount # NoCount \/ ~RowIsBlank(row))

StructuredTable(rows, rowCount, columnCount) ==
    LET grid == NormalizeRows(rows, rowCount, columnCount) IN
    IF grid = <<>> THEN [headers |-> <<>>, rows |-> <<>>]
    ELSE LET columns == ColumnCount(FlattenSeq(grid), columnCount)
             data == DataRows(grid, rowCount)
             Shown(row) == IF OmitsBlanks(grid, columns) THEN SelectSeq(row, HasContent) ELSE row
             headers == VisibleHeaders(SubSeq(grid, 1, HeaderCount(grid)))
         IN [headers |-> [i \in DOMAIN headers |-> Shown(headers[i])],
             rows |-> [i \in DOMAIN data |-> Shown(data[i])]]

\* A span of an earlier row is repeated in row i,
SpansOn(span, i) == span.last >= i

\* unless a cell of the row lies in its columns.
SourceCells(row, active, i) ==
    row \o SelectSeq([k \in DOMAIN active |-> active[k].cell],
               LAMBDA c : \A j \in DOMAIN row : ColumnsOf(row[j]) \cap ColumnsOf(c) = {})

SourceRows(rows) ==
    FoldLeft(LAMBDA a, i :
        [lines |-> Append(a.lines, SourceCells(rows[i],
                      SelectSeq(a.active, LAMBDA s : SpansOn(s, i)), i)),
         active |-> a.active \o [k \in DOMAIN SelectSeq(rows[i], LAMBDA c : c.rowspan > 1) |->
             LET c == SelectSeq(rows[i], LAMBDA x : x.rowspan > 1)[k]
             IN [cell |-> c, last |-> i + c.rowspan - 1]]],
        [lines |-> <<>>, active |-> <<>>], [i \in DOMAIN rows |-> i]).lines

-----------------------------------------------------------------------------
(* Properties *)

\* The table of these rows is whole: every cell with a text or a child is shown
\* once, in a header or a data row; every row of the grid has a cell in every
\* column, its own or one that spans into it; no cell reaches over a lower one
\* that has something to show; and the source of a data row shows, beside its
\* own cells, those of rows above that span into it where it has none. The source counts rows as
\* they are shown: where one is left out, a span may be repeated too far down
\* (_normalize_rows, _clip_rowspans_that_overlap_real_cells, _table_source_text).
GridRight(rows, rowCount, columnCount) ==
    LET grid == NormalizeRows(rows, rowCount, columnCount)
        cells == FlattenSeq(grid)
        shown == StructuredTable(rows, rowCount, columnCount)
        all == FlattenSeq(shown.headers \o shown.rows)
        data == DataRows(grid, rowCount)
        source == SourceRows(shown.rows)
        Reaches(c, r) == r \in RowsOf(c) \ {c.row}
        SpansInto(i) == {c \in ToSet(FlattenSeq(data)) :
            /\ HasContent(c) /\ Reaches(c, RowStart(data[i]))
            /\ \A d \in ToSet(shown.rows[i]) : ColumnsOf(c) \cap ColumnsOf(d) = {}}
    IN /\ \A c \in ToSet(FlattenSeq(rows)) : HasContent(c) =>
              Len(SelectSeq(all, LAMBDA x : x.blocks = c.blocks)) = 1
       /\ \A i \in DOMAIN grid : 0 .. ColumnCount(cells, columnCount) - 1 =
              UNION {ColumnsOf(c) : c \in {c \in ToSet(cells) : RowStart(grid[i]) \in RowsOf(c)}}
       /\ \A c, d \in ToSet(cells) : Reaches(c, d.row) /\ HasContent(d) =>
              ColumnsOf(c) \cap ColumnsOf(d) = {}
       /\ (\A i \in 2 .. Len(data) : RowStart(data[i]) = RowStart(data[i - 1]) + 1) =>
          \A i \in DOMAIN source :
              {c \in ToSet(source[i]) : HasContent(c)} \ ToSet(shown.rows[i]) =
                  SpansInto(i)

=============================================================================
