----------------------------- MODULE XlsxSheets -----------------------------
(***************************************************************************)
(* XlsxBackend.parse after the package checks: each worksheet is cut into  *)
(* regions (its declared tables, and rectangles around what is left),      *)
(* regions are text or a table with header rows that are guessed, and      *)
(* merged cells span in what their region shows of them.                   *)
(*                                                                         *)
(* A position is <<row, column>>. A sheet is a record: kind of each of its *)
(* positions ("" is empty), merges, tables, bold rows, filter and hidden.  *)
(* Merged ranges do not overlap, and only their anchors have content, as   *)
(* openpyxl reads them. Display formats, addresses and hidden rows are     *)
(* left out.                                                               *)
(***************************************************************************)
EXTENDS Integers, Sequences, FiniteSets, FiniteSetsExt

CONSTANTS
    Workbooks,      \* the sequences of sheets looked at
    MaxCells,       \* max_cells
    MaxTables       \* the limit of declared tables

VARIABLES
    book, includeHidden,   \* the workbook and a setting
    sheet,                 \* number of the worksheet that is read
    stage,                 \* "merges", "tables", "regions", "emit", "done", "failed"
    entries,               \* regions still to be emitted
    represented,           \* cells of all regions so far, over all sheets
    declared,              \* declared tables so far, over all sheets
    units,                 \* what was emitted
    warnings               \* sheets skipped
vars == <<book, includeHidden, sheet, stage, entries, represented, declared, units, warnings>>

(***************************************************************************)
(* Rectangles.                                                             *)
(***************************************************************************)
Rect(t, b, l, r) == [top |-> t, bottom |-> b, left |-> l, right |-> r]
Positions(r) == (r.top..r.bottom) \X (r.left..r.right)
Area(r) == (r.bottom - r.top + 1) * (r.right - r.left + 1)
Meet(a, b) == ~(\/ a.bottom < b.top \/ b.bottom < a.top
                \/ a.right < b.left \/ b.right < a.left)
Around(S) == Rect(Min({p[1] : p \in S}), Max({p[1] : p \in S}),
                  Min({p[2] : p \in S}), Max({p[2] : p \in S}))
TotalArea(S) == FoldSet(LAMBDA r, sum : sum + Area(r), 0, S)

Kind(s, p) == IF p \in DOMAIN s.kind THEN s.kind[p] ELSE ""
HasContent(s, p) == Kind(s, p) # ""

Merged(s, p) == {m \in s.merges : p \in Positions(m)}     \* at most one
Anchor(m) == <<m.top, m.left>>
IsCovered(s, p) == \E m \in Merged(s, p) : Anchor(m) # p

\* Content, and all of a merged range whose anchor has some.
Occupied(s) ==
    {p \in DOMAIN s.kind : HasContent(s, p)}
        \cup UNION {Positions(m) : m \in {m \in s.merges : HasContent(s, Anchor(m))}}

(***************************************************************************)
(* XlsxRegionDetector. Rows without a gap are a band, columns without a    *)
(* gap in a band are a group. A group that meets a declared table is cut   *)
(* at the rows where the table begins and ends, and grouped again.         *)
(***************************************************************************)
Runs(S) == {r \in S \X S :
    /\ r[1] <= r[2] /\ \A x \in r[1]..r[2] : x \in S
    /\ r[1] - 1 \notin S /\ r[2] + 1 \notin S}

Groups(S) ==
    UNION {LET band == {p \in S : p[1] \in rows[1]..rows[2]}
           IN {{p \in band : p[2] \in columns[1]..columns[2]} :
                   columns \in Runs({p[2] : p \in band})}
           : rows \in Runs({p[1] : p \in S})}

\* Bug variant: the row below a barrier belongs to its band.
CutsLate(region, barriers) ==
    {region.top, region.bottom + 1}
        \cup {Max({region.top, b.top}) : b \in barriers}
        \cup {Min({region.bottom + 1, b.bottom + 2}) : b \in barriers}
Cuts(region, barriers) ==
    {region.top, region.bottom + 1}
        \cup {Max({region.top, b.top}) : b \in barriers}
        \cup {Min({region.bottom + 1, b.bottom + 1}) : b \in barriers}

\* The tables that meet a region are found with an interval tree over rows or
\* columns, whichever promises fewer candidates.
Ends(r, axis) == IF axis = "row" THEN <<r.top, r.bottom>> ELSE <<r.left, r.right>>
Middle(S, axis) == \* the element len // 2 of the sorted centers
    LET center(r) == (Ends(r, axis)[1] + Ends(r, axis)[2]) \div 2
        below(r) == Cardinality({o \in S : center(o) < center(r)})
        upto(r) == Cardinality({o \in S : center(o) <= center(r)})
        half == Cardinality(S) \div 2
    IN center(CHOOSE r \in S : below(r) <= half /\ half < upto(r))

RECURSIVE Query(_, _, _)
Query(S, axis, q) ==
    IF S = {} THEN {}
    ELSE LET center == Middle(S, axis)
             left == {r \in S : Ends(r, axis)[2] < center}
             right == {r \in S : Ends(r, axis)[1] > center}
             here == S \ (left \cup right)
         IN IF q[2] < center THEN {r \in here : Ends(r, axis)[1] <= q[2]} \cup Query(left, axis, q)
            ELSE IF q[1] > center
            THEN {r \in here : Ends(r, axis)[2] >= q[1]} \cup Query(right, axis, q)
            ELSE here \cup Query(left, axis, q) \cup Query(right, axis, q)

OverlapCount(S, axis, q) ==
    Cardinality(S) - Cardinality({r \in S : Ends(r, axis)[2] <= q[1] - 1})
        - (Cardinality(S) - Cardinality({r \in S : Ends(r, axis)[1] <= q[2]}))

Overlapping(barriers, region) ==
    LET other(axis) == IF axis = "row" THEN "column" ELSE "row"
        axis == IF OverlapCount(barriers, "row", Ends(region, "row"))
                      <= OverlapCount(barriers, "column", Ends(region, "column"))
                THEN "row" ELSE "column"
        meets(r) == LET e == Ends(r, other(axis)) f == Ends(region, other(axis))
                    IN ~(e[2] < f[1] \/ e[1] > f[2])
    IN {r \in Query(barriers, axis, Ends(region, axis)) : meets(r)}

Fragments(S, barriers) ==
    UNION {LET near == Overlapping(barriers, Around(group))
               cuts == Cuts(Around(group), near)
               band(p) == Max({c \in cuts : c <= p[1]})
           IN IF near = {} THEN {Around(group)}
              ELSE UNION {{Around(part) : part \in Groups({p \in group : band(p) = c})} :
                              c \in {band(p) : p \in group}}
           : group \in Groups(S)}

(***************************************************************************)
(* Header rows.                                                            *)
(***************************************************************************)
Profile(s, region, row) ==
    LET counted == {p \in {row} \X (region.left..region.right) :
                        ~IsCovered(s, p) /\ HasContent(s, p)}
        n(kinds) == Cardinality({p \in counted : Kind(s, p) \in kinds})
    IN [total |-> Cardinality(counted), strings |-> n({"text"}), formulas |-> n({"formula"}),
        bold |-> IF row \in s.bold THEN Cardinality(counted) ELSE 0]

IsHeaderLike(p) == p.total >= 2 /\ p.strings >= 2 /\ p.formulas = 0
MostlyText(p) == p.total > 0 /\ 4 * p.strings >= 3 * p.total
MostlyBold(p) == p.total > 0 /\ 2 * p.bold >= p.total

Score(p, next) ==
    IF ~IsHeaderLike(p) \/ next.total = 0 THEN 0
    ELSE (IF MostlyBold(p) /\ next.bold * p.total < p.bold * next.total THEN 3 ELSE 0)
       + (IF MostlyText(p) /\ next.total > next.strings THEN 2 ELSE 0)

MergesOf(s, region, row) == {m \in s.merges : \E c \in region.left..region.right : <<row, c>> \in Positions(m)}
JoinsRows(m, child) == m.right > m.left \/ m.bottom >= child
HeaderMerge(s, region, parent, child) ==
    \E m \in MergesOf(s, region, parent) : JoinsRows(m, child)
PartialMerge(s, region, parent, child) ==
    \E m \in MergesOf(s, region, parent) :
        JoinsRows(m, child) /\ ~(m.left <= region.left /\ m.right >= region.right)

FilterRow(s, region) ==
    /\ s.filter # <<>>
    /\ LET f == s.filter[1]
       IN /\ f.bottom > f.top /\ f.top \in region.top..region.bottom
          /\ f.right >= region.left /\ f.left <= region.right
          /\ IsHeaderLike(Profile(s, region, f.top))

\* The last header row, 0 for none: where text turns into data, unless the
\* first row that could be a header says otherwise.
LastHeaderRow(s, region) ==
    LET last == Min({region.bottom - 1, region.top + 11})
        P(row) == Profile(s, region, row)
        score == [row \in region.top..last |-> Score(P(row), P(row + 1))]
        candidates == {row \in DOMAIN score : score[row] > 0}
        turn == CHOOSE row \in candidates : \A o \in candidates :
                    score[row] > score[o] \/ (score[row] = score[o] /\ row <= o)
        likely == {row \in DOMAIN score : IsHeaderLike(P(row)) /\ P(row + 1).total > 0}
    IN CASE likely = {} -> IF candidates = {} THEN 0 ELSE turn
         [] likely # {} /\ candidates = {} -> Min(likely)
         [] OTHER ->
              IF \/ turn = Min(likely)
                 \/ turn = Min(likely) + 1 /\ HeaderMerge(s, region, Min(likely), turn)
                 \/ MostlyBold(P(turn)) /\ ~MostlyBold(P(Min(likely)))
              THEN turn ELSE Min(likely)

\* Rows above that a merged range joins with the header are header rows too.
IsParentRow(s, region, parent, last) ==
    LET p == Profile(s, region, parent)
        least == IF parent + 1 = last /\ PartialMerge(s, region, parent, parent + 1) THEN 1 ELSE 2
    IN /\ p.total >= least /\ p.strings >= least /\ p.formulas = 0 /\ MostlyText(p)
       /\ HeaderMerge(s, region, parent, parent + 1)

HeaderRows(s, region) ==
    IF FilterRow(s, region) THEN <<s.filter[1].top, s.filter[1].top>>
    ELSE LET last == LastHeaderRow(s, region)
         IN IF last = 0 THEN <<>>
            ELSE <<Min({row \in region.top..last :
                          \A r \in row..(last - 1) : IsParentRow(s, region, r, last)}), last>>

(***************************************************************************)
(* Units. cells is what a unit shows: positions with the rows and columns  *)
(* they reach to.                                                          *)
(***************************************************************************)
CellOf(s, p, lastRow, region) ==
    [at |-> p,
     bottom |-> Max({p[1]} \cup {Min({lastRow, m.bottom}) : m \in Merged(s, p)}),
     right |-> Max({p[2]} \cup {Min({region.right, m.right}) : m \in Merged(s, p)})]

\* One unit for each row that has text.
TextUnits(s, region, remaining) ==
    LET shown(row) == {p \in {row} \X (region.left..region.right) : p \in remaining /\ ~IsCovered(s, p)}
        rows == {row \in region.top..region.bottom : \E p \in shown(row) : HasContent(s, p)}
        nth(n) == CHOOSE row \in rows : Cardinality({r \in rows : r < row}) = n - 1
        content(row) == {p \in shown(row) : HasContent(s, p)}
        reach(row) == {<<c.bottom, c.right>> : c \in {CellOf(s, p, region.bottom, region) : p \in content(row)}}
    IN [n \in 1..Cardinality(rows) |->
          [sheet |-> sheet, type |-> "text", header |-> <<>>,
           region |-> Around(content(nth(n)) \cup reach(nth(n))),
           cells |-> {CellOf(s, p, p[1], Rect(p[1], p[1], p[2], p[2])) : p \in shown(nth(n))}]]

\* A header cell stays in the header rows (span_max_row).
\* Bug variant: it spans into the data rows.
SpanMaxRowOfRegion(region, header, row) == region.bottom
SpanMaxRow(region, header, row) ==
    IF header # <<>> /\ row <= header[2] THEN header[2] ELSE region.bottom

TableUnit(s, region, header) ==
    [sheet |-> sheet, type |-> "table", region |-> region, header |-> header,
     cells |-> {CellOf(s, p, SpanMaxRow(region, header, p[1]), region) :
                   p \in {p \in Positions(region) : ~IsCovered(s, p)}}]

RegionUnits(s, region, remaining) ==
    LET header == IF region.top = region.bottom \/ region.left = region.right THEN <<>>
                  ELSE HeaderRows(s, region)
    IN IF header = <<>> THEN TextUnits(s, region, remaining)
       ELSE (IF region.top < header[1]
             THEN TextUnits(s, [region EXCEPT !.bottom = header[1] - 1], remaining) ELSE <<>>)
            \o <<TableUnit(s, [region EXCEPT !.top = header[1]], header)>>

(***************************************************************************)
(* The steps of parse.                                                     *)
(***************************************************************************)
Current == book[sheet]
DeclaredPositions(s) == UNION {Positions(t.region) : t \in s.tables}
Remaining(s) == Occupied(s) \ DeclaredPositions(s)

Init ==
    /\ book \in Workbooks /\ includeHidden \in BOOLEAN
    /\ sheet = 1 /\ stage = "merges" /\ entries = {} /\ represented = 0 /\ declared = 0
    /\ units = <<>> /\ warnings = {}

NextSheet == IF sheet < Len(book) THEN sheet' = sheet + 1 /\ stage' = "merges"
             ELSE sheet' = sheet /\ stage' = "done"
Fails == stage' = "failed" /\ UNCHANGED <<sheet, entries, represented, declared, units, warnings>>

SkipHidden ==
    /\ stage = "merges" /\ Current.hidden /\ ~includeHidden
    /\ warnings' = warnings \cup {sheet}
    /\ NextSheet
    /\ UNCHANGED <<book, includeHidden, entries, represented, declared, units>>

ReadMerges ==
    /\ stage = "merges" /\ ~(Current.hidden /\ ~includeHidden)
    /\ IF TotalArea(Current.merges) > MaxCells \/ Cardinality(Occupied(Current)) > MaxCells THEN Fails
       ELSE stage' = "tables" /\ UNCHANGED <<sheet, entries, represented, declared, units, warnings>>
    /\ UNCHANGED <<book, includeHidden>>

InSheet(r) == 1 <= r.top /\ r.top <= r.bottom /\ r.bottom <= 1048576
              /\ 1 <= r.left /\ r.left <= r.right /\ r.right <= 16384
\* A reference or a count that is no range or number is one out of bounds here.
TablesValid(s) ==
    /\ \A t \in s.tables :
           /\ InSheet(t.region)
           /\ t.headers \in 0..(t.region.bottom - t.region.top + 1)
           /\ t.columns <= t.region.right - t.region.left + 1
    /\ TotalArea({t.region : t \in s.tables}) <= MaxCells
    /\ \A t, u \in s.tables : t # u => ~Meet(t.region, u.region)

ReadTables ==
    /\ stage = "tables"
    /\ IF ~TablesValid(Current) \/ declared + Cardinality(Current.tables) > MaxTables THEN Fails
       ELSE /\ declared' = declared + Cardinality(Current.tables)
            /\ IF Occupied(Current) = {} /\ Current.tables = {} THEN NextSheet
               ELSE stage' = "regions" /\ UNCHANGED sheet
            /\ UNCHANGED <<entries, represented, units, warnings>>
    /\ UNCHANGED <<book, includeHidden>>

FindRegions ==
    /\ stage = "regions"
    /\ entries' = {[region |-> t.region, table |-> TRUE, headers |-> t.headers] : t \in Current.tables}
          \cup {[region |-> r, table |-> FALSE, headers |-> 0] :
                    r \in Fragments(Remaining(Current), {t.region : t \in Current.tables})}
    /\ stage' = "emit"
    /\ UNCHANGED <<book, includeHidden, sheet, represented, declared, units, warnings>>

\* By top, then left, then tables first.
IsFirst(e) ==
    \A o \in entries \ {e} :
        \/ e.region.top < o.region.top
        \/ e.region.top = o.region.top /\ e.region.left < o.region.left
        \/ e.region.top = o.region.top /\ e.region.left = o.region.left /\ e.table

UnitsOf(e) ==
    IF e.table
    THEN <<TableUnit(Current, e.region, IF e.headers = 0 THEN <<>>
                                  ELSE <<e.region.top, e.region.top + e.headers - 1>>)>>
    ELSE RegionUnits(Current, e.region, Remaining(Current))

EmitRegion ==
    /\ stage = "emit"
    /\ \E e \in entries :
          /\ IsFirst(e)
          /\ IF represented + Area(e.region) > MaxCells THEN Fails
             ELSE /\ represented' = represented + Area(e.region)
                  /\ units' = units \o UnitsOf(e)
                  /\ entries' = entries \ {e}
                  /\ UNCHANGED <<sheet, stage, declared, warnings>>
    /\ UNCHANGED <<book, includeHidden>>

EndSheet ==
    /\ stage = "emit" /\ entries = {}
    /\ NextSheet
    /\ UNCHANGED <<book, includeHidden, entries, represented, declared, units, warnings>>

Next == SkipHidden \/ ReadMerges \/ ReadTables \/ FindRegions \/ EmitRegion \/ EndSheet

Spec == Init /\ [][Next]_vars

-----------------------------------------------------------------------------
TypeOK ==
    /\ sheet \in 1..Len(book) /\ represented \in 0..MaxCells /\ declared \in 0..MaxTables
    /\ stage \in {"merges", "tables", "regions", "emit", "done", "failed"}
    /\ \A i \in DOMAIN units : units[i].type \in {"text", "table"}

\* The regions of a sheet are apart, no region of text reaches into a declared
\* table, and together they hold all that is occupied (regions.py); the
\* interval tree finds every table that a region meets.
RegionsApart ==
    /\ TypeOK
    /\ stage = "emit" =>
         LET done == {units[i].region : i \in {i \in DOMAIN units : units[i].sheet = sheet}}
             tables == {t.region : t \in Current.tables}
         IN /\ \A e, o \in entries : e # o => ~Meet(e.region, o.region)
            /\ \A e \in entries, r \in done : ~Meet(e.region, r)
            /\ \A e \in entries : Overlapping(tables, e.region) = {t \in tables : Meet(t, e.region)}
            /\ done = {} => Remaining(Current) \subseteq UNION {Positions(e.region) : e \in entries}

ReadUpTo == IF stage = "done" THEN Len(book) ELSE sheet - 1
ShownCells(n) == UNION {{<<i, c>> : c \in units[i].cells} : i \in {i \in DOMAIN units : units[i].sheet = n}}

\* Each cell with content of a sheet that was read is shown by exactly one
\* unit, the range of a table is its own, and in it no two cells take one
\* place and none reaches out of it (or a header cell below the header rows).
CellsShownOnce ==
    /\ stage \in {"merges", "done"} => \A n \in (1..ReadUpTo) \ warnings :
          LET s == book[n] IN
          \A p \in DOMAIN s.kind : HasContent(s, p) /\ ~IsCovered(s, p) =>
              Cardinality({x \in ShownCells(n) : x[2].at = p}) = 1
    /\ \A i \in DOMAIN units :
          LET u == units[i] IN
          /\ \A j \in DOMAIN units \ {i} : u.type = "table" /\ u.sheet = units[j].sheet =>
                ~Meet(u.region, units[j].region)
          /\ u.type = "table" => \A c, d \in u.cells :
                /\ c.at[1] <= c.bottom /\ c.bottom <= u.region.bottom
                /\ c.at[2] <= c.right /\ c.right <= u.region.right
                /\ u.header # <<>> /\ c.at[1] <= u.header[2] => c.bottom <= u.header[2]
                /\ c # d => ~Meet(Rect(c.at[1], c.bottom, c.at[2], c.right),
                                  Rect(d.at[1], d.bottom, d.at[2], d.right))

=============================================================================
