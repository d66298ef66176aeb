---------------------------- MODULE HwpxDocument ----------------------------
(***************************************************************************)
(* HwpxBackend.parse: the paragraphs of a section, in order, become units. *)
(* Paragraphs with tables that only lay out other tables are split at      *)
(* their objects; a table becomes a table unit, a diagram or both; images  *)
(* become numbered assets; and an OCR function reads the images of a       *)
(* document that has nothing else.                                         *)
(*                                                                         *)
(* A paragraph is a sequence of runs, a run one of objects: texts, boxes   *)
(* (drawn shapes, with a text or none), lines, unsupported drawings,       *)
(* pictures and tables. A text "looks" like a title or an edge of a        *)
(* flowchart, a note on paper sizes, or plain. Positions in drawings,      *)
(* edges between nodes, labels of columns and the wording of sources are   *)
(* left out; shapes hold texts only, no two texts or pictures are equal,   *)
(* and the numbers of rows and columns a table declares are its own.       *)
(***************************************************************************)
EXTENDS Integers, FiniteSets, Sequences, SequencesExt, FiniteSetsExt

CONSTANTS
    Documents,      \* sequences of paragraphs
    Stored          \* the pictures whose image is in the package

VARIABLES
    document,
    todo,           \* paragraphs ahead: [runs, inside a layout table, is a part]
    units,
    got,            \* the assets so far, and the warnings
    table,          \* the rows of the table that was read
    tables,         \* table units so far
    asset           \* the asset the OCR function is given next; 0 before

vars == <<document, todo, units, got, table, tables, asset>>

Objects(p) == FlattenSeq(p)
OfKind(p, kinds) == SelectSeq(Objects(p), LAMBDA o : o.kind \in kinds)
TablesIn(p) == OfKind(p, {"table"})
PicturesIn(p) == OfKind(p, {"picture"})

\* paragraph_text: a run with an object in it has no text.
PlainTexts(p) ==
    SelectSeq(FlattenSeq(SelectSeq(p, LAMBDA run : OfKind(<<run>>, {"table", "picture"}) = <<>>)),
              LAMBDA o : o.kind = "text")

-----------------------------------------------------------------------------
(* Drawings and images *)

Nodes(p) == SelectSeq(OfKind(p, {"box"}), LAMBDA b : b.at # 0)
HasLines(p) == \E o \in ToSet(OfKind(p, {"line"})) : o.long
\* _paragraph_drawing: one box alone is a text, and lines alone are nothing.
Drawing(p) ==
    IF Nodes(p) = <<>> THEN "none" ELSE IF Len(Nodes(p)) = 1 /\ ~HasLines(p) THEN "text" ELSE "diagram"

\* An unsupported drawing is warned of once for each kind.
Unsupported(p) == {<<"unsupported", o.name>> : o \in ToSet(OfKind(p, {"unsupported"}))}

\* _extract_image: the picture becomes the next asset, or is warned of.
WithImages(g, pics) ==
    [assets |-> g.assets \o SelectSeq(pics, LAMBDA p : p.at \in Stored),
     warnings |-> g.warnings \cup {<<"unresolved", p.at>> : p \in {p \in ToSet(pics) : p.at \notin Stored}}]
NumberOf(g, pic) == CHOOSE n \in DOMAIN g.assets : g.assets[n] = pic

-----------------------------------------------------------------------------
(* Tables. A cell that was read has items: its "text", the texts "inner" to  *)
(* its children, pictures and unsupported drawings.                          *)

Item(sort, objects) == [i \in DOMAIN objects |-> [sort |-> sort, object |-> objects[i]]]
Sorted(items, sorts) == SelectSeq(items, LAMBDA x : x.sort \in sorts)
ObjectsOf(items, sorts) == LET xs == Sorted(items, sorts) IN [i \in DOMAIN xs |-> xs[i].object]

RECURSIVE ReadTable(_)
\* A cell's paragraph is its first table, else its drawing, else its pictures
\* and its text. "child" stands for a child without text of its own.
ReadParagraph(p) ==
    IF TablesIn(p) # <<>>
    THEN LET rows == ReadTable(TablesIn(p)[1])
             items == FlattenSeq([r \in DOMAIN rows |-> FlattenSeq([i \in DOMAIN rows[r] |-> rows[r][i].items])])
         IN Append([i \in DOMAIN items |-> IF items[i].sort = "text" THEN [items[i] EXCEPT !.sort = "inner"]
                                            ELSE items[i]], [sort |-> "child"])
    ELSE Item("unsupported", OfKind(p, {"unsupported"})) \o
         CASE Drawing(p) = "text" -> Item("text", Nodes(p))
           [] Drawing(p) = "diagram" -> Append(Item("inner", Nodes(p)), [sort |-> "child"])
           [] OTHER -> Item("picture", PicturesIn(p)) \o Item("text", PlainTexts(p))

RECURSIVE ColumnOf(_, _)
\* A cell without an address follows the one before it.
ColumnOf(row, i) ==
    IF row[i].at # <<>> THEN row[i].at[2] ELSE IF i = 1 THEN 0 ELSE ColumnOf(row, i - 1) + row[i - 1].spans[2]

ReadCell(row, r, i) ==
    LET cell == row[i] IN
    [row |-> IF cell.at = <<>> THEN r - 1 ELSE cell.at[1], col |-> ColumnOf(row, i),
     rowspan |-> cell.spans[1], colspan |-> cell.spans[2],
     items |-> FlattenSeq([k \in DOMAIN cell.paragraphs |-> ReadParagraph(cell.paragraphs[k])])]

\* The rows that have cells.
ReadTable(t) ==
    SelectSeq([r \in DOMAIN t.rows |-> [i \in DOMAIN t.rows[r] |-> ReadCell(t.rows[r], r, i)]],
              LAMBDA row : row # <<>>)

ItemsOf(cells) == FlattenSeq([i \in DOMAIN cells |-> cells[i].items])
HasText(cell) == \E i \in DOMAIN cell.items : cell.items[i].sort = "text"
IsChild(item) == item.sort = "child" \/ (item.sort = "picture" /\ item.object.at \in Stored)
HasChildren(row) == \E i \in DOMAIN row : \E k \in DOMAIN row[i].items : IsChild(row[i].items[k])
IsBlank(row) == ~HasChildren(row) /\ \A i \in DOMAIN row : ~HasText(row[i])
RowStart(row) == Min({row[i].row : i \in DOMAIN row})
RowEnd(row) == Max({row[i].row + row[i].rowspan : i \in DOMAIN row})

\* refines_header_groups
Refines(row, previous) ==
    LET groups == {g \in ToSet(previous) : g.colspan > 1 /\ HasText(g)}
        texts == {c \in ToSet(row) : HasText(c)}
        Under(g) == {c \in texts : g.col <= c.col /\ c.col + c.colspan <= g.col + g.colspan}
    IN /\ ~HasChildren(row) /\ groups # {}
       /\ \A g \in groups : Under(g) # {}
       /\ texts = UNION {Under(g) : g \in groups}
       /\ \E g \in groups : \E c \in Under(g) : c.colspan < g.colspan

\* _header_row_count: a row joins the headers when it starts in a header's span,
\* is blank, or refines the row before.
JoinsHeaders(rows, i) ==
    \/ RowStart(rows[i]) < Max({RowEnd(rows[j]) : j \in 1 .. i - 1})
    \/ IsBlank(rows[i]) \/ Refines(rows[i], rows[i - 1])

HeaderCount(rows) ==
    IF HasChildren(rows[1]) THEN 0
    ELSE Max({k \in DOMAIN rows : \A i \in 2..k : JoinsHeaders(rows, i)})

\* The rows of a flowchart: from the first that looks like a title of one to the
\* end, or to a later row that speaks of the paper.
Looks(row, look) ==
    \E i \in DOMAIN row : \E x \in ToSet(ObjectsOf(row[i].items, {"text"})) : x.look = look
FlowchartRows(rows) ==
    LET titles == {i \in DOMAIN rows : Looks(rows[i], "title")}
        first == Min(titles)
        papers == {i \in first + 1 .. Len(rows) : Looks(rows[i], "paper")}
    IN IF titles = {} THEN {} ELSE first .. Min(papers \cup {Len(rows) + 1}) - 1

IsEdge(cell) == Looks(<<cell>>, "edge")
\* The texts of the flowchart's nodes, and those of its edges behind them.
FlowchartCells(rows) ==
    LET cells == SelectSeq(FlattenSeq(rows), HasText)
    IN [nodes |-> SelectSeq(cells, LAMBDA c : ~IsEdge(c)), edges |-> SelectSeq(cells, IsEdge)]

-----------------------------------------------------------------------------
(* expand_layout_tables *)

HoldsTable(ps) == \E i \in DOMAIN ps : TablesIn(ps[i]) # <<>>

IsLayout(o) ==
    /\ o.kind = "table" /\ Len(o.rows) = 1 /\ Len(o.rows[1]) = 1
    /\ LET cell == o.rows[1][1]
       IN cell.at \in {<<>>, <<0, 0>>} /\ cell.spans = <<1, 1>> /\ HoldsTable(cell.paragraphs)

IsSplit(p, inside) ==
    /\ OfKind(p, {"table", "picture"}) # <<>>
    /\ inside \/ \E o \in ToSet(TablesIn(p)) : IsLayout(o)

\* What stands before object i and behind the one before it.
Before(os, i) ==
    SubSeq(os, Max({0} \cup {j \in 1 .. i - 1 : os[j].kind \in {"table", "picture"}}) + 1, i - 1)

\* _split_at_objects: each object is a part, and so is what stands between.
Parts(p) ==
    LET os == Objects(p) IN
    FlattenSeq([i \in DOMAIN os |-> IF os[i].kind \in {"table", "picture"}
                                     THEN <<<<Before(os, i)>>, <<<<os[i]>>>>>> ELSE <<>>])
        \o <<<<Before(os, Len(os) + 1)>>>>

Ahead(p, inside, part) == [runs |-> p, inside |-> inside, part |-> part]
Opened(p) ==
    IF TablesIn(p) # <<>> /\ IsLayout(TablesIn(p)[1])
    THEN LET inner == TablesIn(p)[1].rows[1][1].paragraphs
         IN [i \in DOMAIN inner |-> Ahead(inner[i], TRUE, FALSE)]
    ELSE <<Ahead(p, TRUE, TRUE)>>

Init ==
    /\ document \in Documents
    /\ todo = [i \in DOMAIN document |-> Ahead(document[i], FALSE, FALSE)]
    /\ units = <<>> /\ table = <<>> /\ tables = 0 /\ asset = 0
    /\ got = [assets |-> <<>>, warnings |-> {}]

Expand ==
    /\ todo # <<>> /\ ~Head(todo).part
    /\ LET p == Head(todo).runs
           parts == Parts(p)
       IN todo' = (IF IsSplit(p, Head(todo).inside)
                   THEN FlattenSeq([i \in DOMAIN parts |-> Opened(parts[i])])
                   ELSE <<Ahead(p, Head(todo).inside, TRUE)>>) \o Tail(todo)
    /\ UNCHANGED <<document, units, got, table, tables, asset>>

-----------------------------------------------------------------------------
(* The units of a paragraph *)

Unit(id, type, texts, images) == [id |-> id, type |-> type, texts |-> texts, images |-> images]
Next1 == Len(units) + 1

TakePart == todo # <<>> /\ Head(todo).part /\ todo' = Tail(todo) /\ UNCHANGED <<document, asset>>
Part == Head(todo).runs

\* The rows that stay in the table when "flow" became a diagram.
Remaining(data, flow) ==
    LET kept == SelectSeq([i \in DOMAIN data |-> i], LAMBDA i : i \notin flow)
    IN [k \in DOMAIN kept |-> data[kept[k]]]

\* A table of a single text is that text.
IsSingleText(headers, data) ==
    /\ data = <<>> /\ Len(headers) = 1 /\ Len(headers[1]) = 1
    /\ ~HasChildren(headers[1]) /\ HasText(headers[1][1])

\* A table is read with all that is in it; without rows it is no unit.
Extract ==
    /\ todo # <<>> /\ Head(todo).part /\ TablesIn(Part) # <<>> /\ table = <<>>
    /\ table' = ReadTable(TablesIn(Part)[1])
    /\ todo' = IF table' = <<>> THEN Tail(todo) ELSE todo
    /\ LET items == ItemsOf(FlattenSeq(table'))
           images == WithImages(got, ObjectsOf(items, {"picture"}))
       IN got' = [images EXCEPT !.warnings =
                      @ \cup {<<"unsupported", o.name>> : o \in ToSet(ObjectsOf(items, {"unsupported"}))}]
    /\ UNCHANGED <<document, units, tables, asset>>

\* A table with a flowchart in it is two units, unless nothing but headers is
\* left of it.
EmitTable ==
    /\ TakePart /\ table # <<>>
    /\ LET headers == SubSeq(table, 1, HeaderCount(table))
           data == SubSeq(table, HeaderCount(table) + 1, Len(table))
           flow == FlowchartRows(data)
           chart == FlowchartCells([i \in 1 .. Cardinality(flow) |-> data[Min(flow) + i - 1]])
           isChart == Len(chart.nodes) >= 2
           rest == IF isChart THEN Remaining(data, flow) ELSE data
           items == ItemsOf(FlattenSeq(headers \o rest))
           pics == SelectSeq(ObjectsOf(items, {"picture"}), LAMBDA p : p.at \in Stored)
           isTable == rest # <<>> \/ ~isChart
           isText == isTable /\ IsSingleText(headers, rest)
           unit == Unit(Next1, IF isText THEN "text" ELSE "table", ObjectsOf(items, {"text", "inner"}),
                         [i \in DOMAIN pics |-> NumberOf(got, pics[i])])
           before == IF isTable THEN Append(units, unit) ELSE units
       IN /\ units' = IF ~isChart THEN before
                      ELSE Append(before, Unit(Len(before) + 1, "diagram",
                                               ObjectsOf(ItemsOf(chart.nodes \o chart.edges), {"text"}), <<>>))
          /\ tables' = IF isTable /\ ~isText THEN tables + 1 ELSE tables
    /\ table' = <<>>
    /\ UNCHANGED got

\* Only the first picture is read, and what stands beside it is not.
EmitPicture ==
    /\ TakePart /\ TablesIn(Part) = <<>> /\ PicturesIn(Part) # <<>>
    /\ got' = WithImages(got, <<PicturesIn(Part)[1]>>)
    /\ units' = IF Len(got'.assets) = Len(got.assets) THEN units
                ELSE Append(units, Unit(Next1, "image", <<>>, <<Len(got'.assets)>>))
    /\ UNCHANGED <<table, tables>>

\* What is drawn goes before what is written beside it.
EmitText ==
    /\ TakePart /\ OfKind(Part, {"table", "picture"}) = <<>>
    /\ got' = [got EXCEPT !.warnings = @ \cup Unsupported(Part)]
    /\ units' = CASE Drawing(Part) = "text" -> Append(units, Unit(Next1, "text", Nodes(Part), <<>>))
                  [] Drawing(Part) = "diagram" -> Append(units, Unit(Next1, "diagram", Nodes(Part), <<>>))
                  [] OTHER -> IF PlainTexts(Part) = <<>> THEN units
                              ELSE Append(units, Unit(Next1, "text", PlainTexts(Part), <<>>))
    /\ UNCHANGED <<table, tables>>

\* _append_ocr_fallback_units, without a function or with one.
EndParagraphs ==
    /\ todo = <<>> /\ asset = 0
    /\ \E recognizes \in BOOLEAN :
           asset' = IF recognizes /\ \A i \in DOMAIN units : units[i].type = "image" THEN 1
                    ELSE Len(got.assets) + 1
    /\ UNCHANGED <<document, todo, units, got, table, tables>>

Recognize ==
    /\ asset \in DOMAIN got.assets
    /\ \/ \E failed \in {"failed", "empty", "uncertain"} :
              got' = [got EXCEPT !.warnings = @ \cup {<<failed, asset>>}] /\ UNCHANGED units
       \/ units' = Append(units, Unit(Next1, "ocr", <<[kind |-> "ocr", at |-> asset]>>, <<>>)) /\ UNCHANGED got
    /\ asset' = asset + 1
    /\ UNCHANGED <<document, todo, table, tables>>

Next == Expand \/ Extract \/ EmitTable \/ EmitPicture \/ EmitText \/ EndParagraphs \/ Recognize

Spec == Init /\ [][Next]_vars

-----------------------------------------------------------------------------
(* Properties *)

RECURSIVE TablesOf(_)
\* The tables in these paragraphs, however deep.
TablesOf(ps) ==
    UNION {UNION {{t} \cup UNION {TablesOf(c.paragraphs) : c \in ToSet(FlattenSeq(t.rows))} :
                      t \in ToSet(TablesIn(ps[i]))} : i \in DOMAIN ps}

RECURSIVE Within(_)
\* Every text and box in a table.
Within(t) ==
    UNION {UNION {ToSet(OfKind(c.paragraphs[i], {"text", "box"}))
                      \cup UNION {Within(n) : n \in ToSet(TablesIn(c.paragraphs[i]))} :
                  i \in DOMAIN c.paragraphs} : c \in ToSet(FlattenSeq(t.rows))}
IsFlowchart(t) == ~IsLayout(t) /\ \E x \in Within(t) : x.look = "title"

\* The headers of a table are closed: no header cell reaches into a data row, the
\* first data row has something to show, and a table whose first row holds a
\* child has no headers (_header_row_count).
HeadersClosed ==
    table # <<>> =>
        LET count == HeaderCount(table) IN
        /\ \A i \in 1..count, j \in count + 1 .. Len(table) : RowEnd(table[i]) <= RowStart(table[j])
        /\ count \in 1 .. Len(table) - 1 => ~IsBlank(table[count + 1])
        /\ HasChildren(table[1]) => count = 0

RECURSIVE ShownOfTable(_), ShownOfAll(_, _)
\* A cell's paragraph shows its first table, or what is drawn, or its pictures
\* and its text.
ShownOfTable(t) ==
    UNION {UNION {LET p == c.paragraphs[i] IN
                      IF TablesIn(p) # <<>> THEN ShownOfTable(TablesIn(p)[1])
                      ELSE ToSet(IF Nodes(p) # <<>> THEN Nodes(p) ELSE PlainTexts(p) \o PicturesIn(p)) :
                  i \in DOMAIN c.paragraphs} : c \in ToSet(FlattenSeq(t.rows))}
\* A flowchart shows the texts of the rows from its title on.
ShownOfFlowchart(t) ==
    LET Own(r) == UNION {UNION {ToSet(PlainTexts(c.paragraphs[i])) : i \in DOMAIN c.paragraphs} : c \in ToSet(t.rows[r])}
    IN UNION {Own(r) : r \in {r \in DOMAIN t.rows : \E q \in 1..r : \E x \in Own(q) : x.look = "title"}}
\* What the paragraphs of a document, or "inside" a layout table, show at least.
ShownOfAll(ps, inside) ==
    UNION {LET p == ps[i]
               OfTable(t) == IF IsFlowchart(t) THEN ShownOfFlowchart(t) ELSE ShownOfTable(t)
               written == ToSet(IF Nodes(p) # <<>> THEN Nodes(p) ELSE OfKind(p, {"text"}))
           IN IF inside \/ \E t \in ToSet(TablesIn(p)) : IsLayout(t)
              THEN written \cup ToSet(PicturesIn(p)) \cup
                       UNION {IF IsLayout(t) THEN ShownOfAll(t.rows[1][1].paragraphs, TRUE) ELSE OfTable(t) :
                                  t \in ToSet(TablesIn(p))}
              ELSE IF TablesIn(p) # <<>> THEN OfTable(TablesIn(p)[1])
              ELSE IF PicturesIn(p) # <<>> THEN {PicturesIn(p)[1]} ELSE written : i \in DOMAIN ps}

ShownIn(u) == IF u.type = "ocr" THEN {} ELSE ToSet(u.texts)

\* No text is shown twice, the units follow the document (but that a flowchart
\* follows the rest of its table), and in the end all that was written and every
\* picture is shown: in a paragraph that is split at its objects also what stands
\* beside them, which another paragraph drops for its table or picture; units
\* and tables are numbered through, and a text has no images
\* (HwpxBackend.parse, expand_layout_tables).
TextsShown ==
    LET all == FlattenSeq([i \in DOMAIN units |-> IF units[i].type = "ocr" THEN <<>> ELSE units[i].texts]) IN
    /\ Cardinality(ToSet(all)) = Len(all)
    /\ \A i, j \in DOMAIN units : i < j => \A x \in ShownIn(units[i]), y \in ShownIn(units[j]) :
           x.at < y.at \/ \E t \in TablesOf(document) : IsFlowchart(t) /\ {x, y} \subseteq Within(t)
    /\ todo = <<>> => {x \in ShownOfAll(document, FALSE) : x.kind # "picture" \/ x.at \in Stored}
                          \subseteq ToSet(all) \cup ToSet(got.assets)
    /\ \A i \in DOMAIN units : units[i].id = i /\ (units[i].type = "text" => units[i].images = <<>>)
    /\ tables = Cardinality({i \in DOMAIN units : units[i].type = "table"})

\* Images are assets in the order of their pictures, each is referred to once, or
\* was in a flowchart, and each image of a document that shows nothing else is
\* read once, or the failure noted (_extract_image, _append_ocr_fallback_units).
ImagesReferred ==
    LET refs == FlattenSeq([i \in DOMAIN units |-> units[i].images])
        flowcharts == {t \in TablesOf(document) : IsFlowchart(t)}
        Outcomes(k) == Cardinality({i \in DOMAIN units : units[i].type = "ocr" /\ units[i].texts[1].at = k})
                       + Cardinality({f \in {"failed", "empty", "uncertain"} : <<f, k>> \in got.warnings})
        recognized == \E k \in DOMAIN got.assets : Outcomes(k) > 0
    IN /\ \A i, j \in DOMAIN got.assets : i < j => got.assets[i].at < got.assets[j].at
       /\ \A i, j \in DOMAIN refs : i < j => refs[i] < refs[j]
       /\ table = <<>> /\ flowcharts = {} => ToSet(refs) = DOMAIN got.assets
       /\ recognized => /\ \A i \in DOMAIN units : units[i].type \in {"image", "ocr"}
                        /\ \A k \in 1 .. asset - 1 : Outcomes(k) = 1

=============================================================================
