-------------------------------- MODULE MCXlsx --------------------------------
(***************************************************************************)
(* The two halves of XlsxBackend.parse, side by side: the preflight of the *)
(* package, whose XML may be anything, and the reading of worksheets that  *)
(* openpyxl loaded. A behaviour is one of them; the other stays where it   *)
(* begins.                                                                 *)
(***************************************************************************)
EXTENDS XlsxSheets

\* Worksheets of four rows and three columns, rows of six patterns; a sheet has
\* merged ranges, declared tables, a bold row, a filter, or is hidden.
Patterns == { <<"", "", "">>, <<"text", "text", "text">>, <<"text", "", "number">>,
              <<"", "text", "">>, <<"number", "number", "">>, <<"text", "text", "formula">> }
Grids == [1..4 -> Patterns]
Worksheet(g, m, t, b, f, h) ==
    [kind |-> [p \in (1..4) \X (1..3) |->
                  IF \E r \in m : p \in Positions(r) /\ Anchor(r) # p THEN "" ELSE g[p[1]][p[2]]],
     merges |-> m, tables |-> t, bold |-> b, filter |-> f, hidden |-> h]
Table(r, n) == [region |-> r, headers |-> n, columns |-> r.right - r.left + 1]
Invalid == {Table(Rect(3, 2, 1, 2), 0), Table(Rect(2, 3, 0, 1), 1), Table(Rect(2, 3, 1, 16385), 1),
            [Table(Rect(2, 3, 1, 2), 1) EXCEPT !.columns = 3]}

NoWorkbook == <<Worksheet([r \in 1..4 |-> <<"", "", "">>], {}, {}, {}, <<>>, FALSE)>>
Text == <<"text", "text", "text">>
Block == Rect(2, 3, 2, 3)
Headed == {g \in Grids : g[2] = Text /\ g[4] = Text}
MCWorkbooks ==
    {NoWorkbook} \cup {<<Worksheet(g, m, {}, b, <<>>, FALSE)>> :
         g \in {g \in Grids : g[1] = Text \/ g[3] = <<"text", "", "number">>},
         m \in {{}, {Block}, {Rect(1, 1, 1, 2), Rect(1, 2, 3, 3)}, {Rect(1, 1, 1, 3)}}, b \in {{}, {2}}}
    \cup {<<Worksheet(g, m, {Table(r, n)}, {}, <<>>, FALSE)>> : g \in Headed,
              m \in {{}, {Block}}, r \in {Rect(2, 3, 2, 2), Rect(2, 3, 1, 2), Rect(1, 2, 3, 3)}, n \in {0, 1}}
    \cup {<<Worksheet(g, {}, {}, {}, <<Rect(2, 4, 1, 3)>>, FALSE)>> : g \in Headed}
    \cup {<<Worksheet(g, {}, {Table(Rect(1, 1, 1, 2), 1), t}, {}, <<>>, FALSE)>> : g \in Headed, t \in Invalid}
    \cup {<<Worksheet(g, {Rect(1, 4, 1, 3), Block}, {}, {}, <<>>, FALSE)>> : g \in Headed}
    \cup {<<Worksheet(g, {}, {Table(r, n), Table(Rect(3, 4, 2, 2), 1)}, {}, <<>>, h),
            Worksheet(g, {Block}, {Table(Rect(1, 1, 1, 2), 1)}, {}, <<>>, FALSE)>> :
              g \in Headed, r \in {Rect(1, 1, 1, 3), Rect(2, 3, 1, 2)}, n \in {0, 2}, h \in BOOLEAN}

\* Elements of the six kinds of parts, two sheets and one comments part.
Tag(t) == [tag |-> t]
Relation(i, t, g, x) == [tag |-> "Relationship", id |-> i, type |-> t, target |-> g, external |-> x]
Cell(t, r, c, a, v) == [tag |-> t, r |-> r, c |-> c, area |-> a, valid |-> v]
MCElements == [
    types |-> {Tag("Types")}
        \cup [tag : {"Default", "Override", "other"}, workbook : {"no", "standard", "other"}],
    workbook |-> {Tag("workbook"), Tag("sheets"), Tag("other")}
        \cup [tag : {"sheet"}, ids : SUBSET {"r1", "r2"}],
    workbookRels |-> {Tag("Relationships"), Tag("other"),
        Relation("r1", "worksheet", "s1", FALSE), Relation("r2", "worksheet", "s2", FALSE),
        Relation("r2", "worksheet", "s1", FALSE), Relation("r2", "chartsheet", "s2", FALSE),
        Relation("r1", "other", "s1", FALSE), Relation("r3", "other", "not canonical", FALSE),
        Relation("r1", "worksheet", "s1", TRUE), Relation("", "worksheet", "s1", FALSE)},
    sheetRels |-> {Tag("Relationships"), Relation("r1", "comments", "n1", FALSE),
        Relation("r2", "other", "s1", FALSE), Relation("r3", "comments", "n1", TRUE)},
    worksheet |-> {Cell(t, 0, 0, 0, TRUE) : t \in {"worksheet", "sheetData", "row", "c", "hyperlink"}}
        \cup {Cell("row", 3, 0, 0, TRUE), Cell("c", 0, 3, 0, TRUE), Cell("mergeCell", 0, 0, 2, TRUE),
              Cell("hyperlink", 0, 0, 1, TRUE), Cell("col", 0, 0, 0, FALSE)},
    comments |-> {Tag("comments"), Tag("commentList"), Tag("ref"), Tag("other")}
        \cup [tag : {"comment"}, valid : BOOLEAN]]
MCMaxElements == [types |-> 3, workbook |-> 4, workbookRels |-> 3, sheetRels |-> 3,
                  worksheet |-> 5, comments |-> 4]
Zip(m, s, e, n, w) == [members |-> m, size |-> s, encrypted |-> e, names |-> n, withRels |-> w]
Needed == {"types", "workbook", "rels"}
Full == Needed \cup {"s1", "s2", "n1"}
MCArchives == { Zip(3, 1, FALSE, Full \ {"s2"}, {}), Zip(3, 1, FALSE, Full, {"s1", "s2"}),
                Zip(3, 1, TRUE, Full, {}), Zip(4, 1, FALSE, Full, {}), Zip(3, 2, FALSE, Full, {}),
                Zip(1, 1, FALSE, {"types"}, {}) }

VARIABLES
    part,                                             \* whose behaviour it is
    archive, step, stack, read, inList, sawList,      \* XlsxPreflight
    workbooks, ids, relations, budget, worksheets, comments, at, rowAt, columnAt, cells, loaded

Package == INSTANCE XlsxPreflight WITH
    Archives <- MCArchives, Elements <- MCElements, MaxElements <- MCMaxElements, MaxDepth <- 4,
    MaxMembers <- 3, MaxSize <- 1, MaxCells <- 2, MaxWorksheets <- 2, MaxRows <- 1, MaxColumns <- 2,
    stage <- step

packageVars == <<archive, step, stack, read, inList, sawList, workbooks, ids, relations, budget,
                 worksheets, comments, at, rowAt, columnAt, cells, loaded>>

MCInit ==
    /\ part \in {"package", "sheets"}
    /\ IF part = "package" THEN book = NoWorkbook /\ includeHidden = TRUE
                           ELSE archive = Zip(3, 1, TRUE, Full, {})
    /\ Init /\ Package!Init

MCNext ==
    \/ part = "sheets" /\ Next /\ UNCHANGED <<part, packageVars>>
    \/ part = "package" /\ Package!Next /\ UNCHANGED <<part, vars>>

MCSpec == MCInit /\ [][MCNext]_<<part, vars, packageVars>>

\* A package that is let through holds no more than the limits, and nothing in
\* it that the loader would read otherwise (PackageRight).
PackageRight == Package!PackageRight

=============================================================================
