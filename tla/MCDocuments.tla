----------------------------- MODULE MCDocuments -----------------------------
(***************************************************************************)
(* HWP5: the grid of a table on its own, and documents of two sections     *)
(* read record by record. HWPX: documents of two paragraphs with all that  *)
(* a paragraph can hold, and tables on their own. HTML: the repair of      *)
(* markup and the alignment of rows on their own, and pages walked block   *)
(* by block. Markdown: files read line by line. Every state belongs to one *)
(* of these parts.                                                         *)
(***************************************************************************)
EXTENDS Hwp5Document

\* Rows of a table with three columns: cells with a text ("t"), a child ("c") or
\* nothing, some of which span.
C(k, c, rs, cs) == [kind |-> k, col |-> c, rowspan |-> rs, colspan |-> cs]
RowPatterns ==
    { <<>>, <<C("t", 0, 1, 1), C("t", 1, 1, 1), C("t", 2, 1, 1)>>, <<C("t", 0, 1, 2), C("t", 2, 1, 1)>>,
      <<C("t", 0, 2, 1), C("t", 1, 1, 1), C("", 2, 1, 1)>>, <<C("t", 0, 3, 1), C("t", 1, 2, 2)>>,
      <<C("t", 0, 1, 3)>>, <<C("t", 0, 2, 2)>>, <<C("t", 1, 1, 1)>>, <<C("", 0, 1, 1), C("t", 1, 2, 1)>>,
      <<C("c", 0, 2, 1), C("t", 1, 1, 1)>>, <<C("", 0, 1, 3)>>,
      <<C("t", 0, 1, 1), C("t", 1, 1, 1), C("", 2, 3, 1)>> }
BlocksOf(k, r, c) ==
    LET ts == <<[at |-> 10 * r + c, size |-> 1]>>
    IN IF k = "t" THEN <<Text(ts)>> ELSE IF k = "c" THEN <<Diagram(ts, FALSE)>> ELSE <<>>
RowsOfPatterns(ps) ==
    SelectSeq([r \in DOMAIN ps |-> [i \in DOMAIN ps[r] |-> LET c == ps[r][i] IN
                  Cell(r - 1, c.col, c.rowspan, c.colspan, BlocksOf(c.kind, r - 1, c.col))]],
              LAMBDA row : row # <<>>)
Tables ==
    {t \in {Table(RowsOfPatterns(ps), n, m) :
                ps \in [1..3 -> RowPatterns], n \in {NoCount, 3}, m \in {NoCount, 3}} :
        /\ TableHasContent(t.rows)
        /\ t.rowCount # NoCount => \A c \in ToSet(FlattenSeq(t.rows)) : c.row + c.rowspan <= 3}

\* Records: tables in tables, groups of shapes, pictures in and out of cells.
Tx(l, s) == [tag |-> "text", level |-> l, size |-> s]
Gs(l, b) == [tag |-> "gso", level |-> l, box |-> b]
Sh(l, s) == [tag |-> "shape", level |-> l, shape |-> s, box |-> FALSE]
Co(l, s) == [tag |-> "component", level |-> l, shape |-> s]
Pi(l, d) == [tag |-> "picture", level |-> l, data |-> d]
Ta(l) == [tag |-> "table", level |-> l]
Bo(l, n, m) == [tag |-> "body", level |-> l, rows |-> n, columns |-> m]
Ce(l, r, c, s) == [tag |-> "cell", level |-> l, at |-> <<r, c>>, spans |-> <<s, 1>>]
Tag(t, l) == [tag |-> t, level |-> l]
MCScripts ==
    { << {Ta(1)}, {Bo(2, 1, 1), Bo(2, 2, 2), Tag("other", 0)}, {Ce(2, 0, 0, 1), Tx(2, 1)},
         {Tx(3, 1), Ta(3), Ce(2, 1, 0, 1)}, {Tx(3, 1), Ce(4, 0, 0, 1), Ta(3)},
         {Tx(5, 1), Ce(2, 1, 1, 1), Tx(1, 1)}, {Tx(3, 1), Tx(1, 1), Ce(4, 0, 1, 1)}, {Tx(3, 1), Tx(5, 1)} >>,
      << {Tx(1, 1), Gs(1, FALSE)}, {Gs(1, TRUE), Co(2, "line"), Co(2, "unknown")}, {Tx(4, 1), Sh(2, "group"), Pi(3, 1)},
         {Tx(1, 1), Tx(4, 1), Sh(2, "line")}, {Tx(4, 1), Sh(2, "box"), Tag("control", 1)},
         {Tx(1, 1), Tx(1, 3), Sh(3, "box")}, {Gs(1, FALSE), Sh(1, "box"), Sh(2, "group")}, {Tx(4, 1), Tx(1, 1)} >>,
      << {Gs(1, FALSE), Ta(1)}, {Pi(2, 1), Ce(2, 0, 0, 1)}, {Gs(3, FALSE), Tx(1, 1), Gs(1, TRUE)},
         {Pi(4, 2), Tx(5, 1), Ta(3)}, {Tx(3, 1), Gs(3, FALSE), Ce(4, 0, 0, 1)}, {Pi(5, 1), Pi(5, 3), Tx(5, 1)},
         {Gs(1, FALSE), Co(4, "line"), Tx(5, 1)}, {Pi(2, 1), Tx(4, 1)} >> }
MCStorage == 1 :> 2

-----------------------------------------------------------------------------
(* HTML source: what the repair tells apart, in every order *)

Markup == {<<"<", "known", ">">>, <<"<", "other", ">">>, <<"<", "/", "other", ">">>, <<"<", "other">>, <<"<", "/">>,
           <<"<", "script", ">">>, <<"<", "/", "script", ">">>, <<"<", "glyph", ">">>, <<"<", "!">>,
           <<"<", "/", " ", "other", " ", ">">>, <<"<", "/", " ", "script", ">">>,
           <<"<", "other", " ", "/", ">">>, <<">">>, <<"quote">>, <<" ">>, <<"other">>}
Sources == {FlattenSeq(s) : s \in [1..4 -> Markup]}

\* Rows of text, and two aligned ones with up to six rows between them.
TextRow(g) == [at |-> <<>>, atoms |-> IF g = -1 THEN <<>> ELSE <<1>>, gaps |-> Max({0, g})]
Rows ==
    {[i \in DOMAIN gs |-> TextRow(gs[i])] :
        gs \in UNION {[1..n -> -1..2] : n \in 1..6} \cup {<<2>> \o g \o <<2>> : g \in [1..6 -> {-1, 0}]}}

\* Pages: no two texts stand side by side, and blocks stand in no paragraph.
E(tag, kids) == [tag |-> tag, kids |-> kids]
T(id, gaps) == [tag |-> "#text", kids |-> <<>>, id |-> id, gaps |-> gaps]
A(href, kids) == [tag |-> "a", kids |-> kids, href |-> href]
He(level, kids) == [tag |-> "heading", kids |-> kids, level |-> level]
Im(embedded) == [tag |-> "img", kids |-> <<>>, embedded |-> embedded]
Td(tag, rowspan, colspan, kids) == [tag |-> tag, kids |-> kids, rowspan |-> rowspan, colspan |-> colspan]
Br == E("br", <<>>)
HeadingAt(level, i) == <<He(level, <<T(10 * i, 0)>>)>>
Note(i) == <<E("#comment", <<>>), T(10 * i, 0)>>
AlignedText(i) == <<E("#comment", <<>>), T(10 * i, 2), Br, E("inline", <<T(10 * i + 1, 2)>>)>>
Cell1(i) == Td("td", 2, 1, <<T(10 * i, 0), Im(TRUE), A(i, <<T(10 * i + 1, 0)>>),
    E("table", <<E("tr", <<Td("th", 1, 1, <<>>)>>), E("tr", <<Td("td", 1, 1, <<Im(TRUE)>>)>>)>>), E("table", <<>>)>>)
Blocks(i) ==
    {HeadingAt(1, i), HeadingAt(2, i), <<He(1, <<>>)>>, Note(i), AlignedText(i),
     <<E("p", AlignedText(i))>>, <<E("p", <<E("inline", AlignedText(i)), T(10 * i + 2, 0)>>)>>, 
     <<A(i, AlignedText(i) \o <<He(2, <<T(10 * i + 5, 0)>>), T(10 * i + 6, 2), Br, T(10 * i + 7, 2)>>)>>,
     <<A(i, <<He(1, <<T(10 * i, 2)>>)>>)>>, <<E("p", <<He(2, <<T(10 * i, 0)>>), E("skip", <<T(10 * i + 1, 0)>>)>>)>>,
     <<A(i, <<T(10 * i, 1)>>), Br, T(10 * i + 1, 2), Br, T(0, 0), Br, T(10 * i + 2, 2), Br>>,
     <<E("p", <<T(10 * i, 2), Br, A(i, <<T(10 * i + 1, 0)>>), Br, T(10 * i + 2, 0)>>)>>,
     <<E("list", <<T(0, 0), E("li", <<T(10 * i, 0), E("list", <<E("li", <<T(10 * i + 1, 0)>>)>>)>>), T(10 * i + 2, 0),
                   E("list", <<E("li", <<T(10 * i + 3, 0)>>)>>), E("li", <<A(0, <<T(10 * i + 4, 2)>>), E("script", <<>>)>>)>>)>>,
     <<E("div", HeadingAt(2, i) \o <<E("pre", <<T(10 * i + 1, 2)>>), E("inline", <<Im(FALSE), T(10 * i + 2, 2)>>)>>)>>,
     <<E("title", <<T(10 * i, 0)>>)>>, <<E("skip", <<T(10 * i, 0)>>), E("figure", <<Im(TRUE), Im(TRUE)>>), Im(TRUE), Im(FALSE)>>,
     <<E("table", <<E("section", <<E("tr", <<Td("td", 1, 1, <<>>), Td("td", 1, 1, <<>>)>>)>>),
                    E("tr", <<Cell1(i)>>), E("tr", <<Td("td", 1, 1, <<T(10 * i + 2, 0)>>)>>)>>)>>}

\* Tables of three columns, one row of which may be the header.
CellPatterns == {<<>>, <<<<1, 1>>>>, <<<<2, 1>>, <<1, 1>>>>, <<<<1, 1>>, <<3, 2>>>>, <<<<2, 2>>, <<1, 1>>>>,
                 <<<<1, 1>>, <<1, 1>>, <<3, 1>>, <<1, 1>>>>, <<<<3, 1>>, <<2, 3>>>>}
RowOf(tag, spans) == E("tr", [i \in DOMAIN spans |-> Td(tag, spans[i][1], spans[i][2], <<>>)])
HeaderRow == RowOf("th", <<<<1, 1>>, <<1, 1>>, <<1, 1>>>>)
TablesOfHtml ==
    {E("table", InsertAt([r \in 1..4 |-> RowOf("td", p[r])], h, HeaderRow)) : p \in [1..4 -> CellPatterns], h \in {1, 2}}

Pages ==
    {E("div", FlattenSeq(<<b1, b2, b3>>)) : b1 \in Blocks(1), b2 \in Blocks(2), b3 \in Blocks(3)}
    \cup {E("div", FlattenSeq([i \in DOMAIN s |-> IF s[i] = 0 THEN Note(i) ELSE HeadingAt(s[i], i)])) :
              s \in [1..5 -> 0..3]}
    \cup {E("div", <<t>>) : t \in TablesOfHtml}

\* Markdown files of up to six lines.
Files == UNION {[1..n -> {"heading", "untitled", "row", "text", "blank"}] : n \in 1..6}

-----------------------------------------------------------------------------
(* HWPX: paragraphs of texts, drawings, pictures and tables; tables in the  *)
(* patterns above, and flowcharts.                                          *)

Xt(at) == [kind |-> "text", at |-> at, look |-> "plain"]
Xl(at, look) == [kind |-> "text", at |-> at, look |-> look]
Xb(at) == [kind |-> "box", at |-> at, look |-> "plain"]
Xn(long) == [kind |-> "line", long |-> long]
Xu(name) == [kind |-> "unsupported", name |-> name]
Xp(at) == [kind |-> "picture", at |-> at]
Xc(r, c, rs, cs, ps) == [at |-> <<r, c>>, spans |-> <<rs, cs>>, paragraphs |-> ps]
Xf(ps) == [at |-> <<>>, spans |-> <<1, 1>>, paragraphs |-> ps]
Xr(rows) == [kind |-> "table", rows |-> rows]
P1(o) == <<<<o>>>>
RowOfTexts(r, at, looks) == [c \in DOMAIN looks |-> Xc(r, c - 1, 1, 1, <<P1(Xl(at + c, looks[c]))>>)]

LayoutTable(i) ==
    Xr(<<<<Xc(0, 0, 1, 1,
        << P1(Xt(i + 11)), <<<<Xt(i + 12), Xp(i + 13), Xb(i + 14)>>, <<Xr(<<<<Xf(<<P1(Xt(i + 15))>>)>>>>), Xt(i + 16)>>>>,
           <<<<Xr(<<<<Xf(<<P1(Xr(<<<<Xf(<<P1(Xp(i + 17)), P1(Xt(i + 18))>>)>>, <<>>>>))>>)>>>>)>>, <<Xt(i + 19)>>>>,
           P1(Xp(i + 20)) >>)>>>>)
HeaderTable(i) ==
    Xr(<< <<Xc(0, 0, 2, 1, <<P1(Xt(i + 11))>>), Xc(0, 1, 1, 2, <<P1(Xt(i + 12))>>)>>,
          <<Xc(1, 1, 1, 1, <<P1(Xt(i + 13))>>), Xf(<<P1(Xt(i + 14)), P1(Xt(i + 15))>>)>>,
          <<Xf(<<<<<<Xt(i + 16)>>, <<Xp(i + 17), Xt(i + 18)>>>>, P1(Xp(i + 98))>>),
            Xf(<<<<<<Xb(i + 19), Xn(TRUE), Xu("ole")>>>>, <<<<Xb(i + 20), Xn(FALSE)>>>>>>),
            Xf(<<<<<<Xt(i + 21), Xr(<<<<Xf(<<P1(Xt(i + 22)), P1(Xp(i + 23))>>)>>>>), Xr(<<<<Xf(<<P1(Xt(i + 24))>>)>>>>)>>>>>>)>> >>)
Flowchart(i, from, to) ==
    LET rows == << RowOfTexts(0, i + 10, <<"plain", "plain">>), RowOfTexts(1, i + 12, <<"plain", "plain">>),
                   RowOfTexts(2, i + 14, <<"title", "plain">>), RowOfTexts(3, i + 16, <<"edge", "plain">>),
                   RowOfTexts(4, i + 18, <<"paper">>), RowOfTexts(5, i + 19, <<"plain", "edge">>) >>
    IN Xr(SubSeq(rows, from, to))
HwpxBlocks(i) ==
    { P1(Xt(i)), <<<<Xt(i), Xn(TRUE), Xu("ole")>>, <<Xt(i + 1), Xu("edit"), Xb(0)>>>>,
      <<<<Xt(i), Xb(i + 1)>>>>, <<<<Xb(i)>>, <<Xn(TRUE), Xb(i + 1)>>>>, <<<<Xb(i), Xn(TRUE), Xu("ole")>>>>,
      <<<<Xp(i + 1), Xp(i + 2)>>, <<Xt(i + 3)>>>>, P1(Xp(i + 98)), P1(Xp(i + 2)),
      <<<<Xt(i), LayoutTable(i)>>, <<Xt(i + 90)>>>>, P1(HeaderTable(i)), <<<<Xt(i), Flowchart(i, 1, 2)>>, <<Flowchart(i, 3, 4)>>>>,
      P1(Flowchart(i, 1, 6)), P1(Flowchart(i, 2, 4)), P1(Flowchart(i, 2, 3)), P1(Xr(<<<<Xf(<<P1(Xt(i))>>)>>>>)), 
      P1(Xr(<<<<Xf(<<P1(Xt(i)), P1(Xp(i + 1))>>)>>>>)), P1(Xr(<<<<>>>>)) }
HwpxCell(r, c) ==
    Xc(r, c.col, c.rowspan, c.colspan,
       IF c.kind = "t" THEN <<P1(Xt(10 * r + c.col + 1))>> ELSE IF c.kind = "c" THEN <<P1(Xp(10 * r + c.col + 1))>> ELSE <<>>)
HwpxTables ==
    {<<P1(Xr([r \in DOMAIN ps |-> [i \in DOMAIN ps[r] |-> HwpxCell(r - 1, ps[r][i])]]))>> : ps \in [1..3 -> RowPatterns]}
HwpxDocuments == {<<b, c>> : b \in HwpxBlocks(100), c \in HwpxBlocks(200)} \cup HwpxTables
HwpxStored == {n \in 1..299 : n % 100 # 98}

-----------------------------------------------------------------------------
VARIABLES
    part, input,                                        \* the input of a part without steps
    htmlStack, htmlUnits, htmlPath, images, root,
    lines, at, paragraph, rows, heading, markdownUnits,
    document, todo, hwpxUnits, got, table, tables, hwpxAsset

Html == INSTANCE HtmlDocument WITH
    Documents <- Pages, stack <- htmlStack, units <- htmlUnits, path <- htmlPath
Markdown == INSTANCE MarkdownDocument WITH
    Texts <- Files, table <- rows, units <- markdownUnits
Hwpx == INSTANCE HwpxDocument WITH
    Documents <- HwpxDocuments, Stored <- HwpxStored, units <- hwpxUnits, asset <- hwpxAsset

htmlVars == <<htmlStack, htmlUnits, htmlPath, images, root>>
markdownVars == <<lines, at, paragraph, rows, heading, markdownUnits>>
hwpxVars == <<document, todo, hwpxUnits, got, table, tables, hwpxAsset>>

NoHtml == htmlStack = <<>> /\ htmlUnits = <<>> /\ htmlPath = <<>> /\ images = 0 /\ root = E("div", <<>>)
NoMarkdown == lines = <<>> /\ at = 0 /\ paragraph = <<>> /\ rows = <<>> /\ heading = 0 /\ markdownUnits = <<>>
NoHwpx ==
    /\ document = <<>> /\ todo = <<>> /\ hwpxUnits = <<>> /\ got = [assets |-> <<>>, warnings |-> {}]
    /\ table = <<>> /\ tables = 0 /\ hwpxAsset = 0
NoHwp5 == script = <<>> /\ DocumentInit

MCInit ==
    \/ part = "grid" /\ input \in Tables /\ NoHwp5 /\ NoHwpx /\ NoHtml /\ NoMarkdown
    \/ part = "sections" /\ input = <<>> /\ script \in Scripts /\ DocumentInit /\ NoHwpx /\ NoHtml /\ NoMarkdown
    \/ part = "hwpx" /\ input = <<>> /\ NoHwp5 /\ Hwpx!Init /\ NoHtml /\ NoMarkdown
    \/ part = "repair" /\ input \in Sources /\ NoHwp5 /\ NoHwpx /\ NoHtml /\ NoMarkdown
    \/ part = "rows" /\ input \in Rows /\ NoHwp5 /\ NoHwpx /\ NoHtml /\ NoMarkdown
    \/ part = "html" /\ input = <<>> /\ NoHwp5 /\ NoHwpx /\ Html!Init /\ NoMarkdown
    \/ part = "markdown" /\ input = <<>> /\ NoHwp5 /\ NoHwpx /\ NoHtml /\ Markdown!Init

MCNext ==
    /\ \/ part = "sections" /\ DocumentNext /\ UNCHANGED <<hwpxVars, htmlVars, markdownVars>>
       \/ part = "hwpx" /\ Hwpx!Next /\ UNCHANGED <<allVars, htmlVars, markdownVars>>
       \/ part = "html" /\ Html!Next /\ UNCHANGED <<allVars, hwpxVars, markdownVars>>
       \/ part = "markdown" /\ Markdown!Next /\ UNCHANGED <<allVars, hwpxVars, htmlVars>>
    /\ UNCHANGED <<part, input>>

MCSpec == MCInit /\ [][MCNext]_<<part, input, allVars, hwpxVars, htmlVars, markdownVars>>

-----------------------------------------------------------------------------
\* The grid of an HWP5 table is whole, headers of HWPX tables are closed, and
\* cells of HTML tables stand apart (Hwp5Tables!GridRight,
\* HwpxDocument!HeadersClosed, HtmlDocument!CellsApart).
GridWhole ==
    /\ part = "grid" => GridRight(input.rows, input.rowCount, input.columnCount)
    /\ Hwpx!HeadersClosed
    /\ Html!CellsApart

\* Only what begins no markup is escaped, and once and for all; alignment is read
\* the same from both ends (HtmlText!RepairStable, HtmlText!AlignedBothWays).
MarkupRight ==
    /\ part = "repair" => Html!RepairStable(input)
    /\ part = "rows" => Html!AlignedBothWays(input)

\* Texts of list items are read (HtmlDocument!ItemsRead).
ListItemsRead == part = "html" => Html!ItemsRead

\* What pages and files say is read once, in order, under its headings, and no
\* image is left over (HwpxDocument!TextsShown, HwpxDocument!ImagesReferred,
\* HtmlDocument!TextsInOrder, HtmlDocument!AssetsShown,
\* MarkdownDocument!LinesInOrder).
PagesInOrder ==
    /\ Hwpx!TextsShown /\ Hwpx!ImagesReferred
    /\ Html!TextsInOrder /\ Html!AssetsShown /\ Markdown!LinesInOrder

=============================================================================
