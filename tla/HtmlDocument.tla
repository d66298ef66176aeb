---------------------------- MODULE HtmlDocument ----------------------------
(***************************************************************************)
(* HtmlDocumentParser: the content root is walked block by block, in       *)
(* document order, with the section path of the headings passed. A node is *)
(* [tag, kids, ...]: "#text" has an id and its wide gaps (an id of 0 is    *)
(* white space), "a" an href (0 when it has none), "heading" a level, and  *)
(* cells have spans. Kinds of elements the walk treats alike are one tag:  *)
(* "p" (p, blockquote), "list" (ol, ul), "inline" (the tags alignment goes *)
(* through), "skip" (footer, nav, pop-ups), "script" (script, style),      *)
(* "title" (the title of .viewCont) and "div" (any other). Links hold no   *)
(* links, and "inline" elements only texts, breaks and images.             *)
(***************************************************************************)
EXTENDS HtmlText

CONSTANT
    Documents       \* content roots

VARIABLES
    stack,          \* the open elements: children, place, selected rows, link
    units,
    path,           \* the headings passed: their level and text
    images,         \* image assets so far
    root

vars == <<stack, units, path, images, root>>

TextAtom(id) == [kind |-> "text", id |-> id]
LinkAtom(id) == [kind |-> "href", id |-> id]
Says(atoms, id) == IF id = 0 THEN atoms ELSE Append(atoms, LinkAtom(id))

RECURSIVE TextOf(_)
\* _text_with_links: links name their target.
TextOf(node) ==
    CASE node.tag = "#text" -> IF node.id = 0 THEN <<>> ELSE <<TextAtom(node.id)>>
      [] node.tag \in {"#comment", "script"} -> <<>>
      [] OTHER -> LET kids == FlattenSeq([i \in DOMAIN node.kids |-> TextOf(node.kids[i])])
                  IN IF node.tag = "a" THEN Says(kids, node.href) ELSE kids

RECURSIVE Below(_, _)
\* The descendants of a node in document order, none below an element of "stops".
Below(node, stops) ==
    FlattenSeq([i \in DOMAIN node.kids |-> LET k == node.kids[i] IN
                   <<k>> \o IF k.tag \in stops THEN <<>> ELSE Below(k, stops)])

RECURSIVE GapsOf(_)
\* The label of a link is normalized.
GapsOf(node) ==
    IF node.tag = "#text" THEN node.gaps ELSE IF node.tag = "a" THEN 0
    ELSE FoldLeft(LAMBDA n, k : n + GapsOf(k), 0, node.kids)

\* _is_alignment_inline_tag
InRow(node) ==
    /\ node.tag \in {"inline", "a"}
    /\ \A d \in ToSet(Below(node, {})) : d.tag \notin {"br", "figure", "img", "script", "table"}

AsRowPart(node) ==
    CASE node.tag = "#comment" -> [kind |-> "comment"]
      [] node.tag = "br" -> [kind |-> "break"]
      [] node.tag = "#text" \/ InRow(node) ->
           [kind |-> "row", atoms |-> TextOf(node), gaps |-> GapsOf(node)]
      [] OTHER -> [kind |-> "other"]

Selection(kids) == SelectedRows([i \in DOMAIN kids |-> AsRowPart(kids[i])])

RECURSIVE ContainsAligned(_)
ContainsAligned(node) ==
    \/ Selection(node.kids) # <<>>
    \/ \E i \in DOMAIN node.kids : node.kids[i].tag \in {"inline", "a"} /\ ContainsAligned(node.kids[i])

Frame(kids, href) == [kids |-> kids, at |-> 1, rows |-> Selection(kids), href |-> href, first |-> Len(units) + 1]

Init ==
    /\ root \in Documents
    /\ units = <<>> /\ path = <<>> /\ images = 0
    /\ stack = <<[Frame(root.kids, 0) EXCEPT !.first = 1]>>

-----------------------------------------------------------------------------
(* Tables *)

RowsOfTable(t) == FlattenSeq([i \in DOMAIN t.kids |->
    IF t.kids[i].tag = "tr" THEN <<t.kids[i]>>
    ELSE IF t.kids[i].tag = "section" THEN SelectSeq(t.kids[i].kids, LAMBDA k : k.tag = "tr") ELSE <<>>])
CellsOf(tr) == SelectSeq(tr.kids, LAMBDA k : k.tag \in {"td", "th"})

\* The first row with a th, else the first row.
HeaderIndex(rows) ==
    LET ths == {i \in DOMAIN rows : \E c \in ToSet(CellsOf(rows[i])) : c.tag = "th"}
    IN IF ths = {} THEN 1 ELSE Min(ths)

\* _next_open_column: a column no cell of an earlier row spans into.
NextOpen(column, slots) ==
    Min({c \in column .. column + Len(slots) + 1 : c \notin DOMAIN slots \/ slots[c] = 0})

RECURSIVE TableOf(_, _)

\* _image_asset_ref, after n assets: only embedded images of a known type are read.
AssetRef(image, n) == IF image.embedded THEN n + 1 ELSE n

\* The tables and images of a cell that are not in a table in it: the assets
\* after n that its children show, those of the inner tables first.
ChildrenOf(cell, n) ==
    LET inner == Below(cell, {"table"})
        tables == FoldLeft(LAMBDA ids, t : ids \o TableOf(t, n + Len(ids)).images, <<>>,
                           SelectSeq(inner, LAMBDA k : k.tag = "table"))
    IN FoldLeft(LAMBDA ids, k : IF AssetRef(k, 0) = 1 THEN Append(ids, AssetRef(k, n + Len(ids))) ELSE ids,
                tables, SelectSeq(inner, LAMBDA k : k.tag = "img"))

\* One cell of a data row; those beyond the last column are not read.
PlaceCell(row, cell, r) ==
    LET c == NextOpen(row.column, row.slots) IN
    IF row.full \/ c > Len(row.slots) THEN [row EXCEPT !.full = TRUE]
    ELSE [row EXCEPT
             !.cells = Append(@, [row |-> r, col |-> c, rowspan |-> cell.rowspan, colspan |-> cell.colspan]),
             !.images = @ \o ChildrenOf(cell, row.before + Len(@)),
             !.slots = [k \in DOMAIN @ |-> IF cell.rowspan > 1 /\ k \in c .. c + cell.colspan - 1
                                           THEN cell.rowspan ELSE @[k]],
             !.column = c + cell.colspan]

PlaceRow(table, tr, r) ==
    LET row == FoldLeft(LAMBDA a, cell : PlaceCell(a, cell, r),
                        [cells |-> table.cells, images |-> table.images, before |-> table.before,
                         slots |-> table.slots, column |-> 1, full |-> FALSE], CellsOf(tr))
    IN [table EXCEPT !.cells = row.cells, !.images = row.images,
                     !.slots = [k \in DOMAIN @ |-> Max({0, row.slots[k] - 1})]]

\* _parse_table_content: no table without a row, or a header without a cell.
TableOf(t, n) ==
    LET rows == RowsOfTable(t)
        h == HeaderIndex(rows)
        columns == IF rows = <<>> THEN 0 ELSE Len(CellsOf(rows[h]))
        data == [i \in 1 .. Len(rows) - 1 |-> rows[IF i < h THEN i ELSE i + 1]]
    IN IF columns = 0 THEN [shown |-> FALSE, images |-> <<>>, cells |-> <<>>]
       ELSE LET placed == FoldLeft(LAMBDA a, i : PlaceRow(a, data[i], i),
                              [cells |-> <<>>, images |-> <<>>, before |-> n, slots |-> [k \in 1..columns |-> 0]],
                              [i \in DOMAIN data |-> i])
            IN [shown |-> TRUE, images |-> placed.images, cells |-> placed.cells]

-----------------------------------------------------------------------------
(* _walk_blocks *)

Top == Last(stack)
Walking == stack # <<>> /\ Top.at <= Len(Top.kids)
Child == Top.kids[Top.at]
Passed == [stack EXCEPT ![Len(stack)].at = @ + 1]
IsSelected == \E i \in DOMAIN Top.rows : Top.at \in ToSet(Top.rows[i].at)

SectionPath == [i \in DOMAIN path |-> path[i].text]
\* The headings it stands under are kept (path) and written before its text (named).
Unit(type, atoms) == [type |-> type, atoms |-> atoms, cells |-> <<>>, images |-> <<>>,
                      path |-> SectionPath, named |-> SectionPath]
WithText(us, atoms) == IF atoms = <<>> THEN us ELSE Append(us, Unit("text", atoms))

\* A row is one unit where it begins; its other children are passed over.
SelectedChild ==
    /\ Walking /\ IsSelected
    /\ LET starts == SelectSeq(Top.rows, LAMBDA r : r.at[1] = Top.at)
       IN units' = IF starts = <<>> THEN units ELSE WithText(units, starts[1].atoms)
    /\ stack' = Passed /\ UNCHANGED <<path, images, root>>

Meets(tags) == Walking /\ ~IsSelected /\ Child.tag \in tags

Ignored == Meets({"#comment", "skip", "script"}) /\ stack' = Passed /\ UNCHANGED <<units, path, images, root>>

PlainText ==
    /\ Meets({"#text", "pre", "li"})
    /\ units' = WithText(units, TextOf(Child))
    /\ stack' = Passed /\ UNCHANGED <<path, images, root>>

\* Links and paragraphs are one text unless rows in them are aligned.
LinkOrParagraph ==
    /\ Meets({"a", "p"})
    /\ LET href == IF Child.tag = "a" THEN Child.href ELSE 0 IN
       IF ContainsAligned(Child)
       THEN stack' = Append(Passed, Frame(Child.kids, href)) /\ UNCHANGED units
       ELSE stack' = Passed /\ units' = WithText(units, TextOf(Child))
    /\ UNCHANGED <<path, images, root>>

\* What stands in a list but in none of its items is not read.
ListOfItems ==
    /\ Meets({"list"})
    /\ units' = FoldLeft(LAMBDA us, k : IF k.tag = "li" THEN WithText(us, TextOf(k)) ELSE us,
                         units, Child.kids)
    /\ stack' = Passed /\ UNCHANGED <<path, images, root>>

\* Bug variant: only headings below the new one are closed.
WithHeadingBeside(level, text) ==
    Append(SelectSeq(path, LAMBDA h : h.level <= level), [level |-> level, text |-> text])
\* HtmlParseState.set_heading: the last headings that are not above the new one
\* are closed.
WithHeading(level, text) ==
    LET open == Max({0} \cup {i \in DOMAIN path : path[i].level < level})
    IN Append(SubSeq(path, 1, open), [level |-> level, text |-> text])

Heading ==
    /\ Meets({"heading", "title"})
    /\ LET text == TextOf(Child) IN
       /\ path' = IF text = <<>> THEN path
                  ELSE WithHeading(IF Child.tag = "title" THEN 1 ELSE Child.level, text)
       /\ units' = IF Child.tag = "title" THEN WithText(units, text) ELSE units
    /\ stack' = Passed /\ UNCHANGED <<images, root>>

TableUnit ==
    /\ Meets({"table"})
    /\ LET t == TableOf(Child, images)
       IN /\ units' = IF t.shown THEN Append(units, [Unit("table", <<>>) EXCEPT !.cells = t.cells, !.images = t.images]) ELSE units
          /\ images' = images + Len(t.images)
    /\ stack' = Passed /\ UNCHANGED <<path, root>>

\* Of a figure the first image, which must be embedded (_image_asset_ref).
ImageUnit ==
    /\ Meets({"img", "figure"})
    /\ LET found == IF Child.tag = "img" THEN <<Child>>
                    ELSE SelectSeq(Below(Child, {}), LAMBDA k : k.tag = "img")
           next == IF found = <<>> THEN images ELSE AssetRef(found[1], images)
       IN /\ images' = next
          /\ units' = IF next = images THEN units
                      ELSE Append(units, [Unit("image", <<>>) EXCEPT !.images = <<next>>])
    /\ stack' = Passed /\ UNCHANGED <<path, root>>

Descend ==
    /\ Meets({"div", "inline", "br"})
    /\ stack' = Append(Passed, Frame(Child.kids, 0))
    /\ UNCHANGED <<units, path, images, root>>

\* _append_link_href: the text is written anew, under the headings now in force.
Linked(unit) == [unit EXCEPT !.atoms = Append(@, LinkAtom(Top.href)), !.named = SectionPath]
\* The texts that an aligned link was read as name its target.
EndOfElement ==
    /\ stack # <<>> /\ ~Walking
    /\ units' = [i \in DOMAIN units |->
                    IF Top.href # 0 /\ i >= Top.first /\ units[i].type = "text"
                    THEN Linked(units[i]) ELSE units[i]]
    /\ stack' = Front(stack)
    /\ UNCHANGED <<path, images, root>>

Next ==
    \/ SelectedChild \/ Ignored \/ PlainText \/ LinkOrParagraph \/ ListOfItems \/ Heading
    \/ TableUnit \/ ImageUnit \/ Descend \/ EndOfElement

-----------------------------------------------------------------------------
(* Properties *)

RECURSIVE Events(_, _, _)
\* What a reader passes in document order: texts, with the link they are in and
\* whether it is read block by block ("walked"), headings, and where such a link
\* ends. An element that is read as one text ("whole") has no headings.
Events(node, link, whole) ==
    LET asOne == whole \/ node.tag \in {"li", "pre"} \/ (node.tag \in {"a", "p"} /\ ~ContainsAligned(node))
        here == IF node.tag = "a" THEN [href |-> node.href, walked |-> ~asOne] ELSE link
        In(kids, w) == FlattenSeq([i \in DOMAIN kids |-> Events(kids[i], here, w)])
    IN CASE node.tag = "#text" ->
              IF node.id = 0 THEN <<>> ELSE <<[event |-> "text", id |-> node.id, link |-> link]>>
         [] node.tag \in {"#comment", "script"} -> <<>>
         [] asOne -> In(node.kids, TRUE)
         [] node.tag = "title" ->
              In(node.kids, TRUE) \o <<[event |-> "heading", level |-> 1, text |-> TextOf(node)]>>
         [] node.tag = "heading" -> <<[event |-> "heading", level |-> node.level, text |-> TextOf(node)]>>
         [] node.tag = "list" -> In(SelectSeq(node.kids, LAMBDA k : k.tag = "li"), TRUE)
         [] node.tag \in {"skip", "table", "figure", "img"} -> <<>>
         [] OTHER -> In(node.kids, FALSE) \o IF node.tag = "a" THEN <<[event |-> "end"]>> ELSE <<>>

\* The headings in force at an event.
Above(events, i) ==
    LET headings == {h \in 1 .. i - 1 : events[h].event = "heading" /\ events[h].text # <<>>}
    IN {h \in headings : \A k \in headings : k > h => events[k].level > events[h].level}

\* At the end every text outside tables, figures and skipped elements, and of
\* lists that of the items directly in them, has been read once and in document
\* order. Each of its units is kept under the headings it stands under and names
\* the link it stands in, whether its row was aligned or not; it names those
\* headings, or in an aligned link those in force where the link ends
\* (_walk_blocks, _aligned_text_selection, _append_link_href, set_heading).
TextsInOrder ==
    stack = <<>> =>
        LET events == Events(root, [href |-> 0, walked |-> FALSE], FALSE)
            texts == {i \in DOMAIN events : events[i].event = "text"}
            Written(i) == IF events[i].link.walked /\ events[i].link.href # 0
                          THEN Min({k \in i .. Len(events) : events[k].event = "end"}) ELSE i
            TextsOf(hs) == {events[h].text : h \in hs}
            inUnits == SelectSeq(FlattenSeq([u \in DOMAIN units |-> units[u].atoms]),
                                 LAMBDA a : a.kind = "text")
            expected == SelectSeq(events, LAMBDA e : e.event = "text")
        IN /\ [i \in DOMAIN inUnits |-> inUnits[i].id] = [i \in DOMAIN expected |-> expected[i].id]
           /\ \A u \in DOMAIN units : \A i \in texts :
                  TextAtom(events[i].id) \in ToSet(units[u].atoms) =>
                      /\ ToSet(units[u].path) = TextsOf(Above(events, i))
                      /\ ToSet(units[u].named) = TextsOf(Above(events, Written(i)))
                      /\ events[i].link.href # 0 => LinkAtom(events[i].link.href) \in ToSet(units[u].atoms)

\* At the end every text of a list item has been read, as the design of the
\* backend asks: text from li becomes plain text evidence (_walk_blocks).
ItemsRead ==
    stack = <<>> =>
        \A item \in ToSet(Below(root, {"skip", "script", "table", "figure"})) : item.tag = "li" =>
            \A a \in ToSet(TextOf(item)) : \E u \in DOMAIN units : a \in ToSet(units[u].atoms)

\* Every image that was stored is shown by one unit (HtmlParseState.next_image_id).
AssetsShown ==
    FlattenSeq([u \in DOMAIN units |-> units[u].images]) = [n \in 1..images |-> n]

\* No cell of a table begins in a column that a cell of an earlier row spans,
\* unless a cell beside it was wide enough to cover the span
\* (_next_open_column, _advance_rowspans).
CellsApart ==
    \A u \in DOMAIN units :
        LET cells == ToSet(units[u].cells)
            Area(c) == (c.row .. c.row + c.rowspan - 1) \X (c.col .. c.col + c.colspan - 1)
            Crossed(c) == \E d \in cells : d.row > c.row /\ d.col # c.col /\ d.col + d.colspan - 1 > d.col
                                           /\ Area(c) \cap Area(d) # {}
        IN \A c, d \in cells : c # d /\ ~Crossed(c) => <<d.row, d.col>> \notin Area(c)

=============================================================================
