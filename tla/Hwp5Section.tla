----------------------------- MODULE Hwp5Section -----------------------------
(***************************************************************************)
(* Hwp5SectionParser: the records of an HWP5 file are a flat list whose    *)
(* levels say what lies in what. One pass keeps a stack of open tables, an *)
(* open drawing object (gso) and a stack of containers, closes them when a *)
(* record at their level or below arrives, and places every text, drawing, *)
(* image and inner table in the cell that is open, else in the document.   *)
(*                                                                         *)
(* A record is [tag, level, ...] as its payload was decoded; the i-th one  *)
(* is any of script[i], and any record may be the last of its section.     *)
(* Records that only add to a closed form (the end points of a line, the   *)
(* paragraph properties) are the tag "other": what they close counts.      *)
(***************************************************************************)
EXTENDS Hwp5Tables

CONSTANTS
    Scripts,        \* sequences of sets: the records that may come i-th
    Sections,       \* the number of section streams
    Storage,        \* DocInfo: the storage of a picture's id, where it has an entry
    Streams         \* the streams of BinData that can be read

VARIABLES
    script,         \* one of Scripts
    stage,          \* "sections", then what Hwp5Document adds
    section,        \* the section being read
    read,           \* the records read so far
    rec,            \* the record being handled, or one of the two below
    parser,         \* the locals of _parse_section
    parsed,         \* the blocks, assets and lost pictures of the sections before
    dropped         \* ghost: the texts and tables that were not placed

vars == <<script, stage, section, read, rec, parser, parsed, dropped>>

Waiting == [tag |-> "waiting", level |-> 0]
EndOfSection == [tag |-> "end", level |-> 0]

NoGso == [open |-> FALSE, level |-> -1, texts |-> <<>>, box |-> FALSE, shape |-> "none",
          id |-> 0, parent |-> 0]
NewParser == [tables |-> <<>>, gso |-> NoGso, containers |-> <<>>,
              blocks |-> <<>>, assets |-> <<>>, missing |-> 0]

Text(ts) == [kind |-> "text", texts |-> ts]
Diagram(ts, ls) == [kind |-> "diagram", texts |-> ts, lines |-> ls]
Table(rows, n, m) == [kind |-> "table", rows |-> rows, rowCount |-> n, columnCount |-> m]
NewTable(level) == [level |-> level, rows |-> <<>>, row |-> <<>>, blocks |-> <<>>, inCell |-> FALSE,
                    at |-> <<-1, -1>>, spans |-> <<1, 1>>, rowCount |-> NoCount, columnCount |-> NoCount]

Init ==
    /\ script \in Scripts \cup {<<>>}
    /\ stage = "sections" /\ section = 1 /\ read = <<>> /\ rec = Waiting
    /\ parser = NewParser /\ dropped = <<>>
    /\ parsed = [blocks |-> <<>>, assets |-> <<>>, missing |-> 0]

-----------------------------------------------------------------------------
(* Where things go *)

Top(p) == Last(p.tables)
InCell(p) == p.tables # <<>> /\ Top(p).inCell

Placed(p, block) ==
    IF InCell(p) THEN [p EXCEPT !.tables[Len(p.tables)].blocks = Append(@, block)]
                 ELSE [p EXCEPT !.blocks = Append(@, block)]

\* In a cell a drawing is a diagram of its own.
Drawn(p, g) ==
    Placed(p, IF InCell(p) THEN Diagram(g.texts, FALSE)
              ELSE [kind |-> "drawing", texts |-> g.texts, id |-> g.id, parent |-> g.parent])

\* gso_parent_metadata: the innermost container below this level.
Parent(p, level) ==
    LET outer == {i \in DOMAIN p.containers : p.containers[i].level < level}
    IN IF outer = {} THEN 0 ELSE p.containers[Max(outer)].id

\* close_gso: a line keeps no text; an object without text, place or shape is
\* nothing.
GsoClosed(p) ==
    LET g == p.gso
        line == IF InCell(p) THEN Diagram(<<>>, TRUE) ELSE [kind |-> "line"]
        shows == g.texts # <<>> \/ g.box \/ g.shape \notin {"none", "picture"}
    IN [(IF g.shape = "line" THEN Placed(p, line)
         ELSE IF shows THEN Drawn(p, g) ELSE p) EXCEPT !.gso = NoGso]

TextsOfLine(g) == IF g.shape = "line" THEN <<Text(g.texts)>> ELSE <<>>

\* preserve_active_container: the group becomes a drawing and a container, and
\* the object goes on as the first one in it.
ContainerKept(p, level) ==
    LET q == [Drawn(p, p.gso)
                 EXCEPT !.containers = Append(@, [level |-> p.gso.level, id |-> p.gso.id])]
    IN [q EXCEPT !.gso = [NoGso EXCEPT !.open = TRUE, !.level = level, !.parent = Parent(q, level)]]

CellClosed(t) ==
    IF ~t.inCell THEN t
    ELSE [t EXCEPT !.row = Append(@, Cell(t.at[1], t.at[2], t.spans[1], t.spans[2], t.blocks)),
                   !.blocks = <<>>]

\* All that a table whose cells are closed holds, as one text.
JoinedTexts(rows) ==
    LET cells == FlattenSeq(rows)
        blocks == FlattenSeq([i \in DOMAIN cells |-> cells[i].blocks])
    IN FlattenSeq([i \in DOMAIN blocks |-> blocks[i].texts])

AsBlock(rows, n, m) == IF IsSingleText(rows, n, m) THEN Text(JoinedTexts(rows)) ELSE Table(rows, n, m)

\* close_top_table: the outermost table goes to the document, an inner one into
\* the cell around it.
TableClosed(p) ==
    LET t == CellClosed(Top(p))
        rows == IF t.row = <<>> THEN t.rows ELSE Append(t.rows, t.row)
        q == [p EXCEPT !.tables = Front(@)]
    IN IF ~TableHasContent(rows) THEN q
       ELSE IF q.tables = <<>>
       THEN [q EXCEPT !.blocks = Append(@, AsBlock(rows, t.rowCount, t.columnCount))]
       ELSE [q EXCEPT !.tables[Len(q.tables)].blocks =
                 Append(@, Table(rows, t.rowCount, t.columnCount))]

-----------------------------------------------------------------------------
(* What a record closes before it is handled *)

IsCtrl == rec.tag \in {"gso", "shape", "table", "control"}
Ended == rec.tag = "end"
ClosesGso == ~IsCtrl /\ rec.tag \notin {"waiting", "end"} /\ parser.gso.open /\ rec.level <= parser.gso.level
IsRecord == rec.tag \notin {"waiting", "end"}
\* Bug variant: a container stays open at its own level.
PopsContainerBelow ==
    IsRecord /\ parser.containers # <<>> /\ rec.level < Last(parser.containers).level
PopsContainer ==
    IsRecord /\ parser.containers # <<>> /\ rec.level <= Last(parser.containers).level
ClosesTable == parser.tables # <<>> /\ (Ended \/ (rec.tag # "waiting" /\ rec.level <= Top(parser).level))

ReadRecord ==
    /\ stage = "sections" /\ rec = Waiting /\ Len(read) < Len(script)
    /\ \E r \in script[Len(read) + 1] : rec' = r /\ read' = Append(read, r)
    /\ UNCHANGED <<script, stage, section, parser, parsed, dropped>>

CloseGso ==
    /\ stage = "sections" /\ (ClosesGso \/ (Ended /\ parser.tables = <<>> /\ parser.gso.open))
    /\ parser' = GsoClosed(parser)
    /\ dropped' = dropped \o TextsOfLine(parser.gso)
    /\ UNCHANGED <<script, stage, section, read, rec, parsed>>

PopContainer ==
    /\ stage = "sections" /\ ~ClosesGso /\ PopsContainer
    /\ parser' = [parser EXCEPT !.containers = Front(@)]
    /\ UNCHANGED <<script, stage, section, read, rec, parsed, dropped>>

\* What was put into a table before its first cell comes with that cell, and is
\* lost when there is none.
CloseTable ==
    /\ stage = "sections" /\ ~ClosesGso /\ ~PopsContainer /\ ClosesTable
    /\ parser' = TableClosed(parser)
    /\ dropped' = dropped \o IF Top(parser).inCell THEN <<>> ELSE Top(parser).blocks
    /\ UNCHANGED <<script, stage, section, read, rec, parsed>>

\* The record is handled once it has closed what it closes.
Handles(tag) ==
    /\ stage = "sections" /\ rec.tag = tag
    /\ ~ClosesGso /\ ~PopsContainer /\ ~ClosesTable
    /\ rec' = Waiting
    /\ UNCHANGED <<script, stage, section, read, parsed>>

-----------------------------------------------------------------------------
(* Control headers *)

GsoHeader ==
    /\ Handles("gso")
    /\ LET p == IF parser.gso.open THEN GsoClosed(parser) ELSE parser
       IN parser' = [p EXCEPT !.gso = [NoGso EXCEPT !.open = TRUE, !.level = rec.level, !.box = rec.box,
                                           !.id = Len(read), !.parent = Parent(p, rec.level)]]
    /\ dropped' = dropped \o TextsOfLine(parser.gso)

\* A shape at the level of the open object closes it; one inside a group starts
\* the next object of that group; any other one says what the open object is.
ShapeHeader ==
    /\ Handles("shape")
    /\ LET g == parser.gso
           closes == g.open /\ rec.level <= g.level
           p == IF closes THEN GsoClosed(parser)
                ELSE IF g.open /\ g.shape = "group" THEN ContainerKept(parser, rec.level) ELSE parser
           h == IF p.gso.open THEN p.gso
                ELSE [NoGso EXCEPT !.open = TRUE, !.level = rec.level, !.parent = Parent(p, rec.level)]
       IN /\ parser' = [p EXCEPT !.gso = [h EXCEPT !.box = @ \/ rec.box, !.shape = rec.shape,
                                                   !.id = Len(read)]]
          /\ dropped' = dropped \o IF closes THEN TextsOfLine(g) ELSE <<>>

TableHeader ==
    /\ Handles("table")
    /\ parser' = [parser EXCEPT !.tables = Append(@, NewTable(rec.level))]
    /\ UNCHANGED dropped

OtherControl == Handles("control") /\ UNCHANGED <<parser, dropped>>

-----------------------------------------------------------------------------
(* Records of tables *)

OfTopTable == parser.tables # <<>> /\ rec.level = Top(parser).level + 1

TableBody ==
    /\ Handles("body")
    /\ parser' = IF OfTopTable
                 THEN [parser EXCEPT !.tables[Len(parser.tables)] =
                          [@ EXCEPT !.rowCount = rec.rows, !.columnCount = rec.columns]]
                 ELSE parser
    /\ UNCHANGED dropped

\* _is_valid_table_cell_header
InCounts(t) ==
    /\ rec.spans[1] >= 1 /\ rec.spans[2] >= 1
    /\ t.rowCount > 0 => rec.at[1] + rec.spans[1] <= t.rowCount
    /\ t.columnCount > 0 => rec.at[2] + rec.spans[2] <= t.columnCount

RowEnded(t) == [t EXCEPT !.rows = Append(@, t.row), !.row = <<>>]

CellHeader ==
    /\ Handles("cell")
    /\ LET t == Top(parser)
           closed == CellClosed(t)
           next == IF t.inCell /\ rec.at[1] # t.at[1] THEN RowEnded(closed) ELSE closed
       IN parser' = IF OfTopTable /\ InCounts(Top(parser))
                    THEN [parser EXCEPT !.tables[Len(parser.tables)] =
                             [next EXCEPT !.at = rec.at, !.spans = rec.spans, !.inCell = TRUE]]
                    ELSE parser
    /\ UNCHANGED dropped

-----------------------------------------------------------------------------
(* Pictures, shapes and texts *)

\* _image_child_from_picture: the stream of the storage the id has in DocInfo,
\* else the stream that has the id itself.
StreamOf(data) ==
    LET storage == IF data \in DOMAIN Storage THEN Storage[data] ELSE data
    IN IF storage \in Streams THEN storage ELSE IF data \in Streams THEN data ELSE 0

\* Bug variant: every section numbers its assets from 1.
NextAssetOfSection == Len(parser.assets) + 1
NextAsset == Len(parsed.assets) + Len(parser.assets) + 1

\* The picture ends the object, whose texts are not looked at.
Picture ==
    /\ Handles("picture")
    /\ LET stream == StreamOf(rec.data)
           found == [Placed(parser, [kind |-> "image", asset |-> NextAsset, stream |-> stream])
                        EXCEPT !.assets = Append(@, [id |-> NextAsset, stream |-> stream])]
       IN parser' = IF ~parser.gso.open THEN parser
                    ELSE IF stream = 0 THEN [parser EXCEPT !.missing = @ + 1, !.gso = NoGso]
                    ELSE [found EXCEPT !.gso = NoGso]
    /\ dropped' = Append(dropped, Text(parser.gso.texts))

Component ==
    /\ Handles("component")
    /\ parser' = IF parser.gso.open /\ rec.shape # "unknown"
                 THEN [parser EXCEPT !.gso.shape = rec.shape] ELSE parser
    /\ UNCHANGED dropped

\* A text is known by the record it came with, and whether it is long.
ParaText ==
    /\ Handles("text")
    /\ LET t == [at |-> Len(read), size |-> rec.size]
       IN parser' = IF parser.gso.open THEN [parser EXCEPT !.gso.texts = Append(@, t)]
                    ELSE Placed(parser, Text(<<t>>))
    /\ UNCHANGED dropped

OtherRecord == Handles("other") /\ UNCHANGED <<parser, dropped>>

-----------------------------------------------------------------------------
EndRecords ==
    /\ stage = "sections" /\ rec = Waiting
    /\ rec' = EndOfSection
    /\ UNCHANGED <<script, stage, section, read, parser, parsed, dropped>>

\* ParsedBlocks.extend, and the next section, or the document.
EndSection ==
    /\ stage = "sections" /\ Ended /\ parser.tables = <<>> /\ ~parser.gso.open
    /\ parsed' = [blocks |-> parsed.blocks \o parser.blocks, assets |-> parsed.assets \o parser.assets,
                  missing |-> parsed.missing + parser.missing]
    /\ parser' = NewParser /\ rec' = Waiting
    /\ IF section = Sections THEN stage' = "layout" /\ UNCHANGED section
                             ELSE section' = section + 1 /\ UNCHANGED stage
    /\ UNCHANGED <<script, read, dropped>>

SectionNext ==
    \/ ReadRecord \/ CloseGso \/ PopContainer \/ CloseTable
    \/ GsoHeader \/ ShapeHeader \/ TableHeader \/ OtherControl \/ TableBody \/ CellHeader
    \/ Picture \/ Component \/ ParaText \/ OtherRecord \/ EndRecords \/ EndSection

=============================================================================
