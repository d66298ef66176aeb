---------------------------- MODULE Hwp5Document ----------------------------
(***************************************************************************)
(* What Hwp5Backend makes of the blocks its sections were parsed into:     *)
(* tables that only lay out other tables are replaced by what they hold,   *)
(* drawings near each other become one diagram, every block that has       *)
(* something to show becomes an evidence unit, and each image asset is     *)
(* offered to the OCR function, which may fail or answer anything.         *)
(***************************************************************************)
EXTENDS Hwp5Section

CONSTANTS
    ShortText,      \* a body text that is not longer may be part of a diagram
    MaxGap,         \* as many short texts may lie between its drawings,
    MaxPrefix       \* and as many before the first one

VARIABLES
    blocks,         \* the blocks still to go through, from the front
    result,         \* the blocks that the stage has put out
    units,          \* the units of the document
    asset,          \* the number of the asset that is recognized next
    warnings        \* the assets a warning was given for

allVars == <<vars, blocks, result, units, asset, warnings>>

Unit(type, ts, is) == [id |-> Len(units) + 1, type |-> type, texts |-> ts, images |-> is]

RECURSIVE TextsOf(_)
CellTexts(cells) ==
    FlattenSeq([i \in DOMAIN cells |-> FlattenSeq([j \in DOMAIN cells[i].blocks |->
                                           TextsOf(cells[i].blocks[j])])])
\* The texts a block shows: of a table those of its header and data rows.
TextsOf(b) ==
    CASE b.kind \in {"text", "drawing", "diagram"} -> b.texts
      [] b.kind = "table" ->
           LET shown == StructuredTable(b.rows, b.rowCount, b.columnCount)
           IN CellTexts(FlattenSeq(shown.headers \o shown.rows))
      [] OTHER -> <<>>

DocumentInit == Init /\ blocks = <<>> /\ result = <<>> /\ units = <<>> /\ asset = 1 /\ warnings = {}

ReadSections ==
    /\ SectionNext
    /\ blocks' = IF stage' = "layout" THEN parsed'.blocks ELSE blocks
    /\ UNCHANGED <<result, units, asset, warnings>>

RECURSIVE ImagesOf(_)
\* The images a block refers to, in its cells too.
ImagesOf(b) ==
    CASE b.kind = "image" -> <<b>>
      [] b.kind = "table" ->
           LET cells == FlattenSeq(b.rows)
           IN FlattenSeq([i \in DOMAIN cells |-> FlattenSeq([j \in DOMAIN cells[i].blocks |->
                                                     ImagesOf(cells[i].blocks[j])])])
      [] OTHER -> <<>>

-----------------------------------------------------------------------------
(* expand_layout_tables *)

\* A table of one cell, in which another table lies.
IsLayoutWrapper(b) ==
    /\ b.rowCount \in {NoCount, 1} /\ b.columnCount \in {NoCount, 1}
    /\ Len(b.rows) = 1 /\ Len(b.rows[1]) = 1
    /\ LET cell == b.rows[1][1]
       IN /\ cell.row = 0 /\ cell.col = 0 /\ cell.rowspan = 1 /\ cell.colspan = 1
          /\ \E i \in DOMAIN cell.blocks : cell.blocks[i].kind = "table"

ExpandBlock ==
    /\ stage = "layout" /\ blocks # <<>>
    /\ LET b == Head(blocks) IN
       IF b.kind = "table" /\ IsLayoutWrapper(b)
       THEN blocks' = b.rows[1][1].blocks \o Tail(blocks) /\ UNCHANGED result
       ELSE /\ blocks' = Tail(blocks)
            /\ result' = Append(result, IF b.kind = "table"
                                        THEN AsBlock(b.rows, b.rowCount, b.columnCount) ELSE b)
    /\ UNCHANGED <<vars, units, asset, warnings>>

\* The next stage starts with what this one has put out.
StageEnds(from, to) ==
    /\ stage = from /\ blocks = <<>>
    /\ stage' = to /\ blocks' = result /\ result' = <<>>
    /\ UNCHANGED <<script, section, read, rec, parser, parsed, dropped, units, asset, warnings>>

Expanded == StageEnds("layout", "drawings")

-----------------------------------------------------------------------------
(* _coalesce_drawing_text_blocks *)

IsPart(b) == b.kind \in {"drawing", "line"}
Size(ts) == FoldLeft(LAMBDA n, t : n + t.size, 0, ts)
IsShort(b) == b.kind = "text" /\ b.texts # <<>> /\ Size(b.texts) <= ShortText

\* The last drawing or line that is reached from the first block over short
\* texts, no more than MaxGap of them at a time.
ClusterEnd ==
    Max({k \in DOMAIN blocks :
            /\ IsPart(blocks[k])
            /\ \A m \in 2..k : \/ IsPart(blocks[m])
                               \/ IsShort(blocks[m]) /\ \E d \in 1 .. m - 1 :
                                      d >= m - MaxGap /\ IsPart(blocks[d])})

\* Bug variant: the texts between the drawings are not taken along.
TextsInOnly(bs) == LET ds == SelectSeq(bs, LAMBDA b : b.kind = "drawing")
                   IN FlattenSeq([i \in DOMAIN ds |-> ds[i].texts])
TextsIn(bs) == LET ts == SelectSeq(bs, LAMBDA b : b.kind \in {"drawing", "text"})
               IN FlattenSeq([i \in DOMAIN ts |-> ts[i].texts])

\* How many short texts before the cluster go into its diagram.
PrefixLength ==
    Max({k \in 0..MaxPrefix : k <= Len(result) /\ \A i \in 1..k : IsShort(result[Len(result) - i + 1])})

CoalesceBlock ==
    /\ stage = "drawings" /\ blocks # <<>>
    /\ LET b == Head(blocks)
           cluster == SubSeq(blocks, 1, ClusterEnd)
           shown == Len(SelectSeq(cluster, LAMBDA x : x.kind = "drawing" /\ x.texts # <<>>))
           lines == \E i \in DOMAIN cluster : cluster[i].kind = "line"
           before == Len(result) - PrefixLength
       IN IF b.kind # "drawing" THEN blocks' = Tail(blocks) /\ result' = Append(result, b)
          ELSE IF shown < 2 /\ ~lines
          THEN blocks' = Tail(blocks) /\ result' = Append(result, Text(b.texts))
          ELSE /\ blocks' = SubSeq(blocks, Len(cluster) + 1, Len(blocks))
               /\ result' = Append(SubSeq(result, 1, before),
                      Diagram(TextsIn(SubSeq(result, before + 1, Len(result)) \o cluster), lines))
    /\ UNCHANGED <<vars, units, asset, warnings>>

Coalesced == StageEnds("drawings", "units")

-----------------------------------------------------------------------------
(* _to_document *)

\* A text or diagram without text, a stray line and an empty table are no units;
\* shapes without text make a unit when a line joins them.
Shows(b) ==
    CASE b.kind = "text" -> {b.texts # <<>>}
      [] b.kind = "diagram" -> IF b.texts # <<>> THEN {TRUE} ELSE IF b.lines THEN BOOLEAN ELSE {FALSE}
      [] b.kind = "table" -> {TableHasContent(b.rows)}
      [] OTHER -> {b.kind = "image"}

EmitBlock ==
    /\ stage = "units" /\ blocks # <<>>
    /\ LET b == Head(blocks)
       IN \E shows \in Shows(b) : units' =
              IF shows THEN Append(units, Unit(b.kind, TextsOf(b), ImagesOf(b)))
                       ELSE units
    /\ blocks' = Tail(blocks)
    /\ UNCHANGED <<vars, result, asset, warnings>>

Emitted == StageEnds("units", "ocr")

-----------------------------------------------------------------------------
(* _apply_ocr_fallback *)

Natives == {i \in DOMAIN units : units[i].type \notin {"image", "ocr"} /\ units[i].texts # <<>>}

\* The function raises, finds nothing, is not sure, or reads a text: one that a
\* unit of the document shows, or another.
RecognizeAsset ==
    /\ stage = "ocr" /\ asset <= Len(parsed.assets)
    /\ asset' = asset + 1
    /\ \/ \E failed \in {"raises", "no_text", "uncertain", "blank"} :
              warnings' = warnings \cup {asset} /\ UNCHANGED units
       \/ Natives # {} /\ UNCHANGED <<units, warnings>>
       \/ units' = Append(units, Unit("ocr", <<>>, <<>>)) /\ UNCHANGED warnings
    /\ UNCHANGED <<vars, blocks, result>>

Finish ==
    /\ stage = "ocr" /\ asset > Len(parsed.assets)
    /\ stage' = "done"
    /\ UNCHANGED <<script, section, read, rec, parser, parsed, dropped, blocks, result, units, asset, warnings>>

DocumentNext ==
    \/ ReadSections \/ ExpandBlock \/ Expanded \/ CoalesceBlock \/ Coalesced
    \/ EmitBlock \/ Emitted \/ RecognizeAsset \/ Finish

-----------------------------------------------------------------------------
(* Properties *)

Times(x, s) == Len(SelectSeq(s, LAMBDA y : y = x))
InUnits == FlattenSeq([i \in DOMAIN units |-> units[i].texts])
InBlocks(bs) == FlattenSeq([i \in DOMAIN bs |-> TextsOf(bs[i])])
TextsRead == {[at |-> i, size |-> read[i].size] : i \in {i \in DOMAIN read : read[i].tag = "text"}}

\* Once the sections are parsed, every text that was read is in one place, and
\* stays in one while tables are unwrapped, drawings are joined and units are
\* made: no text is lost in a table, a cell, a drawing or the gap between two
\* drawings, and none is shown twice. What is not placed was in a picture or
\* line, or in a table without cells (_parse_section, expand_layout_tables,
\* _coalesce_drawing_text_blocks, _to_document).
TextsPlaced ==
    stage # "sections" =>
        LET all == InUnits \o InBlocks(result \o blocks \o dropped)
        IN \A t \in TextsRead : Times(t, all) = 1

\* Every image of the document is an asset of its own with the stream its
\* picture named, over all sections and however deep in tables, and no asset is
\* without an image (_image_child_from_picture, Hwp5Backend.parse).
ImagesRight ==
    stage = "ocr" =>
        LET images == FlattenSeq([i \in DOMAIN units |-> units[i].images])
                          \o FlattenSeq([i \in DOMAIN dropped |-> ImagesOf(dropped[i])])
            assets == parsed.assets
        IN /\ \A i, j \in DOMAIN images : i # j => images[i].asset # images[j].asset
           /\ {[id |-> images[i].asset, stream |-> images[i].stream] : i \in DOMAIN images} = ToSet(assets)
           /\ Cardinality({assets[i].id : i \in DOMAIN assets}) = Len(assets)

\* The parent of a drawing is a group that is still open where the drawing
\* starts: some record at or before the group encloses all up to the drawing,
\* but for headers of tables and other controls, which do not end an object
\* (gso_parent_metadata, the containers popped by _parse_section).
ParentsEnclose ==
    \A i \in DOMAIN parser.blocks : LET d == parser.blocks[i] IN
        d.kind = "drawing" /\ d.parent # 0 =>
            \E s \in 1 .. d.parent : \A k \in s + 1 .. d.id :
                read[k].tag \in {"table", "control"} \/ read[k].level > read[s].level

=============================================================================
