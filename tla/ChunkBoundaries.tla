--------------------------- MODULE ChunkBoundaries ---------------------------
(***************************************************************************)
(* _improve_chunk_boundaries: the passes that redraw the boundaries of the *)
(* planned chunks before the large tables are split.  Every pass walks the *)
(* whole list and hands it to the next:                                    *)
(*                                                                         *)
(*   coalesce  joins runs of short fallback texts under a heading          *)
(*   headings  moves the headings a chunk ends with into the next chunk    *)
(*   rows      joins two chunks that cut a group of table rows             *)
(*   cases     starts a new chunk at every case                            *)
(*   forms     starts a new chunk at every form                            *)
(*   sizes     splits the chunks that hold too many units                  *)
(*                                                                         *)
(* What the passes read of a unit (does it look like a heading, a case, a  *)
(* form) is given with the document.                                       *)
(***************************************************************************)
EXTENDS Integers, Sequences, FiniteSets, SequencesExt

CONSTANTS
    Documents,     \* the sequences of units that may be given
    MaxUnits,      \* max_units_per_chunk
    Target         \* target_tokens_per_chunk

ASSUME LimitAssumption == MaxUnits \in Nat \ {0} /\ Target \in Nat \ {0}

\* A unit.  The rows of a table are numbered from 1, and only a unit of type
\* text can look like a heading.
UnitShape ==
    [text : BOOLEAN, heading : BOOLEAN, case : BOOLEAN, form : BOOLEAN, body : BOOLEAN,
     ends : BOOLEAN, opens : BOOLEAN, section : Nat, tokens : Nat,
     rows : Seq(Nat \ {0}), groups : SUBSET SUBSET Nat, heavy : SUBSET Nat]
ASSUME DocumentsAssumption ==
    \A d \in Documents : /\ d \in Seq(UnitShape) /\ d # <<>>
                         /\ \A u \in DOMAIN d : d[u].heading => d[u].rows = <<>>

Passes == <<"coalesce", "headings", "rows", "cases", "forms", "sizes", "done">>

VARIABLES
    doc,       \* the document
    start,     \* the chunks that planning and joining made of it
    pass,      \* the pass under way
    todo,      \* the chunks the pass still has to visit
    run,       \* short fallback texts that wait to be joined
    result     \* the chunks the pass has made

vars == <<doc, start, pass, todo, run, result>>
List == result \o run \o todo

-----------------------------------------------------------------------------
(* Evidence.  An item is a unit, or rows of one; rows is a sequence.       *)

Shape(item) == doc[item.unit]
Keys(item) == IF item.rows = <<>> THEN << <<item.unit, 0>> >>
              ELSE [i \in DOMAIN item.rows |-> <<item.unit, item.rows[i]>>]
KeysOf(held) == FlattenSeq([i \in DOMAIN held |-> Keys(held[i])])
AllKeys(cs) == FlattenSeq([i \in DOMAIN cs |-> KeysOf(cs[i].items)])
UnitsOf(held) == {held[i].unit : i \in DOMAIN held}
TooMany(held) == Cardinality(UnitsOf(held)) > MaxUnits

\* The tokens of a chunk's text, as the sum over its items.
Tokens(held) == FoldLeft(LAMBDA n, item : n + Shape(item).tokens, 0, held)

\* A chunk: its items, the evidence its summary was written for, the planned
\* chunks whose warnings it carries, whether it carries a warning of its size,
\* whether it stands for a planner failure, and whether it is to be enriched.
PlannedChunk(n, held, fallback) ==
    [items |-> held, wrote |-> KeysOf(held), notes |-> {n}, oversize |-> TooMany(held),
     fallback |-> fallback, flagged |-> fallback]

\* Bug variant: the flag follows the text fields alone.
RebuiltFlaggedByText(c, held, regenerate) ==
    [c EXCEPT !.items = held,
              !.wrote = IF regenerate THEN KeysOf(held) ELSE @,
              !.oversize = TooMany(held),
              !.flagged = @ \/ regenerate]

\* _rebuild_chunk_from_items
Rebuilt(c, held, regenerate) ==
    [c EXCEPT !.items = held,
              !.wrote = IF regenerate THEN KeysOf(held) ELSE @,
              !.oversize = TooMany(held),
              !.flagged = @ \/ regenerate \/ UnitsOf(held) # UnitsOf(c.items)]

\* _merge_adjacent_chunks, with a summary made from both texts.
Merged(c, d) ==
    LET held == c.items \o d.items
    IN  [items |-> held, wrote |-> KeysOf(held), notes |-> c.notes \cup d.notes,
         oversize |-> c.oversize \/ d.oversize \/ TooMany(held),
         fallback |-> c.fallback \/ d.fallback, flagged |-> c.flagged \/ d.flagged]

\* _different_sections; section 0 stands for none.
DifferentSections(l, r) ==
    /\ Shape(l).section # 0 /\ Shape(r).section # 0
    /\ Shape(l).section # Shape(r).section

-----------------------------------------------------------------------------
(* What planning and joining may hand over: the evidence in order, cut into  *)
(* items and chunks. A planner failure and a repaired plan make chunks of    *)
(* one item, which say so; merged over a seam with another chunk, within the *)
(* limit on units, the larger chunk says so.                                 *)

RowKeys(d, u) == IF d[u].rows = <<>> THEN << <<u, 0>> >>
                 ELSE [i \in DOMAIN d[u].rows |-> <<u, d[u].rows[i]>>]
DocKeys(d) == FlattenSeq([u \in DOMAIN d |-> RowKeys(d, u)])

\* The pieces of a sequence that is cut before the positions in cuts.
Pieces(s, cuts) ==
    LET Put(ps, i) == IF ps = <<>> \/ i \in cuts THEN Append(ps, <<s[i]>>)
                      ELSE Append(Front(ps), Append(Last(ps), s[i]))
    IN  FoldLeftDomain(Put, <<>>, s)

ItemOf(keys) ==
    [unit |-> keys[1][1],
     rows |-> IF keys[1][2] = 0 THEN <<>> ELSE [i \in DOMAIN keys |-> keys[i][2]]]

\* The ways to cut a document into items, and a sequence of items into chunks.
ItemCuts(d) ==
    LET keys == DocKeys(d)
        units == {i \in 2..Len(keys) : keys[i][1] # keys[i - 1][1]}
        Items(cut) == [i \in DOMAIN cut |-> ItemOf(cut[i])]
    IN  {Items(Pieces(keys, units \cup more)) : more \in SUBSET (2..Len(keys))}

ChunkCuts(held) == {Pieces(held, cuts) : cuts \in SUBSET (2..Len(held))}
Init ==
    /\ doc \in Documents
    /\ \E parts \in UNION {ChunkCuts(held) : held \in ItemCuts(doc)} :
        \E failed \in SUBSET {i \in DOMAIN parts : ~TooMany(parts[i])} :
            start = [i \in DOMAIN parts |-> PlannedChunk(i, parts[i], i \in failed)]
    /\ pass = "coalesce"
    /\ todo = start
    /\ run = <<>>
    /\ result = <<>>

NextPass == Passes[SelectInSeq(Passes, LAMBDA p : p = pass) + 1]

-----------------------------------------------------------------------------
(* _coalesce_fallback_text_fragments *)

RunHasHeading == \E i \in DOMAIN run : \E j \in DOMAIN run[i].items : Shape(run[i].items[j]).heading

\* The first item of the next chunk ends the run.
Separates(item) ==
    /\ run # <<>>
    /\ \/ DifferentSections(Last(Last(run).items), item)
       \/ Shape(item).case
       \/ Shape(item).form
       \/ Shape(item).heading /\ RunHasHeading

ShortText(c) ==
    /\ c.fallback
    /\ \A i \in DOMAIN c.items : Shape(c.items[i]).text
    /\ 4 * Tokens(c.items) <= Target

\* flush: without a heading the run stays as it is.
Flushed ==
    LET Join(cs, c) ==
            IF cs = <<>> THEN <<c>>
            ELSE LET held == Last(cs).items \o c.items
                 IN  IF TooMany(held) \/ Tokens(held) > Target THEN Append(cs, c)
                     ELSE Append(Front(cs), Merged(Last(cs), c))
    IN  IF RunHasHeading THEN FoldLeft(Join, <<>>, run) ELSE run

Coalesce ==
    /\ pass = "coalesce" /\ todo # <<>>
    /\ LET c == Head(todo)
           flush == Separates(c.items[1])
       IN  IF ShortText(c)
           THEN /\ result' = IF flush THEN result \o Flushed ELSE result
                /\ run' = IF flush THEN <<c>> ELSE Append(run, c)
           ELSE /\ result' = Append(result \o Flushed, c)
                /\ run' = <<>>
    /\ todo' = Tail(todo)
    /\ UNCHANGED <<doc, start, pass>>

EndCoalesce ==
    /\ pass = "coalesce" /\ todo = <<>>
    /\ pass' = NextPass
    /\ todo' = result \o Flushed
    /\ run' = <<>>
    /\ result' = <<>>
    /\ UNCHANGED <<doc, start>>

-----------------------------------------------------------------------------
(* _move_trailing_heading_units_forward *)

\* How many items at the end of l are headings that belong to what r starts with.
Trailing(l, r) ==
    LET Stays(i) == ~Shape(l.items[i]).heading \/ DifferentSections(l.items[i], r.items[1])
        last == {i \in DOMAIN l.items : Stays(i)}
    IN  IF last = {} THEN Len(l.items)
        ELSE Len(l.items) - (CHOOSE i \in last : \A j \in last : j <= i)

\* Bug variant: the chunk that loses all its evidence takes its warnings along.
MoveHeadingsBareNotes ==
    /\ pass = "headings" /\ Len(todo) >= 2
    /\ LET l == todo[1]
           r == todo[2]
           n == Trailing(l, r)
           left == SubSeq(l.items, 1, Len(l.items) - n)
           moved == Rebuilt(r, SubSeq(l.items, Len(left) + 1, Len(l.items)) \o r.items, FALSE)
       IN  /\ n > 0
           /\ todo' = <<moved>> \o SubSeq(todo, 3, Len(todo))
           /\ result' = IF left = <<>> THEN result ELSE Append(result, Rebuilt(l, left, FALSE))
    /\ UNCHANGED <<doc, start, pass, run>>

MoveHeadings ==
    /\ pass = "headings" /\ Len(todo) >= 2
    /\ LET l == todo[1]
           r == todo[2]
           n == Trailing(l, r)
           left == SubSeq(l.items, 1, Len(l.items) - n)
           moved == Rebuilt(r, SubSeq(l.items, Len(left) + 1, Len(l.items)) \o r.items, FALSE)
       IN  /\ n > 0
           /\ todo' = <<[moved EXCEPT !.notes = @ \cup l.notes, !.oversize = @ \/ l.oversize]>>
                          \o SubSeq(todo, 3, Len(todo))
           /\ result' = IF left = <<>> THEN result ELSE Append(result, Rebuilt(l, left, FALSE))
    /\ UNCHANGED <<doc, start, pass, run>>

KeepHeadings ==
    /\ pass = "headings" /\ todo # <<>>
    /\ Len(todo) >= 2 => Trailing(todo[1], todo[2]) = 0
    /\ todo' = Tail(todo)
    /\ result' = Append(result, Head(todo))
    /\ UNCHANGED <<doc, start, pass, run>>

-----------------------------------------------------------------------------
(* _join_table_row_boundaries *)

\* The group of rows, joined by rowspans or under a heading band, that both
\* rows of a table are in.
SameGroup(u, r, s) == \E g \in doc[u].groups : r \in g /\ s \in g

Cuts(l, r) ==
    LET tail == Last(l.items)
        head == r.items[1]
    IN  /\ tail.unit = head.unit
        /\ tail.rows # <<>> /\ head.rows # <<>>
        /\ SameGroup(tail.unit, Last(tail.rows), head.rows[1])

\* Bug variant: a group is joined across one boundary only.
MayJoinOnce(l, r) ==
    /\ Cuts(l, r)
    /\ ~l.fallback /\ ~r.fallback
    /\ Len(Last(l.items).rows) = 1
    /\ ~TooMany(l.items \o r.items)
    /\ Last(Last(l.items).rows) \notin doc[Last(l.items).unit].heavy

\* The rows in heavy are in groups that are over the token limit by themselves.
MayJoin(l, r) ==
    /\ Cuts(l, r)
    /\ ~l.fallback /\ ~r.fallback
    /\ ~TooMany(l.items \o r.items)
    /\ Last(Last(l.items).rows) \notin doc[Last(l.items).unit].heavy

Joined(l, r) ==
    LET both == [Last(l.items) EXCEPT !.rows = @ \o r.items[1].rows]
    IN  Rebuilt(Merged(l, r), Append(Front(l.items), both) \o Tail(r.items), TRUE)

JoinRows ==
    /\ pass = "rows" /\ todo # <<>>
    /\ result' = IF result # <<>> /\ MayJoin(Last(result), Head(todo))
                 THEN Append(Front(result), Joined(Last(result), Head(todo)))
                 ELSE Append(result, Head(todo))
    /\ todo' = Tail(todo)
    /\ UNCHANGED <<doc, start, pass, run>>

-----------------------------------------------------------------------------
(* The passes that split *)

HasBody(held) == \E i \in DOMAIN held : Shape(held[i]).body

\* _split_case_boundary_groups, _split_form_item_groups and
\* _evidence_item_groups_by_max_units close the group held before item.
CutsBefore(held, item) ==
    CASE pass = "cases" -> Shape(item).case
      [] pass = "forms" -> \/ Shape(item).form /\ HasBody(held)
                           \/ Shape(Last(held)).ends /\ Shape(item).opens
      [] pass = "sizes" -> TooMany(Append(held, item))

Groups(held) ==
    LET Put(gs, item) ==
            IF gs = <<>> THEN << <<item>> >>
            ELSE IF CutsBefore(Last(gs), item) THEN Append(gs, <<item>>)
            ELSE Append(Front(gs), Append(Last(gs), item))
    IN  FoldLeft(Put, <<>>, held)

\* A chunk of one unit is never split, and only a chunk over the limit is
\* split for its size.
MaySplit(c) ==
    IF pass = "sizes" THEN TooMany(c.items) ELSE Cardinality(UnitsOf(c.items)) > 1

Split ==
    /\ pass \in {"cases", "forms", "sizes"} /\ todo # <<>>
    /\ LET c == Head(todo)
           gs == Groups(c.items)
       IN  result' = IF MaySplit(c) /\ Len(gs) > 1
                     THEN result \o [i \in DOMAIN gs |-> Rebuilt(c, gs[i], TRUE)]
                     ELSE Append(result, c)
    /\ todo' = Tail(todo)
    /\ UNCHANGED <<doc, start, pass, run>>

EndPass ==
    /\ pass \notin {"coalesce", "done"} /\ todo = <<>>
    /\ pass' = NextPass
    /\ todo' = result
    /\ result' = <<>>
    /\ UNCHANGED <<doc, start, run>>

Next == Coalesce \/ EndCoalesce \/ MoveHeadings \/ KeepHeadings \/ JoinRows \/ Split \/ EndPass

Spec == Init /\ [][Next]_vars

-----------------------------------------------------------------------------
(* Properties *)

ItemType(item) ==
    /\ item.unit \in DOMAIN doc
    /\ ToSet(item.rows) \subseteq ToSet(doc[item.unit].rows)

ChunkType(c) ==
    /\ c.items # <<>>
    /\ \A i \in DOMAIN c.items : ItemType(c.items[i])
    /\ ToSet(c.wrote) \subseteq ToSet(DocKeys(doc))
    /\ c.notes \subseteq DOMAIN start
    /\ {c.oversize, c.fallback, c.flagged} \subseteq BOOLEAN

\* No pass makes a chunk without evidence or with evidence from nowhere.
TypeOK ==
    /\ pass \in ToSet(Passes)
    /\ \A i \in DOMAIN List : ChunkType(List[i])
    /\ run # <<>> => pass = "coalesce"

Between(p) == pass = p /\ result = <<>>
Behind(p) == SelectInSeq(Passes, LAMBDA q : q = p) < SelectInSeq(Passes, LAMBDA q : q = pass)

\* At every point of every pass the list holds the evidence of the document
\* once, in order: nothing that is moved, joined or split is lost on the way.
EvidenceKept == TypeOK /\ AllKeys(List) = DocKeys(doc)

\* "Moving the last evidence out of a chunk must not erase its repairs": the
\* warnings of every planned chunk are still on a chunk that holds some of the
\* evidence they are about.
NotesKept ==
    \A n \in DOMAIN start : \E i \in DOMAIN List :
        /\ n \in List[i].notes
        /\ ToSet(KeysOf(List[i].items)) \cap ToSet(KeysOf(start[n].items)) # {}

\* Nothing is lost on the way, of the evidence or of what was said of it.
EvidenceAndNotesKept == EvidenceKept /\ NotesKept

\* A chunk whose summary was written for other evidence is to be enriched.
StaleTextFlagged ==
    \A i \in DOMAIN List : List[i].wrote # KeysOf(List[i].items) => List[i].flagged

\* A chunk over the limit on units carries a warning of it, at every point.
OversizeReported == \A i \in DOMAIN List : TooMany(List[i].items) => List[i].oversize

\* In the end no chunk is over the limit, although moved headings and the
\* planner may have put it there.
SizesFit == pass = "done" => \A i \in DOMAIN List : ~TooMany(List[i].items)

\* The passes bring no two sections together: neighbours of different sections
\* in a chunk were in one chunk when planning ended.
SectionsApart ==
    \A i \in DOMAIN List : \A j \in 2..Len(List[i].items) :
        DifferentSections(List[i].items[j - 1], List[i].items[j]) =>
            \E n \in DOMAIN start :
                {List[i].items[j - 1].unit, List[i].items[j].unit} \subseteq UnitsOf(start[n].items)

\* After the headings pass a chunk ends with a heading only before evidence of
\* another section, the headings in front of that evidence left aside.
Leads(c) == {i \in DOMAIN c.items : \A j \in 1..i - 1 : Shape(c.items[j]).heading}
HeadingsLead ==
    Between("rows") =>
        \A i \in 1..Len(todo) - 1 :
            LET heading == Last(todo[i].items)
            IN  Shape(heading).heading =>
                    \E j \in Leads(todo[i + 1]) :
                        DifferentSections(heading, todo[i + 1].items[j])

\* After the rows pass a group of rows is cut only where it has to be: next to
\* a planner failure, at the limit on units, or when it is too large itself.
RowGroupsWhole ==
    Between("cases") =>
        \A i \in 1..Len(todo) - 1 :
            LET l == todo[i]
                r == todo[i + 1]
            IN  Cuts(l, r) => \/ l.fallback \/ r.fallback
                              \/ TooMany(l.items \o r.items)
                              \/ Last(Last(l.items).rows) \in doc[Last(l.items).unit].heavy

\* In the end no chunk of several units goes on into another case or another
\* form; the parts of one table are never taken apart for what it looks like.
CasesAndFormsApart ==
    \A i \in DOMAIN List : \A j \in 2..Len(List[i].items) :
        LET item == List[i].items[j]
            held == SubSeq(List[i].items, 1, j - 1)
        IN  Cardinality(UnitsOf(List[i].items)) > 1 =>
                /\ Behind("cases") => ~Shape(item).case
                /\ Behind("forms") => /\ ~(Shape(item).form /\ HasBody(held))
                                      /\ ~(Shape(Last(held)).ends /\ Shape(item).opens)

\* What the passes are for (_improve_chunk_boundaries): chunks in the end
\* start and stop where they should, and are of the size they may have.
BoundariesDrawn ==
    /\ OversizeReported /\ SizesFit
    /\ SectionsApart /\ HeadingsLead /\ RowGroupsWhole /\ CasesAndFormsApart

\* What the comment promises, read for the mark that the evidence of a chunk
\* stands for a planner failure (_fallback_reason).
FailuresKept ==
    \A n \in DOMAIN start : start[n].fallback =>
        \E i \in DOMAIN List :
            /\ List[i].fallback
            /\ ToSet(KeysOf(List[i].items)) \cap ToSet(KeysOf(start[n].items)) # {}

=============================================================================
