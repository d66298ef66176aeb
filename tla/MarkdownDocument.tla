-------------------------- MODULE MarkdownDocument --------------------------
(***************************************************************************)
(* The Markdown backend: lines are collected into paragraphs and tables,   *)
(* which are flushed as units by the line that ends them, or at the end.   *)
(* A line is a "heading", one without a text ("untitled"), a "row" of a    *)
(* table, a "text" or "blank".                                             *)
(***************************************************************************)
EXTENDS Integers, Sequences, SequencesExt, FiniteSetsExt

CONSTANT
    Texts           \* files: sequences of kinds of lines

VARIABLES
    lines,
    at,             \* the next line
    paragraph,      \* the lines collected, by their numbers
    table,
    heading,        \* the heading in effect, 0 before the first
    units

vars == <<lines, at, paragraph, table, heading, units>>

Init ==
    /\ lines \in Texts /\ at = 1
    /\ paragraph = <<>> /\ table = <<>> /\ heading = 0 /\ units = <<>>

\* table_parts: the first line names the columns, the second is the separator; of
\* two lines or one nothing is shown.
ShownRows(ls) == IF Len(ls) < 3 THEN <<>> ELSE RemoveAt(ls, 2)

ParagraphUnit == [shows |-> paragraph, heading |-> heading]
TableUnit == [shows |-> ShownRows(table), heading |-> heading]
WithParagraph(us) == IF paragraph = <<>> THEN us ELSE Append(us, ParagraphUnit)
WithTable(us) == IF table = <<>> THEN us ELSE Append(us, TableUnit)

Reads(kind) == at \in DOMAIN lines /\ lines[at] = kind /\ at' = at + 1 /\ UNCHANGED lines

\* What a heading ends stands under the heading before it.
Heading ==
    /\ Reads("heading") \/ Reads("untitled")
    /\ units' = WithTable(WithParagraph(units))
    /\ table' = <<>> /\ paragraph' = <<>>
    /\ heading' = IF lines[at] = "heading" THEN at ELSE heading

Row ==
    /\ Reads("row")
    /\ units' = WithParagraph(units) /\ paragraph' = <<>>
    /\ table' = Append(table, at)
    /\ UNCHANGED heading

Text ==
    /\ Reads("text")
    /\ units' = WithTable(units) /\ table' = <<>>
    /\ paragraph' = Append(paragraph, at)
    /\ UNCHANGED heading

Blank ==
    /\ Reads("blank")
    /\ units' = WithParagraph(WithTable(units))
    /\ table' = <<>> /\ paragraph' = <<>>
    /\ UNCHANGED heading

End ==
    /\ at = Len(lines) + 1 /\ at' = at + 1
    /\ units' = WithTable(WithParagraph(units))
    /\ table' = <<>> /\ paragraph' = <<>>
    /\ UNCHANGED <<lines, heading>>

Next == Heading \/ Row \/ Text \/ Blank \/ End

-----------------------------------------------------------------------------
(* Properties *)

\* The longest runs of lines of one kind, from the first to the last.
Runs(kind) ==
    {r \in (DOMAIN lines) \X (DOMAIN lines) :
        /\ \A i \in r[1] - 1 .. r[2] + 1 : i \in DOMAIN lines => (lines[i] = kind <=> i \in r[1]..r[2])
        /\ r[1] <= r[2]}
\* A file shows its texts, and its tables but for their separators; tables
\* without a row below the separator are lost.
Shown == {i \in DOMAIN lines :
             \/ lines[i] = "text"
             \/ \E r \in Runs("row") : i \in r[1]..r[2] /\ r[2] > r[1] + 1 /\ i # r[1] + 1}

\* At the end the units show the lines the file shows, once each and in its order;
\* no two that the file keeps apart are in one unit, no run of lines is in two,
\* and each unit stands under the last heading above it that has a text
\* (_units_from_markdown, flush_paragraph, flush_table, table_parts).
LinesInOrder ==
    at = Len(lines) + 2 =>
        /\ FlattenSeq([u \in DOMAIN units |-> units[u].shows]) = SetToSortSeq(Shown, <)
        /\ \A u \in DOMAIN units : units[u].shows # <<>> =>
               LET ls == ToSet(units[u].shows) IN
               /\ \E kind \in {"text", "row"} : \E r \in Runs(kind) : ls = r[1]..r[2] \cap Shown
               /\ units[u].heading = Max({0} \cup {h \in 1 .. Min(ls) : lines[h] = "heading"})

=============================================================================
