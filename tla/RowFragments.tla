---------------------------- MODULE RowFragments ----------------------------
(***************************************************************************)
(* How one table row that is over the token maximum is cut into fragments: *)
(* split_oversized_row of table_fragmentation.py. Short cells are repeated *)
(* with every fragment; of the others, one after the other, the text is    *)
(* cut by bisection and the child objects, which stay whole, follow it.    *)
(*                                                                         *)
(* Whether a fragment fits is asked of the tokenizer, of whose counts      *)
(* nothing is assumed, not even that more text has more of them: the first *)
(* answer to a question is free and kept in answers.                       *)
(***************************************************************************)
EXTENDS Integers, Sequences, SequencesExt

CONSTANTS
    RowSet      \* rows: sequences of cells [text: length, children: number]

RowsAssumption == RowSet \subseteq Seq([text : Nat, children : Nat])

VARIABLES
    cells,      \* the row
    repeated,   \* the cells repeated with every fragment
    cell,       \* the cell that is cut
    phase,      \* "text" or "children" of it; "whole" or "split" at the end
    start,      \* where the text that is not cut off yet starts
    low, high, end,   \* the bisection: where to look, and the best end so far
    child,      \* children of the cell before the one looked at
    fragments,  \* what was cut off: [cell, from, to, first, last] text and children
    answers     \* what the tokenizer said of a fragment, by whether it is the first

vars == <<cells, repeated, cell, phase, start, low, high, end, child, fragments, answers>>

Fragment(i, a, b, c, d) == [cell |-> i, from |-> a, to |-> b, first |-> c, last |-> d]

\* The tokenizer, asked whether a fragment fits, as the first or a later one.
Answer(f, leads, yes) == [fragment |-> f, leads |-> leads, yes |-> yes]
Ask(new) ==
    /\ answers' = answers \cup new
    /\ \A a, b \in answers' : (a.fragment = b.fragment /\ a.leads = b.leads) => a = b
Fits(f, leads, yes) == Ask({Answer(f, leads, yes)})

Leads == fragments = <<>>    \* the next fragment is the first

Init ==
    /\ cells \in RowSet
    \* short cells without children, or none when they would take the budget
    /\ repeated \in {R \in SUBSET DOMAIN cells : \A i \in R : cells[i].children = 0}
    /\ cell = 0
    /\ phase = "children"
    /\ start = 0 /\ low = 0 /\ high = 0 /\ end = 0 /\ child = 0
    /\ fragments = <<>>
    /\ answers = {}

NextCell == CHOOSE i \in cell + 1..Len(cells) + 1 :
                /\ i \notin repeated
                /\ cell + 1..i - 1 \subseteq repeated

\* The cell is done: on to the next that is not repeated, or return.
Turn ==
    /\ phase = "children"
    /\ IF cell = 0 THEN TRUE ELSE cell <= Len(cells) /\ child = cells[cell].children
    /\ cell' = NextCell
    /\ phase' = IF NextCell <= Len(cells) THEN "text"
                ELSE IF Len(fragments) <= 1 THEN "whole" ELSE "split"
    /\ start' = 0 /\ low' = 1 /\ end' = 0 /\ child' = 0
    /\ high' = IF NextCell <= Len(cells) THEN cells[NextCell].text ELSE 0
    /\ UNCHANGED <<cells, repeated, fragments, answers>>

\* One step of the bisection keeps the last end that was seen to fit.
Bisect ==
    /\ phase = "text"
    /\ low <= high
    /\ LET middle == (low + high) \div 2
       IN  \E yes \in BOOLEAN :
              /\ Fits(Fragment(cell, start, middle, 0, 0), Leads, yes)
              /\ end' = IF yes THEN middle ELSE end
              /\ low' = IF yes THEN middle + 1 ELSE low
              /\ high' = IF yes THEN high ELSE middle - 1
    /\ UNCHANGED <<cells, repeated, cell, phase, start, child, fragments>>

\* Bug variant: looks on where nothing fits.
GiveUpNever ==
    /\ phase = "text"
    /\ low > high
    /\ start < cells[cell].text
    /\ end = start
    /\ low' = start + 1 /\ high' = cells[cell].text
    /\ UNCHANGED <<cells, repeated, cell, phase, start, end, child, fragments, answers>>

\* Nothing fits: the row is returned as it was.
GiveUp ==
    /\ phase = "text"
    /\ low > high
    /\ start < cells[cell].text
    /\ end = start
    /\ phase' = "whole"
    /\ UNCHANGED <<cells, repeated, cell, start, low, high, end, child, fragments, answers>>

\* Bug variant: the character at a boundary is taken for a separator.
CutDropsSeparator(e) ==
    /\ fragments' = Append(fragments, Fragment(cell, start, e, 0, 0))
    /\ start' = IF e < end THEN e + 1 ELSE e
    /\ low' = start' + 1 /\ high' = cells[cell].text /\ end' = start'

\* The text up to e is cut off.
CutOff(e) ==
    /\ fragments' = Append(fragments, Fragment(cell, start, e, 0, 0))
    /\ start' = e
    /\ low' = e + 1 /\ high' = cells[cell].text /\ end' = e

\* The rest of the text fits.
CutRest ==
    /\ phase = "text"
    /\ low > high
    /\ start < end
    /\ end = cells[cell].text
    /\ CutOff(end)
    /\ UNCHANGED <<cells, repeated, cell, phase, child, answers>>

\* The end moves back to the end of a paragraph, sentence or word in the
\* second half of the piece, if there is one and the shorter piece fits too.
CutNaturally ==
    /\ phase = "text"
    /\ low > high
    /\ start < end
    /\ end < cells[cell].text
    /\ \E boundary \in start + (end - start) \div 2 + 1..end, yes \in BOOLEAN :
          /\ Fits(Fragment(cell, start, boundary, 0, 0), Leads, yes)
          /\ CutOff(IF yes THEN boundary ELSE end)
    /\ UNCHANGED <<cells, repeated, cell, phase, child>>

\* All text is cut off.
EndText ==
    /\ phase = "text"
    /\ start = cells[cell].text
    /\ phase' = "children"
    /\ UNCHANGED <<cells, repeated, cell, start, low, high, end, child, fragments, answers>>

\* The fragment before, with the next child, where that one follows it.
Extended == [Last(fragments) EXCEPT !.last = child + 1]
Extends == /\ fragments # <<>>
           /\ Last(fragments).cell = cell
           /\ Last(fragments).last = child

\* The next child is joined to the fragment before.
JoinChild ==
    /\ phase = "children"
    /\ cell > 0 /\ child < cells[cell].children
    /\ Extends
    /\ Fits(Extended, Len(fragments) = 1, TRUE)
    /\ fragments' = ReplaceAt(fragments, Len(fragments), Extended)
    /\ child' = child + 1
    /\ UNCHANGED <<cells, repeated, cell, phase, start, low, high, end>>

\* The next child is a fragment of its own, or too large for one: then the
\* row is returned as it was.
ChildAlone ==
    /\ phase = "children"
    /\ cell > 0 /\ child < cells[cell].children
    /\ LET own == Fragment(cell, cells[cell].text, cells[cell].text, child, child + 1)
           refused == IF Extends THEN {Answer(Extended, Len(fragments) = 1, FALSE)} ELSE {}
       IN  \/ /\ Ask(refused \cup {Answer(own, Leads, TRUE)})
              /\ fragments' = Append(fragments, own)
              /\ child' = child + 1
              /\ UNCHANGED phase
           \/ /\ Ask(refused \cup {Answer(own, Leads, FALSE)})
              /\ phase' = "whole"
              /\ UNCHANGED <<fragments, child>>
    /\ UNCHANGED <<cells, repeated, cell, start, low, high, end>>

Next ==
    \/ Turn \/ Bisect \/ GiveUp \/ CutRest \/ CutNaturally \/ EndText
    \/ JoinChild \/ ChildAlone

Spec == Init /\ [][Next]_vars
FairSpec == Spec /\ WF_vars(Next)    \* one thread that calls nothing that waits

-----------------------------------------------------------------------------
(* Properties.                                                             *)

\* The type of the state, and where the cut stands in the cell.
TypeOK ==
    /\ cells \in RowSet
    /\ repeated \subseteq DOMAIN cells
    /\ cell \in 0..Len(cells) + 1
    /\ phase \in {"text", "children", "whole", "split"}
    /\ cell \in DOMAIN cells =>
          /\ start \in 0..cells[cell].text
          /\ end \in start..cells[cell].text
          /\ low \in start + 1..cells[cell].text + 1
          /\ high \in start..cells[cell].text
          /\ child \in 0..cells[cell].children
    /\ \A k \in DOMAIN fragments :
          LET f == fragments[k]
          IN  /\ f.cell \in DOMAIN cells \ repeated
              /\ f.from <= f.to /\ f.first <= f.last
              /\ f.from < f.to \/ f.first < f.last

\* What cells and fragments spell, character by character and child by child.
Part(i, kind, a, b) == [k \in 1..b - a |-> <<i, kind, a + k>>]
Spelled(i, a, b, c, d) == Part(i, "text", a, b) \o Part(i, "child", c, d)
SpelledRow(n) == FlattenSeq([i \in 1..n |->
    IF i \in repeated THEN <<>> ELSE Spelled(i, 0, cells[i].text, 0, cells[i].children)])
SpelledFragments == FlattenSeq([k \in DOMAIN fragments |->
    Spelled(fragments[k].cell, fragments[k].from, fragments[k].to, fragments[k].first, fragments[k].last)])

\* The fragments spell the cells that are not repeated, in order and once:
\* all of them when the row is returned in fragments, and exactly what was
\* looked at before ("Lossless fragments", "Child objects occur once").
FragmentsLossless ==
    /\ phase = "split" => SpelledFragments = SpelledRow(Len(cells))
    /\ cell \in DOMAIN cells /\ phase \in {"text", "children"} =>
          SpelledFragments = SpelledRow(cell - 1) \o Spelled(cell, 0, start, 0, child)

\* Every fragment, at the place it is returned in, was seen to fit.
FragmentsFit ==
    phase = "split" =>
        \A k \in DOMAIN fragments : Answer(fragments[k], k = 1, TRUE) \in answers

\* The fragments of a row spell it once and in order, and each was seen to fit
\* where it is (split_oversized_row).
FragmentsRight == TypeOK /\ FragmentsLossless /\ FragmentsFit

\* The cutting ends, whatever the tokenizer counts.
Ends == <>(phase \in {"whole", "split"})

=============================================================================
