---------------------------- MODULE MCTableRows ----------------------------
(***************************************************************************)
(* Inputs of the four parts of TableCutting.                               *)
(***************************************************************************)
EXTENDS TableCutting

\* Tables with cells that span to, over and past every cut: nested spans, a
\* row without cells of its own that was left out, a span past the end, spans
\* that overlap, and two rows with one index.
Cell(row, column, width, height) ==
    [column |-> column, width |-> width, height |-> height,
     from |-> <<row, column>>, context |-> <<>>]
Row(i, list) ==
    [index |-> i, cells |-> [k \in DOMAIN list |-> Cell(i, list[k][1], list[k][2], list[k][3])]]

MCTables == {
    \* one span over four rows beside one over three; a place free behind
    << Row(1, << <<1, 1, 4>>, <<2, 1, 1>>, <<3, 1, 1>> >>), Row(2, << <<2, 1, 3>>, <<3, 1, 1>> >>),
       Row(3, << <<3, 1, 1>> >>), Row(4, << <<3, 1, 1>> >>),
       Row(5, << <<1, 1, 1>>, <<3, 1, 1>> >>) >>,
    \* row 2 has no cell of its own and was left out; row 4 spans past the end
    << Row(1, << <<1, 1, 3>>, <<2, 1, 2>> >>), Row(3, << <<2, 1, 1>> >>),
       Row(4, << <<1, 2, 4>> >>), Row(5, << >>) >>,
    \* a wide span over cells that rows have of their own, and another over it
    << Row(1, << <<1, 2, 4>> >>), Row(2, << <<2, 1, 2>>, <<3, 1, 3>> >>),
       Row(3, << <<1, 1, 1>> >>), Row(4, << <<2, 2, 1>> >>) >>,
    \* two rows with one index
    << Row(1, << <<1, 1, 3>>, <<2, 1, 1>> >>), Row(2, << <<2, 1, 1>> >>),
       Row(2, << <<2, 1, 1>> >>), Row(3, << <<2, 1, 1>> >>) >> }

\* Up to two cells of any span in rows 1..5, and all tables with some of the
\* rows 1..5; cells can span past the last row and over missing ones.
MCSpans == {s \in [first : 1..4, last : 2..6] : s.first < s.last}
MCSpanLists == BoundedSeq(MCSpans, 2)
MCIndexLists == {SetToSortSeq(S, <) : S \in SUBSET (1..5)}

\* Rows of one and two cells, with texts of up to six characters, empty ones,
\* and up to two child objects.
MCRowSet ==
    {<< [text |-> t, children |-> c] >> : t \in {0, 4, 6}, c \in {0, 2}}
    \cup {<< [text |-> t, children |-> c], [text |-> 2, children |-> 1] >> : t \in 0..2, c \in 0..1}

\* All chunks of up to four items of a few sizes around the limits.
Item(kind, title, tokens) ==
    [kind |-> kind, title |-> title, tokens |-> tokens, label |-> 0,
     groups |-> <<>>, atomic |-> {}]
TableItem(groups, atomic) ==
    [Item("table", FALSE, 0) EXCEPT !.label = 1, !.groups = groups, !.atomic = atomic]
MCItems ==
    {Item("text", FALSE, 3), Item("text", FALSE, 9), Item("text", TRUE, 2),
     Item("object", FALSE, 4),
     TableItem(<< <<1>>, <<2>> >>, {}),              \* fits
     TableItem(<< <<2, 3>>, <<3, 1>>, <<2>> >>, {}), \* groups to keep
     TableItem(<< <<4, 4, 3>>, <<2>> >>, {}),        \* a group over the maximum
     TableItem(<< <<12>>, <<3>> >>, {}),             \* a row over the maximum
     TableItem(<< <<3>>, <<12>> >>, {2})}            \* one that cannot be cut
MCChunks == BoundedSeq(MCItems, 4) \ {<<>>}

=============================================================================
