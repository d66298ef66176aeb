-------------------------- MODULE MCChunkBoundaries --------------------------
(***************************************************************************)
(* Documents of four units of any kind, and documents around a table whose *)
(* first three rows are one group.  A table may start a form.              *)
(***************************************************************************)
EXTENDS ChunkBoundaries

Text(section) ==
    [text |-> TRUE, heading |-> FALSE, section |-> section, case |-> FALSE, form |-> FALSE,
     body |-> TRUE, ends |-> FALSE, opens |-> TRUE, tokens |-> 1,
     rows |-> <<>>, groups |-> {}, heavy |-> {}]
Heading(section) == [Text(section) EXCEPT !.heading = TRUE]
Case == [Text(0) EXCEPT !.case = TRUE]
FormHeading == [Text(0) EXCEPT !.form = TRUE, !.heading = TRUE, !.body = FALSE]
FormEnd == [Text(0) EXCEPT !.ends = TRUE, !.tokens = 2]
BackPage == [Text(0) EXCEPT !.opens = FALSE]
Table(heavy) ==
    [Text(0) EXCEPT !.text = FALSE, !.tokens = 2, !.rows = <<1, 2, 3, 5>>,
                    !.groups = {{1, 2, 3}, {5}}, !.heavy = heavy]

FormTable == [Table({}) EXCEPT !.form = TRUE]

DeletedForm == [FormHeading EXCEPT !.heading = FALSE, !.body = TRUE]

TextDocuments ==
    {<<a, b, c, d>> : a \in {Text(1), Heading(0), FormHeading, FormEnd},
                      b \in {Heading(0), Heading(2), DeletedForm, BackPage},
                      c \in {Heading(2), FormHeading, Case, Text(1)},
                      d \in {Text(1), Case, FormHeading}}
TableDocuments ==
    {<<a, t, b>> : a \in {Heading(1), Text(1)}, b \in {Heading(0), Case},
                   t \in {Table({}), Table({1, 2, 3}), FormTable}}
MCDocuments == TextDocuments \cup TableDocuments

=============================================================================
