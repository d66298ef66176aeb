------------------------------ MODULE HtmlText ------------------------------
(***************************************************************************)
(* The pure parts of the HTML backend: HtmlRepairer, which escapes a "<"   *)
(* that html.parser would take for markup and discard text with, and the   *)
(* choice of the rows of text whose alignment by spaces is kept.           *)
(*                                                                         *)
(* HTML source is a sequence of tokens: "<", ">", "/", "!", a quote, a     *)
(* space, and the words "known" (a known element's name), "script",        *)
(* "other" and "glyph" (a word with a comparison glyph). Comments are left *)
(* out; "escaped" is the escape of "<". A text row is [at, atoms, gaps]:   *)
(* the children it is made of, what they say, and how many wide gaps the   *)
(* row shows.                                                              *)
(***************************************************************************)
EXTENDS Integers, FiniteSets, Sequences, SequencesExt, FiniteSetsExt

Words == {"known", "script", "other", "glyph"}
\* The first of these positions, or the one after the end.
FirstOf(s, ps) == Min(ps \cup {Len(s) + 1})

-----------------------------------------------------------------------------
(* _less_than_scan_result: what is said of the "<" at i, and where the search *)
(* goes on                                                                    *)

Quotes(s, i, j) == Cardinality({k \in i..j : s[k] = "quote"})
\* Where the tag that would begin at i ends, or another begins.
TagStop(s, i) == FirstOf(s, {k \in i + 1 .. Len(s) : s[k] \in {"<", ">"} /\ Quotes(s, i + 1, k - 1) % 2 = 0})
NameOf(source) == SubSeq(source, 1, FirstOf(source, {k \in DOMAIN source : source[k] \in {" ", "/"}}) - 1)
\* source.rstrip().endswith("/")
SelfCloses(source) ==
    \E k \in DOMAIN source : source[k] = "/" /\ \A l \in k + 1 .. Len(source) : source[l] = " "

From(s, k) == SubSeq(s, k, Len(s))
AfterSpaces(s, k) == FirstOf(s, {l \in k .. Len(s) : s[l] # " "})
\* Where what begins an end tag with this name at k goes on, 0 if nothing does.
AfterEndName(s, name, k) ==
    LET at == AfterSpaces(s, k + 2)
    IN IF IsPrefix(<<"<", "/">>, From(s, k)) /\ IsPrefix(name, From(s, at)) THEN at + Len(name) ELSE 0

\* The tag's own end follows.
EndTagAfter(s, name, from) ==
    \E k \in from .. Len(s) : LET next == AfterEndName(s, name, k)
                             IN next # 0 /\ IsPrefix(<<">">>, From(s, AfterSpaces(s, next)))
\* Where the end of a script begins.
ScriptEnds(s) ==
    {k \in DOMAIN s : LET next == AfterEndName(s, <<"script">>, k)
                      IN next # 0 /\ (next \in DOMAIN s => s[next] \notin Words)}

IsPreserved(s, name, source, from) ==
    \/ name \in {<<"known">>, <<"script">>}
    \/ SelfCloses(source)
    \/ EndTagAfter(s, name, from)

\* Bug variant: the search goes on where the escaped tag would have ended.
EscapeAndSkip(i, stop) == [escapes |-> TRUE, next |-> stop + 1]
\* The text after an escaped "<" is looked at again.
Escape(i, stop) == [escapes |-> TRUE, next |-> i + 1]

Scan(s, i) ==
    LET stop == TagStop(s, i)
        source == SubSeq(s, i + 1, stop - 1)
        name == NameOf(source)
        scriptEnd == FirstOf(s, {k \in ScriptEnds(s) : k > stop})
    IN IF i = Len(s) THEN [escapes |-> FALSE, next |-> i + 1]
       ELSE IF s[i + 1] \in {"!", "/"}
       THEN [escapes |-> FALSE, next |-> FirstOf(s, {k \in i + 2 .. Len(s) : s[k] = ">"}) + 1]
       ELSE IF s[i + 1] \notin Words THEN [escapes |-> FALSE, next |-> i + 1]
       ELSE IF stop > Len(s) \/ s[stop] = "<" \/ "glyph" \in ToSet(name)
       THEN Escape(i, stop)
       ELSE IF name = <<"script">> /\ ~SelfCloses(source) THEN [escapes |-> FALSE, next |-> scriptEnd]
       ELSE IF IsPreserved(s, name, source, stop + 1) THEN [escapes |-> FALSE, next |-> stop + 1]
       ELSE Escape(i, stop)

Escapes(s) ==
    FoldLeft(LAMBDA a, i :
        IF s[i] # "<" \/ i < a.from THEN a
        ELSE LET r == Scan(s, i)
             IN [from |-> r.next, at |-> IF r.escapes THEN a.at \cup {i} ELSE a.at],
        [from |-> 1, at |-> {}], [i \in DOMAIN s |-> i]).at

Repair(s) == FoldLeft(LAMBDA r, i : [r EXCEPT ![i] = "escaped"], s, SetToSeq(Escapes(s)))

-----------------------------------------------------------------------------
(* _aligned_row_indexes *)

IsBlankRow(row) == row.atoms = <<>>
Candidates(rows) == {i \in DOMAIN rows : rows[i].gaps >= 2}

\* _rows_share_alignment_cluster
Share(rows, a, b) ==
    LET between == a + 1 .. b - 1
        content == {i \in between : ~IsBlankRow(rows[i])}
    IN /\ \A i \in between : i + 1 \in between => i \in content \/ i + 1 \in content
       /\ Cardinality(content) <= 2
       /\ Cardinality(between) <= IF content = {} THEN 1 ELSE 5

\* _adjacent_weak_alignment_row: the next row with a gap joins the cluster, over
\* a blank row at most.
WeakRow(rows, i, way) ==
    LET near == i + way
        far == IF near \in DOMAIN rows /\ IsBlankRow(rows[near]) THEN near + way ELSE near
    IN IF far \in DOMAIN rows /\ ~IsBlankRow(rows[far]) /\ rows[far].gaps >= 1 THEN far ELSE i

\* _add_alignment_cluster; two rows are aligned at least.
WithCluster(rows, cluster, preserved) ==
    IF Len(cluster) < 2 THEN preserved
    ELSE preserved \cup WeakRow(rows, cluster[1], -1) .. WeakRow(rows, Last(cluster), 1)

AlignedRows(rows) ==
    LET read == FoldLeft(LAMBDA a, c :
                    IF a.cluster # <<>> /\ Share(rows, Last(a.cluster), c)
                    THEN [a EXCEPT !.cluster = Append(@, c)]
                    ELSE [cluster |-> <<c>>, preserved |-> WithCluster(rows, a.cluster, a.preserved)],
                    [cluster |-> <<>>, preserved |-> {}], SetToSortSeq(Candidates(rows), <))
    IN WithCluster(rows, read.cluster, read.preserved)

-----------------------------------------------------------------------------
(* _direct_text_row_groups, over children that are already told apart: "text" *)
(* and "inline" children are part of a row, "break" ends it, "comment" is     *)
(* nothing, and any other child ends the group                                *)

NoRow == [at |-> <<>>, atoms |-> <<>>, gaps |-> 0]
FlushRow(g, empty) ==
    IF g.row.at = <<>> /\ ~empty THEN g ELSE [g EXCEPT !.rows = Append(@, g.row), !.row = NoRow]
FlushGroup(g) ==
    LET f == FlushRow(g, FALSE)
    IN [f EXCEPT !.groups = IF f.broken THEN Append(@, f.rows) ELSE @, !.rows = <<>>, !.broken = FALSE]

RowStep(g, i, child) ==
    CASE child.kind = "comment" -> g
      [] child.kind = "row" ->
           [g EXCEPT !.row = [at |-> Append(@.at, i), atoms |-> @.atoms \o child.atoms,
                              gaps |-> @.gaps + child.gaps]]
      [] child.kind = "break" -> [FlushRow(g, TRUE) EXCEPT !.broken = TRUE]
      [] OTHER -> FlushGroup(g)

RowGroups(children) ==
    FlushGroup(FoldLeft(LAMBDA g, i : RowStep(g, i, children[i]),
                        [groups |-> <<>>, rows |-> <<>>, row |-> NoRow, broken |-> FALSE],
                        [i \in DOMAIN children |-> i])).groups

\* _aligned_text_selection: the rows of each group in which some are aligned.
SelectedRows(children) ==
    LET aligned == SelectSeq(RowGroups(children), LAMBDA rows : AlignedRows(rows) # {})
    IN SelectSeq(FlattenSeq(aligned), LAMBDA row : row.at # <<>>)

-----------------------------------------------------------------------------
(* Properties *)

\* The "<" at i stands in an end tag or declaration that goes on to the next ">".
InMarkup(s, i) ==
    \E j \in 1 .. i - 1 : s[j] = "<" /\ s[j + 1] \in {"!", "/"} /\ \A k \in j + 2 .. i : s[k] # ">"
\* The "<" at i begins a tag: one that is closed, of an element that is known,
\* closed in itself, or ended later.
BeginsTag(s, i) ==
    LET stop == FirstOf(s, {k \in i + 1 .. Len(s) : s[k] \in {"<", ">"}})
        source == SubSeq(s, i + 1, stop - 1)
        name == NameOf(source)
    IN /\ stop \in DOMAIN s /\ s[stop] = ">" /\ "glyph" \notin ToSet(name)
       /\ name = <<"known">> \/ SelfCloses(source) \/ EndTagAfter(s, name, stop)

\* Of text without quotes and scripts those "<" are escaped before a word that
\* stand in no markup and begin no tag, wherever the scan has come from; of a
\* script nothing is. What was repaired needs no repair: the escapes made no "<"
\* one that html.parser discards text with (_repair_unsafe_html_text).
RepairStable(s) ==
    /\ ToSet(s) \cap {"quote", "script"} = {} =>
           Escapes(s) = {i \in 1 .. Len(s) - 1 : /\ s[i] = "<" /\ s[i + 1] \in Words
                                                 /\ ~InMarkup(s, i) /\ ~BeginsTag(s, i)}
    /\ IsPrefix(<<"<", "script", ">">>, s) =>
           \A i \in Escapes(s) : \E k \in ScriptEnds(s) : k < i
    /\ Escapes(Repair(s)) = {}

\* Candidates a to b are one cluster: each shares it with the next, and neither
\* end with the candidate beyond it.
Follows(rows, a, b) == a < b /\ a + 1 .. b - 1 \cap Candidates(rows) = {}
IsCluster(rows, a, b) ==
    LET cs == Candidates(rows) IN
    /\ a < b /\ {a, b} \subseteq cs
    /\ \A c, d \in cs : Follows(rows, c, d) =>
           /\ a <= c /\ d <= b => Share(rows, c, d)
           /\ c = b \/ d = a => ~Share(rows, c, d)

\* The rows aligned are those of the longest runs of candidates that share a
\* cluster, from the weak row before one to that behind it, whichever end they
\* are read from (_aligned_row_indexes, _add_alignment_cluster).
AlignedBothWays(rows) ==
    /\ AlignedRows(rows) =
           UNION {WeakRow(rows, c[1], -1) .. WeakRow(rows, c[2], 1) :
                     c \in {c \in Candidates(rows) \X Candidates(rows) : IsCluster(rows, c[1], c[2])}}
    /\ AlignedRows(Reverse(rows)) = {Len(rows) + 1 - i : i \in AlignedRows(rows)}

=============================================================================
