----------------------------- MODULE TableSplits -----------------------------
(***************************************************************************)
(* _split_large_table_chunk: a chunk over the token target is cut at its   *)
(* tables.  The evidence before a table goes ahead on its own if it does   *)
(* not fit beside the first rows; the table is cut between groups of rows; *)
(* a group over the maximum is cut between rows, and a row over it between *)
(* fragments of its cells.                                                 *)
(*                                                                         *)
(* Texts are their numbers of tokens.  An item of the chunk is             *)
(*   [kind, title, tokens, label, groups, atomic]                          *)
(* with kind "text", "object" or "table".  A table repeats label tokens of *)
(* caption and columns over every piece, its groups are sequences of row   *)
(* sizes, and the rows in atomic hold an object that no fragment can hold. *)
(***************************************************************************)
EXTENDS Integers, Sequences, FiniteSets, SequencesExt

CONSTANTS
    Chunks,        \* the chunks that may be given, as sequences of items
    Target,        \* target_tokens_per_chunk
    Maximum        \* max_tokens_per_chunk

BudgetAssumption == Target \in Nat \ {0} /\ Maximum \in Nat /\ Target <= Maximum

\* A chunk has items; a table has rows, or it is none to the code
\* (_is_splittable_table_item).
Items == [kind : {"text", "object", "table"}, title : BOOLEAN, tokens : Nat, label : Nat,
          groups : Seq(Seq(Nat)), atomic : SUBSET Nat]
ChunksAssumption ==
    \A c \in Chunks :
        /\ c \in Seq(Items) /\ c # <<>>
        /\ \A i \in DOMAIN c :
              /\ c[i].groups = <<>> <=> c[i].kind # "table"
              /\ \A g \in DOMAIN c[i].groups : c[i].groups[g] # <<>>

VARIABLES
    chunk,         \* the chunk
    at,            \* the item to look at next
    pending,       \* pending_context_items
    out,           \* the chunks made of it
    didSplit       \* did_split

vars == <<chunk, at, pending, out, didSplit>>

-----------------------------------------------------------------------------
(* Sizes *)

Total(sizes) == FoldLeft(+, 0, sizes)
SizesOf(i) == FlattenSeq(chunk[i].groups)
IsTable(i) == chunk[i].kind = "table"
Tokens(i) == IF IsTable(i) THEN Total(SizesOf(i)) ELSE chunk[i].tokens

\* _table_pending_source_text, and the part of it that is repeated as context.
Prefix(held) == Total([k \in DOMAIN held |-> Tokens(held[k])])
Repeated(held) ==
    Total([k \in DOMAIN held |-> IF chunk[held[k]].kind = "text" THEN Tokens(held[k]) ELSE 0])

RowNumbers(i) == [r \in DOMAIN SizesOf(i) |-> r]
RowsSize(i, rows) == Total([k \in DOMAIN rows |-> SizesOf(i)[rows[k]]])

\* The groups of a table, as sequences of row numbers.
GroupsOf(i) ==
    [g \in DOMAIN chunk[i].groups |->
        LET before == Len(FlattenSeq(SubSeq(chunk[i].groups, 1, g - 1)))
        IN  [r \in DOMAIN chunk[i].groups[g] |-> before + r]]

\* Evidence of a new chunk: a whole item, rows of a table, or a fragment of a row.
Whole(i) == [item |-> i, rows |-> RowNumbers(i), part |-> 0]
Rows(i, rows) == [item |-> i, rows |-> rows, part |-> 0]
Fragment(i, r, k) == [item |-> i, rows |-> <<r>>, part |-> k]
WholeOnes(held) == [k \in DOMAIN held |-> Whole(held[k])]

\* A new chunk, with a warning if its text is over the maximum.
New(held, size) == [held |-> held, over |-> size > Maximum]

Init ==
    /\ chunk \in Chunks
    /\ at = 1
    /\ pending = <<>>
    /\ out = <<>>
    /\ didSplit = FALSE

-----------------------------------------------------------------------------
(* _pending_groups_before_table *)

\* What has to fit beside the pending evidence: the first group of rows, or
\* the first row if the group is over the maximum.
FirstSize(i) ==
    LET group == Head(chunk[i].groups)
        size == chunk[i].label + Total(group)
    IN  IF Len(group) > 1 /\ size > Maximum THEN chunk[i].label + Head(group) ELSE size

\* held in groups of at most Maximum tokens.
WithItem(packed, i) ==
    IF packed = <<>> THEN << <<i>> >>
    ELSE IF Prefix(Append(Last(packed), i)) > Maximum THEN Append(packed, <<i>>)
    ELSE Append(Front(packed), Append(Last(packed), i))
Packed(held) == FoldLeft(WithItem, <<>>, held)

TitlesFrom(held) ==
    LET others == {k \in DOMAIN held : ~chunk[held[k]].title}
    IN  IF others = {} THEN 1 ELSE (CHOOSE k \in others : \A l \in others : l <= k) + 1

\* Bug variant: the last group stays with the table, whatever its size.
PendingGroupsUnmeasured(i) ==
    IF pending = <<>> \/ FirstSize(i) > Maximum THEN <<pending>> ELSE Packed(pending)

PendingGroups(i) ==
    IF pending = <<>> \/ FirstSize(i) > Maximum THEN <<pending>>
    ELSE LET packed == Packed(pending)
             last == Last(packed)
             cut == TitlesFrom(last)
             titles == SubSeq(last, cut, Len(last))
             Fits(held) == Prefix(held) + FirstSize(i) <= Maximum
         IN  IF Fits(last) THEN packed
             ELSE IF cut > 1 /\ Fits(titles)
                  THEN Front(packed) \o <<SubSeq(last, 1, cut - 1), titles>>
                  ELSE Append(packed, <<>>)

-----------------------------------------------------------------------------
(* _split_table_item_by_rows, with held as the context of table i *)

\* budgeted_groups: a group over the maximum is broken into its rows.
BudgetedGroups(i, held) ==
    FlattenSeq([g \in DOMAIN GroupsOf(i) |->
        LET group == GroupsOf(i)[g]
        IN  IF chunk[i].label + Repeated(held) + RowsSize(i, group) > Maximum
            THEN [k \in DOMAIN group |-> <<group[k]>>] ELSE <<group>>])

\* What a piece carries beside its rows: the pending evidence for the first,
\* its texts as context for the others.
Overhead(i, held, first) ==
    chunk[i].label + (IF first THEN Prefix(held) ELSE Repeated(held))

\* Groups are collected until the target is passed.
WithGroup(i, held, splits, group) ==
    IF splits = <<>> THEN <<group>>
    ELSE IF Overhead(i, held, Len(splits) = 1) + RowsSize(i, Last(splits) \o group) > Target
    THEN Append(splits, group)
    ELSE Append(Front(splits), Last(splits) \o group)
RowSplits(i, held) ==
    FoldLeft(LAMBDA splits, group : WithGroup(i, held, splits, group), <<>>, BudgetedGroups(i, held))

\* split_oversized_row: a row that is over the maximum by itself is cut into
\* fragments that fit, unless what goes with every fragment leaves no room or
\* an object cannot be cut.  Two fragments stand for any number of them.
Fragments(i, held, rows, first) ==
    LET beside == Overhead(i, held, first)
    IN  IF /\ Len(rows) = 1 /\ rows[1] \notin chunk[i].atomic
           /\ beside + RowsSize(i, rows) > Maximum
           /\ beside < Maximum
        THEN << New(<<Fragment(i, rows[1], 1)>>, Maximum), New(<<Fragment(i, rows[1], 2)>>, Maximum) >>
        ELSE << New(<<Rows(i, rows)>>, beside + RowsSize(i, rows)) >>

TablePieces(i, held) ==
    LET splits == RowSplits(i, held)
    IN  FlattenSeq([k \in DOMAIN splits |-> Fragments(i, held, splits[k], k = 1)])

-----------------------------------------------------------------------------
\* An item that is no table waits.
Hold ==
    /\ at <= Len(chunk) /\ Total([i \in DOMAIN chunk |-> Tokens(i)]) > Target
    /\ ~IsTable(at)
    /\ pending' = Append(pending, at)
    /\ at' = at + 1
    /\ UNCHANGED <<chunk, out, didSplit>>

\* A table is cut if it makes more than one piece; else it waits too.
SplitTable ==
    /\ at <= Len(chunk) /\ Total([i \in DOMAIN chunk |-> Tokens(i)]) > Target
    /\ IsTable(at)
    /\ LET groups == PendingGroups(at)
           held == Last(groups)
           pieces == TablePieces(at, held)
           first == [pieces[1] EXCEPT !.held = WholeOnes(held) \o @]
       IN  /\ out' = out \o [g \in DOMAIN Front(groups) |->
                                 New(WholeOnes(groups[g]), Prefix(groups[g]))]
                         \o (IF Len(pieces) > 1 THEN <<first>> \o Tail(pieces) ELSE <<>>)
           /\ pending' = IF Len(pieces) > 1 THEN <<>> ELSE Append(held, at)
           /\ didSplit' = (didSplit \/ Len(groups) > 1 \/ Len(pieces) > 1)
    /\ at' = at + 1
    /\ UNCHANGED chunk

\* The rest is a chunk of its own; a chunk that was not cut stays as it is.
Finish ==
    /\ \/ at = Len(chunk) + 1
       \/ at = 1 /\ Total([i \in DOMAIN chunk |-> Tokens(i)]) <= Target
    /\ at' = Len(chunk) + 2
    /\ LET all == [i \in DOMAIN chunk |-> i]
       IN  out' = IF ~didSplit THEN <<New(WholeOnes(all), Prefix(all))>>
                  ELSE IF pending # <<>> THEN Append(out, New(WholeOnes(pending), Prefix(pending)))
                  ELSE out
    /\ pending' = <<>>
    /\ UNCHANGED <<chunk, didSplit>>

Next == Hold \/ SplitTable \/ Finish

Spec == Init /\ [][Next]_vars

-----------------------------------------------------------------------------
(* Properties *)

Piece(p) ==
    /\ p.item \in DOMAIN chunk
    /\ p.rows = <<>> <=> ~IsTable(p.item)
    /\ ToSet(p.rows) \subseteq DOMAIN SizesOf(p.item)
    /\ p.part \in 0..2

\* No chunk is made without evidence, and every piece is of the chunk.
TypeOK ==
    /\ at \in 1..Len(chunk) + 2
    /\ ToSet(pending) \subseteq DOMAIN chunk
    /\ didSplit \in BOOLEAN
    /\ \A k \in DOMAIN out :
          /\ out[k].held # <<>>
          /\ \A j \in DOMAIN out[k].held : Piece(out[k].held[j])
          /\ out[k].over \in BOOLEAN

\* An item as <<item, row, part>> keys, row 0 for what is no table.
PieceKeys(p) == IF p.rows = <<>> THEN << <<p.item, 0, 0>> >>
                ELSE [k \in DOMAIN p.rows |-> <<p.item, p.rows[k], p.part>>]
KeysOf(held) == FlattenSeq([k \in DOMAIN held |-> PieceKeys(held[k])])
OutKeys == FlattenSeq([k \in DOMAIN out |-> KeysOf(out[k].held)])

\* Where rows and items start among keys: a row in fragments at its first.
Start(key) == IF key[3] = 2 THEN <<>> ELSE << <<key[1], key[2]>> >>
Starts(keys) == FlattenSeq([k \in DOMAIN keys |-> Start(keys[k])])

\* What was looked at so far is in the chunks and in the pending evidence once
\* and in order, the fragments of a row as its first part and its last.
EvidenceKept ==
    LET shown == OutKeys \o KeysOf(WholeOnes(pending))
        seen == IF at > Len(chunk) THEN Len(chunk) ELSE at - 1
    IN  /\ TypeOK
        /\ Starts(shown) = Starts(KeysOf(WholeOnes([i \in 1..seen |-> i])))
        /\ \A k \in DOMAIN shown : shown[k][3] = 1 =>
              k < Len(shown) /\ shown[k + 1] = <<shown[k][1], shown[k][2], 2>>

\* A group of rows that fits with all the texts before it is never cut.
Texts(i) == Repeated([k \in 1..i - 1 |-> k])
GroupsWhole ==
    \A k \in 1..Len(out) - 1 :
        LET l == Last(out[k].held)
            r == out[k + 1].held[1]
        IN  l.item = r.item =>
              \A g \in DOMAIN GroupsOf(l.item) :
                 LET group == GroupsOf(l.item)[g]
                 IN  {Last(l.rows), r.rows[1]} \subseteq ToSet(group) =>
                        chunk[l.item].label + Texts(l.item) + RowsSize(l.item, group) > Maximum

\* A chunk over the maximum that was cut off is one item, or a row of a table
\* with its context; and evidence is kept before a row that makes the chunk too
\* large only if the row is too large without it.
OnlyOneRowTooLarge ==
    at <= Len(chunk) + 1 =>
        \A k \in DOMAIN out : out[k].over =>
            LET l == Last(out[k].held)
            IN  IF IsTable(l.item)
                THEN /\ Len(l.rows) = 1
                     /\ Len(out[k].held) > 1 =>
                            chunk[l.item].label + RowsSize(l.item, l.rows) > Maximum
                ELSE Len(out[k].held) = 1

\* What the cutting of a chunk at its tables keeps, whole and within the maximum
\* (_split_large_table_chunk).
SplitsRight == EvidenceKept /\ GroupsWhole /\ OnlyOneRowTooLarge

=============================================================================
