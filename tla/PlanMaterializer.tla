-------------------------- MODULE PlanMaterializer --------------------------
(***************************************************************************)
(* ChunkPlanMaterializer on one planning window: the plan an LLM wrote is  *)
(* read item by item, every operation is checked, repaired or refused,     *)
(* rows and units that the plan left out are put in as chunks of their     *)
(* own, and the result is accepted only if it covers the window.  A plan   *)
(* that is refused is replaced by one fallback chunk per unit.             *)
(*                                                                         *)
(* Units are numbered in window order.  RowsOf gives the row indexes of a  *)
(* structured table in the order of its rows, and <<>> for anything else.  *)
(***************************************************************************)
EXTENDS Integers, Sequences, FiniteSets, SequencesExt

CONSTANTS
    RowsOf,        \* the row indexes of each unit of the window
    PlanOps,       \* the operations an LLM may write
    Contexts,      \* the sets of units an LLM may name as context
    MaxOps,        \* bound on the operations of one plan item
    MaxItems       \* bound on the items of one plan

WindowUnits == DOMAIN RowsOf
NoRow == 0 - 1
Malformed == <<>>    \* row_ranges that are no list of [start, end] pairs

\* An operation names a unit (or something that is none), an action, and for
\* include_rows a sequence of <<start, end>> pairs.
\* Pairs that do not start at or before their end are malformed
\* (_normalize_row_ranges).
InputsAssumption ==
    /\ RowsOf \in Seq(Seq(Nat))
    /\ \A op \in PlanOps :
          /\ op.ranges \in Seq(Int \X Int)
          /\ \A i \in DOMAIN op.ranges : op.ranges[i][1] <= op.ranges[i][2]
    /\ Contexts \subseteq SUBSET WindowUnits
    /\ MaxOps \in Nat /\ MaxItems \in Nat

\* The elements of s that are in S, in their order.
Kept(s, S) == FlattenSeq([i \in DOMAIN s |-> IF s[i] \in S THEN <<s[i]>> ELSE <<>>])

RowSet(u) == ToSet(RowsOf[u])
IsTable(u) == RowsOf[u] # <<>>

-----------------------------------------------------------------------------
(* Evidence *)

\* An evidence item shows a unit, or some rows of it.
Whole(u) == [unit |-> u, rows |-> RowsOf[u]]
Part(u, S) == [unit |-> u, rows |-> Kept(RowsOf[u], S)]

Keys(item) ==
    IF item.rows = <<>> THEN << <<item.unit, NoRow>> >>
    ELSE [i \in 1..Len(item.rows) |-> <<item.unit, item.rows[i]>>]

KeysOf(held) == FlattenSeq([i \in DOMAIN held |-> Keys(held[i])])
AllKeys(cs) == FlattenSeq([i \in DOMAIN cs |-> KeysOf(cs[i].items)])
WindowKeys == KeysOf([u \in WindowUnits |-> Whole(u)])

UnitsIn(c) == {c.items[i].unit : i \in DOMAIN c.items}

\* A chunk: its items, the operations that made it as <<unit, first row>>
\* pairs, the units it names as context, and whether the plan asked for it.
PlanChunk(held, ops, context) ==
    [items |-> held, ops |-> ops, context |-> context, planned |-> TRUE]

RowRepair(u, S) ==
    [items |-> <<Part(u, S)>>, ops |-> << <<u, Min(S)>> >>, context |-> {},
     planned |-> FALSE]

UnitRepair(u) ==
    [items |-> <<Whole(u)>>, ops |-> <<>>, context |-> {}, planned |-> FALSE]

FallbackChunks == [u \in WindowUnits |-> UnitRepair(u)]

-----------------------------------------------------------------------------
(* One operation *)

Ascending(ranges) == \A i \in 1..Len(ranges) - 1 : ranges[i + 1][1] > ranges[i][2]

Outside(u, r) == r[1] < Min(RowSet(u)) \/ r[2] > Max(RowSet(u))
OffRow(u, r) == r[1] \notin RowSet(u) \/ r[2] \notin RowSet(u)
Selected(u, ranges) ==
    {r \in RowSet(u) : \E i \in DOMAIN ranges : ranges[i][1] <= r /\ r <= ranges[i][2]}

\* The first range that TableRowIndex.subset objects to, 0 if there is none.
Objection(u, ranges) ==
    SelectInSeq(ranges, LAMBDA r : Outside(u, r) \/ OffRow(u, r))

\* _materialize_operation_with_repair: "rows" takes the rows asked for, "full"
\* takes the whole unit (asked for, or instead of rows that do not exist), and
\* "raise" refuses the plan.
Outcome(op) ==
    CASE op.action = "include" -> "full"
      [] op.action = "include_rows" ->
            LET u == op.unit
                k == Objection(u, op.ranges)
            IN  IF ~Ascending(op.ranges) THEN "raise"
                ELSE IF ~IsTable(u) \/ op.ranges = Malformed THEN "full"
                ELSE IF k = 0 THEN "rows"
                ELSE IF Outside(u, op.ranges[k]) THEN "full" ELSE "raise"
      [] OTHER -> "raise"

-----------------------------------------------------------------------------
VARIABLES
    phase,     \* "reading" the plan, then "accepted" or "refused"
    items,     \* how many plan items were read
    full,      \* full_assigned
    ranges,    \* row_ranges_by_unit: the rows assigned, in order of first use
    chunks

vars == <<phase, items, full, ranges, chunks>>

RowsAssigned(u) == UNION {ranges[i][2] : i \in {j \in DOMAIN ranges : ranges[j][1] = u}}
Covered == full \cup {ranges[i][1] : i \in DOMAIN ranges}

ItemType == [unit : WindowUnits, rows : Seq(Nat)]
ChunkType ==
    [items : Seq(ItemType), ops : Seq(WindowUnits \X Nat),
     context : SUBSET WindowUnits, planned : BOOLEAN]

TypeOK ==
    /\ phase \in {"reading", "accepted", "refused"}
    /\ items \in 0..MaxItems
    /\ full \in SUBSET WindowUnits
    /\ ranges \in Seq(WindowUnits \X SUBSET Nat)
    /\ chunks \in Seq(ChunkType)

Init ==
    /\ phase = "reading"
    /\ items = 0
    /\ full = {}
    /\ ranges = <<>>
    /\ chunks = <<>>

-----------------------------------------------------------------------------
(* A plan item *)

\* _normalize_plan_operations: a table that the item includes as a whole is
\* not included by rows as well.
Normalized(ops) ==
    LET whole == {ops[i].unit : i \in {j \in DOMAIN ops : ops[j].action = "include"}}
        tables == {u \in whole \cap WindowUnits : IsTable(u)}
    IN  Kept(ops, {op \in ToSet(ops) : ~(op.action = "include_rows" /\ op.unit \in tables)})

\* _register_assignment, for all operations of an item in turn: no unit twice
\* as a whole, no row twice, and no unit both as a whole and by rows.  The row
\* ranges must not overlap, even where they overlap in no row.
Hull(op) == UNION {op.ranges[i][1]..op.ranges[i][2] : i \in DOMAIN op.ranges}

Assignable(ops) ==
    LET wholes == {i \in DOMAIN ops : Outcome(ops[i]) = "full"}
        parts == {i \in DOMAIN ops : Outcome(ops[i]) = "rows"}
    IN  /\ \A i \in wholes : ops[i].unit \notin Covered
        /\ \A i, j \in wholes : i # j => ops[i].unit # ops[j].unit
        /\ \A i \in wholes, j \in parts : ops[i].unit # ops[j].unit
        /\ \A i \in parts : /\ ops[i].unit \notin full
                            /\ Hull(ops[i]) \cap RowsAssigned(ops[i].unit) = {}
        /\ \A i, j \in parts : i # j /\ ops[i].unit = ops[j].unit
                                => Hull(ops[i]) \cap Hull(ops[j]) = {}

Readable(ops) ==
    LET norm == Normalized(ops)
    IN  /\ ops # <<>>
        /\ \A i \in DOMAIN norm : norm[i].unit \in WindowUnits /\ Outcome(norm[i]) # "raise"
        /\ Assignable(norm)

ItemFor(op) == IF Outcome(op) = "full" THEN Whole(op.unit)
               ELSE Part(op.unit, Selected(op.unit, op.ranges))

\* _chunk_sort_key looks at the first row of a row operation, else at row 0.
SortKeyFor(op) == <<op.unit, IF Outcome(op) = "full" THEN 0 ELSE Min(Hull(op))>>

\* _materialize_window reads one more item of the plan.  The context a chunk
\* may name are the units that earlier items already took as evidence.
ReadItem(ops, named) ==
    LET norm == Normalized(ops)
        parts == Kept(norm, {op \in ToSet(norm) : Outcome(op) = "rows"})
    IN  /\ phase = "reading" /\ items < MaxItems
        /\ Readable(ops)
        /\ items' = items + 1
        /\ full' = full \cup {norm[i].unit : i \in {j \in DOMAIN norm : Outcome(norm[j]) = "full"}}
        /\ ranges' = ranges \o [i \in DOMAIN parts |-> <<parts[i].unit, Hull(parts[i])>>]
        /\ chunks' = Append(chunks,
                            PlanChunk([i \in DOMAIN norm |-> ItemFor(norm[i])],
                                      [i \in DOMAIN norm |-> SortKeyFor(norm[i])],
                                      named \cap Covered))
        /\ UNCHANGED phase

\* The plan is no list, an item has no operations, an operation is refused, or
\* plan_fn raised: _chunk_window falls back for the whole window.
Refuse(ops) ==
    /\ phase = "reading" /\ items < MaxItems
    /\ ~Readable(ops)
    /\ phase' = "refused"
    /\ chunks' = FallbackChunks
    /\ UNCHANGED <<items, full, ranges>>

-----------------------------------------------------------------------------
(* The end of the plan *)

\* _chunk_sort_key and its order on tuples.
Before(k, l) == k[1] < l[1] \/ (k[1] = l[1] /\ k[2] < l[2])
Least(S) == CHOOSE k \in S : \A l \in S : k = l \/ Before(k, l)
SortKey(c) == IF c.ops # <<>> THEN Least(ToSet(c.ops)) ELSE <<Min(UnitsIn(c)), 0>>

\* Bug variant: repairs are placed by unit, without looking at rows.
InsertedByUnit(cs, repair) ==
    LET later == SelectInSeq(cs, LAMBDA c : SortKey(repair)[1] < SortKey(c)[1])
    IN  IF later = 0 THEN Append(cs, repair) ELSE InsertAt(cs, later, repair)

\* _insert_repair_chunk
Inserted(cs, repair) ==
    LET later == SelectInSeq(cs, LAMBDA c : Before(SortKey(repair), SortKey(c)))
    IN  IF later = 0 THEN Append(cs, repair) ELSE InsertAt(cs, later, repair)

\* contiguous_ranges, as sets of rows in ascending order.
Runs(S) ==
    LET starts == {r \in S : r - 1 \notin S}
        run(r) == {k \in S : k >= r /\ r..k \subseteq S}
        ascending == Kept([k \in 1..Max(S) + 1 |-> k - 1], starts)
    IN  IF S = {} THEN <<>> ELSE [i \in DOMAIN ascending |-> run(ascending[i])]

\* _omitted_table_rows: table by table in order of first use.
RangeUnits == [i \in DOMAIN ranges |-> ranges[i][1]]
FirstUses == Kept([i \in DOMAIN ranges |-> i],
                {i \in DOMAIN ranges : \A j \in 1..i - 1 : RangeUnits[j] # RangeUnits[i]})
OmittedRuns ==
    FlattenSeq([n \in DOMAIN FirstUses |->
        LET u == RangeUnits[FirstUses[n]]
            runs == Runs(RowSet(u) \ RowsAssigned(u))
        IN  [i \in DOMAIN runs |-> RowRepair(u, runs[i])]])

MissingUnits ==
    LET missing == Kept([u \in WindowUnits |-> u], WindowUnits \ Covered)
    IN  [i \in DOMAIN missing |-> UnitRepair(missing[i])]

Repaired == FoldLeft(Inserted, chunks, OmittedRuns \o MissingUnits)

\* Bug variant: coverage is compared as a set, without order and repetition.
CoversWindowAsSet(cs) == ToSet(AllKeys(cs)) = ToSet(WindowKeys)

\* _validate_primary_coverage
CoversWindow(cs) == AllKeys(cs) = WindowKeys

Accept ==
    /\ phase = "reading"
    /\ CoversWindow(Repaired)
    /\ phase' = "accepted"
    /\ chunks' = Repaired
    /\ UNCHANGED <<items, full, ranges>>

Reject ==
    /\ phase = "reading"
    /\ ~CoversWindow(Repaired)
    /\ phase' = "refused"
    /\ chunks' = FallbackChunks
    /\ UNCHANGED <<items, full, ranges>>

Next ==
    \/ \E ops \in BoundedSeq(PlanOps, MaxOps) :
          \/ \E named \in Contexts : ReadItem(ops, named)
          \/ Refuse(ops)
    \/ Accept
    \/ Reject
    \/ phase # "reading" /\ UNCHANGED vars

Spec == Init /\ [][Next]_vars

-----------------------------------------------------------------------------
(* Properties *)

\* Whatever the plan says, the window ends with chunks that hold every unit
\* and every row of it once, in source order; and while it is read, what was
\* assigned is well formed.
ResultCovers == TypeOK /\ (phase # "reading" => AllKeys(chunks) = WindowKeys)

\* A plan that keeps the source order is never thrown away for what it leaves
\* out between its chunks: rows at the start, in the middle or at the end of a
\* table, whole units, or everything, are put in where they belong.
Place(k) == SelectInSeq(WindowKeys, LAMBDA l : l = k)
Orderly(cs) ==
    LET places == [i \in DOMAIN cs |->
                      [j \in DOMAIN KeysOf(cs[i].items) |-> Place(KeysOf(cs[i].items)[j])]]
        all == FlattenSeq(places)
    IN  /\ \A i \in 1..Len(all) - 1 : all[i] < all[i + 1]
        /\ \A i \in DOMAIN places : \A j \in 1..Len(places[i]) - 1 :
              places[i][j + 1] = places[i][j] + 1
GapsRepaired == [][Orderly(chunks) => ~Reject]_vars

\* The context of a chunk was evidence of an earlier chunk, also after repairs
\* moved the chunks: a reader of the list has seen it before it is referred to.
ContextSeenBefore ==
    phase # "reading" =>
        \A i \in DOMAIN chunks : \A u \in chunks[i].context :
            \E j \in 1..i - 1 : u \in UnitsIn(chunks[j])

\* What a reader of the list relies on, of evidence and of context.
ResultRight == ResultCovers /\ ContextSeenBefore

=============================================================================
