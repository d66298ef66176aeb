----------------------------- MODULE MCPlanning -----------------------------
(***************************************************************************)
(* For the windows, units without rows around a table of five rows, a      *)
(* table of two at the end, and slices of three units with a shorter one   *)
(* last. For the plan, a window of a text, a table whose row indexes have  *)
(* a gap, and a text.                                                      *)
(***************************************************************************)
EXTENDS Planning

MCUnitLast == <<1, 6, 7, 8, 10>>

MCRowsOf == << <<>>, <<1, 2, 4>>, <<>> >>

Include(u) == [unit |-> u, action |-> "include", ranges |-> <<>>]
IncludeRows(u, r) == [unit |-> u, action |-> "include_rows", ranges |-> r]

MCPlanOps ==
    {Include(u) : u \in 0..3}                            \* 0 is no unit
    \cup {IncludeRows(2, << p >>) : p \in {q \in {1, 2, 4} \X {1, 2, 4} : q[1] <= q[2]}}
    \cup {IncludeRows(2, r) : r \in {
            << <<1, 1>>, <<4, 4>> >>,                    \* rows apart
            << <<4, 4>>, <<1, 1>> >>,                    \* not ascending
            << <<2, 3>> >>,                              \* ends on no row
            << <<4, 5>> >>,                              \* outside the table
            <<>>}}                                       \* no list of pairs
    \cup {IncludeRows(1, << <<1, 1>> >>)}                \* rows of a text
    \cup {[unit |-> 1, action |-> "exclude", ranges |-> <<>>]}
MCContexts == {1..3}    \* the plan names every unit as context

=============================================================================
