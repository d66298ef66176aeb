---------------------------- MODULE EvidenceFlow ----------------------------
(***************************************************************************)
(* What every stage of the chunker promises, without saying how: source    *)
(* evidence (a unit, or one row of a table unit) is numbered in document   *)
(* order, and a stage only ever hands on a longer and longer prefix of it. *)
(* Nothing is skipped, repeated, reordered or taken back, and a stage may  *)
(* stop only when all of it was handed on.                                 *)
(***************************************************************************)
EXTENDS Integers

CONSTANT Length    \* how much source evidence there is

VARIABLES frontier,    \* evidence 1..frontier was handed on, in order
          closed       \* the stage has returned

vars == <<frontier, closed>>

TypeOK == frontier \in 0..Length /\ closed \in BOOLEAN

Init == frontier = 0 /\ closed = FALSE

HandOn(n) ==
    /\ ~closed
    /\ n \in frontier + 1..Length
    /\ frontier' = n
    /\ UNCHANGED closed

Close ==
    /\ ~closed
    /\ frontier = Length
    /\ closed' = TRUE
    /\ UNCHANGED frontier

Next == (\E n \in 1..Length : HandOn(n)) \/ Close

Spec == Init /\ [][Next]_vars

=============================================================================
