----------------------------- MODULE MCEnrichment -----------------------------
(***************************************************************************)
(* Two chunks that fill a batch exactly, one that is over the budget by    *)
(* itself, and a last one alone.                                           *)
(***************************************************************************)
EXTENDS Enrichment

MCCost == <<2, 2, 5, 1>>

=============================================================================
