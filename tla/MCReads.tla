------------------------------ MODULE MCReads ------------------------------
(* An instance of CrawlReads for TLC.                                       *)
EXTENDS CrawlReads

MCFilters == {Statuses, {"running"}}
Symmetry == Permutations(Jobs)
=============================================================================
