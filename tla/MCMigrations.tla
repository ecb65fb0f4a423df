---------------------------- MODULE MCMigrations ----------------------------
(* An instance of Migrations for TLC.                                       *)
EXTENDS Migrations, TLC

Symmetry == Permutations(Users) \cup Permutations(Names) \cup Permutations(JobIds)
=============================================================================
