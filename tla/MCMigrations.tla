----------------------------- MODULE MCMigrations -----------------------------
(***************************************************************************)
(* The migrations of the repository for TLC: a statement per table created *)
(* (with its indexes) and per column added.                                *)
(***************************************************************************)
EXTENDS Migrations, TLC

MCSteps == <<3, 1, 2, 4, 1, 2, 3, 1>>
MCAlters == {4, 6, 7}
=============================================================================
