------------------------------ MODULE MCMigrations ------------------------------
(* Migrations for the first four versions, two of them destructive. *)
EXTENDS Migrations

Destructive == {2, 4}
=============================================================================
