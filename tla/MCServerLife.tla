------------------------------ MODULE MCServerLife ------------------------------
(* ServerLife with two destructive migrations, which not all builds know. *)
EXTENDS ServerLife

Destructive == {2, 3}
=============================================================================
