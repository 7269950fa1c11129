---------------------------- MODULE MCOralSession ----------------------------
(* OralSession for small blueprints. *)
EXTENDS OralSession

TwoSlots == <<2, 1>>
OneSlot == <<2>>
=============================================================================
