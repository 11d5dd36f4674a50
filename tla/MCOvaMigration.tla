--------------------------- MODULE MCOvaMigration ---------------------------
(* Two runs of the tool, each for one of two VMs. *)
EXTENDS OvaMigration

CONSTANTS a, b, ida, idb

IDs == [v \in {a, b} |-> IF v = a THEN ida ELSE idb]
=============================================================================
