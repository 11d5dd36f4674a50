-------------------------- MODULE MCMigrationTool --------------------------
(* Two VMs, and two runs of the tool. *)
EXTENDS MigrationTool, FiniteSets

\* Bound: one file of the share at a time is damaged.
OneDamaged == Cardinality({f \in Files : share[f] = "damaged"}) <= 1
=============================================================================
