-------------------------- MODULE MigrationPromise --------------------------
(***************************************************************************)
(* What RunOvaMigration promises to the program around it, over any number *)
(* of runs: it works on the VM of its run from the first OVF, creates the  *)
(* migration at its last step if there is none, says success only of a     *)
(* migration that succeeded, and a migration that a run has created is for *)
(* the VM of that run, or for one whose id the program puts into the plan  *)
(* of every VM.  It may give up at any time.                               *)
(***************************************************************************)
CONSTANTS
  VMs,
  Known,  (* the VMs of that id *)
  None

VARIABLES
  stage,      (* "discover", "apply", "wait", "done" or "error"            *)
  vm,         (* the VM of the run                                         *)
  source,     (* the VM of the first OVF                                   *)
  fresh,      (* there was no migration object when the run began          *)
  migration,  (* "absent", "pending", "running" or a terminal condition    *)
  migrating,  (* the VM it is for, once it runs                            *)
  migrated    (* the VMs that have been migrated                           *)

run  == <<stage, vm, source, fresh>>
vars == <<run, migration, migrating, migrated>>

Init ==
  /\ stage = "discover"
  /\ vm \in VMs
  /\ source = None
  /\ fresh = TRUE
  /\ migration = "absent"
  /\ migrating = None
  /\ migrated = {}

Discover ==
  /\ stage = "discover"
  /\ stage' = "apply"
  /\ source' \in VMs
  /\ UNCHANGED <<vm, fresh, migration, migrating, migrated>>

Created == IF migration = "absent" THEN "pending" ELSE migration

Create ==
  /\ stage = "apply"
  /\ stage' = "wait"
  /\ migration' = Created
  /\ UNCHANGED <<vm, source, fresh, migrating, migrated>>

\* What the run has applied last may have reached the cluster.
GiveUp ==
  /\ stage \in {"discover", "apply", "wait"}
  /\ stage' = "error"
  /\ migration' \in {migration} \cup {m \in {Created} : stage = "apply"}
  /\ UNCHANGED <<vm, source, fresh, migrating, migrated>>

Succeed ==
  /\ stage = "wait"
  /\ migration = "Succeeded"
  /\ stage' = "done"
  /\ UNCHANGED <<vm, source, fresh, migration, migrating, migrated>>

NextRun ==
  /\ stage \in {"done", "error"}
  /\ stage' = "discover"
  /\ vm' \in VMs
  /\ source' = None
  /\ fresh' = (migration = "absent")
  /\ UNCHANGED <<migration, migrating, migrated>>

Start ==
  /\ migration = "pending"
  /\ migration' = "running"
  /\ migrating' \in IF fresh THEN {vm} \cup Known ELSE VMs
  /\ UNCHANGED <<run, migrated>>

Finish ==
  /\ migration = "running"
  /\ migration' = "Succeeded"
  /\ migrated' = migrated \cup {migrating}
  /\ UNCHANGED <<run, migrating>>

Stop ==
  /\ migration \in {"pending", "running"}
  /\ migration' \in {"Failed", "Canceled"}
  /\ UNCHANGED <<run, migrating, migrated>>

Forklift == Start \/ Finish \/ Stop

Next == Discover \/ Create \/ GiveUp \/ Succeed \/ NextRun \/ Forklift

Spec == Init /\ [][Next]_vars
=============================================================================
