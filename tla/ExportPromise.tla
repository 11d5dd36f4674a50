--------------------------- MODULE ExportPromise ---------------------------
(***************************************************************************)
(* What the export promises to what comes after it, the copy to the NFS    *)
(* share and the migration: the disks of a VM are delivered first, its OVF *)
(* announces them afterwards, neither is ever taken back, and both stop    *)
(* growing when the export closes.                                         *)
(***************************************************************************)
CONSTANT VMs

VARIABLES
  delivered,  (* VMs with every disk complete in the output directory      *)
  announced,  (* VMs whose OVF is there                                    *)
  open        (* the export is going on                                    *)

vars == <<delivered, announced, open>>

Init == delivered = {} /\ announced = {} /\ open = TRUE

Deliver(v) ==
  /\ open
  /\ v \notin delivered
  /\ delivered' = delivered \cup {v}
  /\ UNCHANGED <<announced, open>>

Announce(v) ==
  /\ open
  /\ v \in delivered \ announced
  /\ announced' = announced \cup {v}
  /\ UNCHANGED <<delivered, open>>

Close ==
  /\ open
  /\ open' = FALSE
  /\ UNCHANGED <<delivered, announced>>

Next == Close \/ \E v \in VMs : Deliver(v) \/ Announce(v)

Spec == Init /\ [][Next]_vars
=============================================================================
