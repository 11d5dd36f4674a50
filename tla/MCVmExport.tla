----------------------------- MODULE MCVmExport -----------------------------
(* Instances of VmExport for TLC. *)
EXTENDS VmExport

CONSTANTS a, b, c

(***************************************************************************)
(* Two VMs.  The first has two disks, a and b.  The second has a disk c of *)
(* the same base name as a: its file and its OVF collide with those of the *)
(* first VM.                                                               *)
(***************************************************************************)
CollidingRemote == <<<<a, b>>, <<c>>>>
CollidingBase == [d \in {a, b, c} |-> IF d = b THEN "b" ELSE "a"]
CollidingDrives == <<2, 1>>
CollidingSize == [d \in {a, b, c} |-> IF d = a THEN 2 ELSE 1]

OvfOf == [f \in Files |-> f]

(***************************************************************************)
(* Four VMs without collisions: one with two disks (the second one's name  *)
(* differs in the extension only), one with a drive that has no path, and  *)
(* two of the same name.                                                   *)
(***************************************************************************)
OddRemote == <<<<a, b>>, <<c>>, <<>>, <<>>>>
OddDrives == <<2, 2, 0, 0>>
OddBase == [d \in {a, b, c} |-> IF d = a THEN "a" ELSE IF d = b THEN "b" ELSE "c"]
OddOvf == [f \in Files |-> IF f = "c" THEN "c" ELSE "a"]
OddSize == [d \in {a, b, c} |-> 1]
=============================================================================
