---------------------------- MODULE OvfGenerator ----------------------------
(***************************************************************************)
(* The offline generator (src/cmd/ovf-generator): on the Hyper-V host, it  *)
(* goes through the names of the VMs and writes an OVF beside the first    *)
(* disk of each.  A VM that fails is skipped; the error of os.WriteFile is *)
(* dropped, and the VM counts as generated.                                *)
(*                                                                         *)
(* PowerShell is external: it answers with what it has under the name, or  *)
(* fails.  Of two VMs of one name it answers twice with the drives of both.*)
(***************************************************************************)
EXTENDS OvfEnvelope

CONSTANTS
  Names,     (* the list: the name of each VM, in the order of Get-VM      *)
  Reported,  (* per name: what a guest may report                          *)
  Paths,     (* of disks on the host                                       *)
  Filtered,  (* --path is given                                            *)
  Prefixed,  (* the paths that begin with its value, case ignored          *)
  Cut        (* an OVF that is truncated or written in part                *)

Unknown == [caption |-> "unknown", arch |-> "64-bit"]

N     == Len(Names)
VM    == 1 .. N
Ovfs  == {OvfOf(Names[v]) : v \in {w \in VM : DiskPaths(Names[w]) # <<>>}}

ASSUME GeneratorAssumption ==
  /\ Names \in Seq(DOMAIN Drives)
  /\ \A n \in DOMAIN Drives : Drives[n] \in Seq(Paths \cup {None})
  /\ None \notin Paths
  /\ Filtered \in BOOLEAN
  /\ Unknown \in Guests
  /\ \A n \in DOMAIN Drives : Reported[n] \subseteq Guests

VARIABLES
  at,         (* "list", "info", "guest", "format", "write", "done" or     *)
              (* "failed"                                                  *)
  vm,         (* the VM whose turn it is                                   *)
  guest,      (* its GuestOSInfo                                           *)
  generated,  (* the counter                                               *)
  ovf         (* the OVF beside the disks: None, Cut, Null if it is of an  *)
              (* earlier run, else an envelope                             *)

vars == <<at, vm, guest, generated, ovf>>

TypeOK ==
  /\ at \in {"list", "info", "guest", "format", "write", "done", "failed"}
  /\ vm \in 1 .. N + 1
  /\ guest \in Guests
  /\ generated \in 0 .. N
  /\ DOMAIN ovf = Ovfs
  /\ at \in {"guest", "format", "write"} => vm \in VM /\ DiskPaths(Names[vm]) # <<>>

Init ==
  /\ at = "list"
  /\ vm = 1
  /\ guest = Unknown
  /\ generated = 0
  /\ ovf \in [Ovfs -> {None, Null, Cut}]

-----------------------------------------------------------------------------

List ==
  /\ at = "list"
  /\ at' = "info"
  /\ UNCHANGED <<vm, guest, generated, ovf>>

ListFails ==
  /\ at = "list"
  /\ at' = "failed"
  /\ UNCHANGED <<vm, guest, generated, ovf>>

\* The loop is at its end; at once if there is no VM.
Finish ==
  /\ at = "info"
  /\ vm = N + 1
  /\ at' = "done"
  /\ UNCHANGED <<vm, guest, generated, ovf>>

\* continue
Skip ==
  /\ at' = "info"
  /\ vm' = vm + 1
  /\ UNCHANGED <<guest, generated, ovf>>

InfoFails == at = "info" /\ vm \in VM /\ Skip

NoDisks == at = "info" /\ vm \in VM /\ DiskPaths(Names[vm]) = <<>> /\ Skip

\* One path that begins with the text of --path is enough.
Selected(n) ==
  Filtered => \E i \in DOMAIN DiskPaths(n) : DiskPaths(n)[i] \in Prefixed

NotSelected == at = "info" /\ vm \in VM /\ ~ Selected(Names[vm]) /\ Skip

\* Mutant: a VM without a path goes on.
GetInfoOfAny ==
  /\ at = "info"
  /\ vm \in VM
  /\ Selected(Names[vm]) \/ DiskPaths(Names[vm]) = <<>>
  /\ at' = "guest"
  /\ UNCHANGED <<vm, guest, generated, ovf>>

GetInfo ==
  /\ at = "info"
  /\ vm \in VM
  /\ DiskPaths(Names[vm]) # <<>>
  /\ Selected(Names[vm])
  /\ at' = "guest"
  /\ UNCHANGED <<vm, guest, generated, ovf>>

\* A guest that is off, or says nothing, is Unknown; the script says 64-bit
\* of every other.
GetGuestOSInfo ==
  /\ at = "guest"
  /\ at' = "format"
  /\ guest' \in {Unknown} \cup {g \in Reported[Names[vm]] : g.arch = "64-bit"}
  /\ UNCHANGED <<vm, generated, ovf>>

\* Too few paths, or a disk whose size cannot be read.
FormatFails == at = "format" /\ Skip

OpenOvf ==
  /\ at = "format"
  /\ ~ Mismatch(Names[vm])
  /\ at' = "write"
  /\ ovf' = [ovf EXCEPT ![OvfOf(Names[vm])] = Cut]
  /\ UNCHANGED <<vm, guest, generated>>

Count ==
  /\ at' = "info"
  /\ vm' = vm + 1
  /\ generated' = generated + 1
  /\ UNCHANGED guest

OpenOvfFails == at = "format" /\ ~ Mismatch(Names[vm]) /\ Count /\ UNCHANGED ovf

WriteOvf ==
  /\ at = "write"
  /\ Count
  /\ \E e \in Envelopes(Names[vm], guest) : ovf' = [ovf EXCEPT ![OvfOf(Names[vm])] = e]

WriteOvfFails == at = "write" /\ Count /\ UNCHANGED ovf

Over == at \in {"done", "failed"} /\ UNCHANGED vars

Next ==
  \/ List \/ ListFails \/ Finish
  \/ InfoFails \/ NoDisks \/ NotSelected \/ GetInfo
  \/ GetGuestOSInfo
  \/ FormatFails \/ OpenOvf \/ OpenOvfFails
  \/ WriteOvf \/ WriteOvfFails
  \/ Over

Spec == Init /\ [][Next]_vars

-----------------------------------------------------------------------------
(* Properties *)

\* Written whole in this run.
Whole(p) == ovf[p] \notin {None, Null, Cut}

(***************************************************************************)
(* An OVF written in this run describes what Hyper-V has under one name of *)
(* the list: all the drives, in their order, the networks, and a guest of  *)
(* that name or Unknown.  The name was selected and its first disk is      *)
(* there: a drive without a path never shifts the others or goes missing,  *)
(* and no guest is left over from the VM before, whichever VMs fail or     *)
(* write to the same file (main.go:43-89, ovfFormater.go:92-205).  It is   *)
(* not one VM: two of one name are merged into one (main.go:116-118).      *)
(***************************************************************************)
OvfDescribesVM ==
  \A p \in Ovfs : Whole(p) =>
    \E n \in {Names[v] : v \in 1 .. vm \cap VM} :
      /\ DiskPaths(n) # <<>> /\ OvfOf(n) = p /\ Selected(n)
      /\ DOMAIN ovf[p].files = DOMAIN Drives[n]
      /\ \A i \in DOMAIN Drives[n] :
           Drives[n][i] # None /\ ovf[p].files[i] = Base[Drives[n][i]]
      /\ ovf[p].networks = Networks(n)
      /\ ovf[p].description \in {Unknown} \cup Reported[n]

ProperOsTypes ==
  [g \in Guests |->
     IF Matching(g.caption) = {} THEN {"otherguest"}
     ELSE {OsTypeOf(i, g.arch) :
             i \in {c \in Matching(g.caption) : MostSpecific(c, g.caption)}}]

\* The same of every guest, also of one that only the remote tool can ask.
LookupsAgree ==
  \A g \in Guests :
    OsIDs[g] = {OwnID(OsType[g])} /\ OsType[g] \in ProperOsTypes[g]

(***************************************************************************)
(* The order in which Go walks the map of operating systems never shows:   *)
(* the osType is that of the most specific pattern in the caption, its     *)
(* number that of its own entry, and Other only if it has no entry         *)
(* (osUtils.go:80-194, ovfFormater.go:15-33).                              *)
(***************************************************************************)
OsIdIsOwn ==
  /\ LookupsAgree
  /\ \A p \in Ovfs : Whole(p) =>
       /\ ovf[p].osId = OwnID(ovf[p].osType)
       /\ ovf[p].osType \in ProperOsTypes[ovf[p].description]
=============================================================================
