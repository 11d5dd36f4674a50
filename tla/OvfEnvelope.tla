---------------------------- MODULE OvfEnvelope ----------------------------
(***************************************************************************)
(* FormatFromHyperV (src/ova/ovfFormater.go) as a function: the envelope   *)
(* that is made of what Hyper-V says of the name of a VM: of all that it   *)
(* has under that name, should VMs share it.  Left out are the sizes of    *)
(* the disks (see VmExport and VhdxSize) and the parts that are the same   *)
(* for every VM or copied from one number: CPU, memory, controller.        *)
(***************************************************************************)
EXTENDS OsLookup, Subsequence

CONSTANTS
  Drives,    (* per name: HardDrives, each a path or None                  *)
  Adapters,  (* per name: NetworkAdapters, each a name, None for one       *)
             (* without a name, or Null for one that is no object          *)
  Base,      (* filepath.Base of a path                                    *)
  OvfPath,   (* of a path: its extension replaced by .ovf                  *)
  Guests,    (* GuestOSInfo: records of caption and arch                   *)
  None, Null

\* The paths, in the order of the drives; a drive without one leaves no gap.
WithPath(n) == {i \in DOMAIN Drives[n] : Drives[n][i] # None}

DiskPaths(n) == Select(Drives[n], WithPath(n))

\* Mutant: drives and paths are not compared.
MismatchIgnored(n) == FALSE

\* The loop over the drives runs out of paths.
Mismatch(n) == Len(Drives[n]) > Len(DiskPaths(n))

\* The file names in References, one per drive.
Files(n) == [i \in DOMAIN DiskPaths(n) |-> Base[DiskPaths(n)[i]]]

\* The names in NetworkSection: an entry that is no object is skipped, but
\* counts for the default name of those behind it.
NetworkName(n, i) ==
  IF Adapters[n][i] = None THEN <<"VM Network", i>> ELSE Adapters[n][i]

Networks(n) ==
  LET objects == {i \in DOMAIN Adapters[n] : Adapters[n][i] # Null}
  IN  Select([i \in DOMAIN Adapters[n] |-> NetworkName(n, i)], objects)

OsType == [g \in Guests |-> MapCaptionToOsType(g.caption, g.arch)]

OsIDs == [g \in Guests |-> GetOVFOperatingSystemID(OsType[g])]

\* One for each number that the order of the map of operating systems allows.
Envelopes(n, guest) ==
  {[files |-> Files(n), networks |-> Networks(n),
    osType |-> OsType[guest], osId |-> id, description |-> guest] : id \in OsIDs[guest]}

\* The file that is written: beside the first disk, under its name.
OvfOf(n) == OvfPath[DiskPaths(n)[1]]
=============================================================================
