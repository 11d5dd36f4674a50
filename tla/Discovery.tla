----------------------------- MODULE Discovery -----------------------------
(***************************************************************************)
(* What RunOvaMigration makes of the first OVF in the output directory     *)
(* (src/cluster/ocpUtils.go): the entries of the network map and of the    *)
(* storage map.  It scans the lines of the file, so that a name is taken   *)
(* as XML writes it.                                                       *)
(*                                                                         *)
(* An identifier is from the pool of known ones, or a hash; the hash is    *)
(* external, and told apart by what goes into it.                          *)
(***************************************************************************)
EXTENDS Subsequence

CONSTANTS
  Escaped(_),  (* a network's name as the marshaller writes it             *)
  Vhdx         (* the file names that end in .vhdx                         *)

\* Mutant: the pool of known identifiers is used again and again.
NetworkIDFromPool(name, i) == <<"known network", 1>>

generateNetworkID(name, i) ==
  IF i = 1 THEN <<"known network", 1>> ELSE <<"hash", name>>

discoverNetworkMappings(ovf) ==
  IF ovf.networks = <<>>
  THEN << [id |-> <<"known network", 1>>, name |-> "Network Adapter"] >>
  ELSE [i \in DOMAIN ovf.networks |->
          LET name == Escaped(ovf.networks[i])
          IN  [id |-> generateNetworkID(name, i), name |-> name]]

\* Only the position i tells two files of one name and one size apart.
generateStorageID(file, i) ==
  IF i <= 2 THEN <<"known disk", i>> ELSE <<"hash", file, i>>

\* The .vhdx files of the OVF or, if it has none, all there are in output.
discoverStorageMappings(ovf, downloads) ==
  LET own   == Select(ovf.files, {i \in DOMAIN ovf.files : ovf.files[i] \in Vhdx})
      disks == IF own = <<>> THEN downloads ELSE own
  IN  [i \in DOMAIN disks |-> generateStorageID(disks[i], i)]
=============================================================================
