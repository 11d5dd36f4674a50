---------------------------- MODULE MigrationMaps ----------------------------
(***************************************************************************)
(* The OVFs of the generator in the hands of the migration: what the       *)
(* network map and the storage map make of each of them.                   *)
(***************************************************************************)
EXTENDS OvfGenerator, Discovery

CONSTANT Downloads  (* the .vhdx files in output *)

(***************************************************************************)
(* In the maps that are made of an OVF, no two networks of different names *)
(* and no two disks share an identifier, although some are from a pool and *)
(* others are hashes (ocpUtils.go:517-550, 675-726).                       *)
(***************************************************************************)
IdsApart ==
  \A p \in Ovfs : Whole(p) =>
    LET networks == discoverNetworkMappings(ovf[p])
        disks    == discoverStorageMappings(ovf[p], Downloads)
    IN  /\ \A i, j \in DOMAIN networks :
             networks[i].name # networks[j].name => networks[i].id # networks[j].id
        /\ \A i, j \in DOMAIN disks : i # j => disks[i] # disks[j]
=============================================================================
