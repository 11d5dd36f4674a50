----------------------------- MODULE MCNfsCopy -----------------------------
(* An output directory for TLC: an OVF and its disk, a larger disk of the  *)
(* same base name in a subdirectory, and a file that is not copied.        *)
EXTENDS NfsCopy

DirName == <<"vm.json", "old.vhdx", "vm.ovf", "vm.vhdx", "vm.vhdx">>
DirSize == <<1, 0, 1, 3, 5>>
=============================================================================
