--------------------------- MODULE MCOvfGenerator ---------------------------
(***************************************************************************)
(* Seven VMs, with --path C:\VMs: one with three disks and a caption of    *)
(* any kind; one with a drive without a path; one whose first disk has the *)
(* name of the first VM's but for the extension; one elsewhere; one        *)
(* without a disk; and two of one name, the last in the list, with a disk  *)
(* each.  What the migration reads is checked of the same OVFs.            *)
(***************************************************************************)
EXTENDS MigrationMaps

CONSTANTS net, amp, ampEscaped

MCNames == <<1, 2, 3, 4, 5, 6, 6>>

MCDrives == <<
  <<"C:/VMs/a.vhdx", "C:/VMs2/b.VHDX", "C:/VMs/c.avhdx">>,
  <<None, "C:/VMs/d.vhdx">>,
  <<"C:/VMs/a.vhd", "C:/VMs/e.vhdx", "C:/VMs/f.vhdx", "C:/VMs/g.vhdx">>,
  <<"D:/h.vhdx">>,
  <<None>>,
  <<"C:/VMs/i.vhdx", "C:/VMs/j.vhdx">> >>

MCAdapters == <<
  <<net, None, amp>>, <<>>, <<amp, Null, net, None>>, <<net>>, <<Null>>,
  <<net, net>> >>

MCPaths == UNION {{MCDrives[v][i] : i \in DOMAIN MCDrives[v]} : v \in 1 .. 6} \ {None}

MCBase == [p \in MCPaths |->
  CASE p = "C:/VMs/a.vhdx" -> "a.vhdx" [] p = "C:/VMs2/b.VHDX" -> "b.VHDX"
    [] p = "C:/VMs/c.avhdx" -> "c.avhdx" [] p = "C:/VMs/d.vhdx" -> "d.vhdx"
    [] p = "C:/VMs/a.vhd" -> "a.vhd" [] p = "C:/VMs/e.vhdx" -> "e.vhdx"
    [] p = "C:/VMs/f.vhdx" -> "f.vhdx" [] p = "C:/VMs/g.vhdx" -> "g.vhdx"
    [] p = "D:/h.vhdx" -> "h.vhdx" [] p = "C:/VMs/i.vhdx" -> "i.vhdx"
    [] p = "C:/VMs/j.vhdx" -> "j.vhdx"]

MCOvfPath == [p \in MCPaths |->
  IF p \in {"C:/VMs/a.vhdx", "C:/VMs/a.vhd"} THEN "a.ovf"
  ELSE IF p = "C:/VMs/d.vhdx" THEN "d.ovf"
  ELSE IF p = "D:/h.vhdx" THEN "h.ovf"
  ELSE IF p = "C:/VMs/i.vhdx" THEN "i.ovf" ELSE "never first"]

Captions == {
  Cases[i][1] : i \in DOMAIN Cases} \cup {
  "microsoft windows server 2012 r2 standard", "oracle linux server 9.4",
  "red hat enterprise linux 8.10", "suse linux enterprise server 15",
  "microsoft windows server 2025 datacenter"}

FirstGuests == [caption : Captions, arch : {"64-bit", "32-bit"}]

MCGuests ==
  FirstGuests \cup [caption : {"unknown", "ubuntu 24.04 lts"}, arch : {"64-bit"}]

MCReported == <<
  FirstGuests,
  {}, [caption : {"ubuntu 24.04 lts"}, arch : {"64-bit"}], {}, {},
  [caption : {"suse linux enterprise server 15"}, arch : {"64-bit"}]>>

MCPrefixed == MCPaths \ {"D:/h.vhdx"}

MCEscaped(name) == IF name = amp THEN ampEscaped ELSE name

MCDownloads == <<"a.vhdx", "e.vhdx">>

MCVhdx == {"a.vhdx", "d.vhdx", "e.vhdx", "f.vhdx", "g.vhdx", "h.vhdx",
           "i.vhdx", "j.vhdx"}
=============================================================================
