------------------------------ MODULE VmExport ------------------------------
(***************************************************************************)
(* The export of every VM of a Hyper-V host into the output directory: the *)
(* main goroutine spawns one worker per listed VM and waits for all of     *)
(* them; each worker queries its VM, shuts it down, downloads its disks    *)
(* over SCP and writes an OVF beside them (src/cmd/main.go:57-162).  The   *)
(* workers share nothing but the output directory, and there they meet:    *)
(* a download is named for the base name of the remote disk and an OVF for *)
(* the base name of the VM's first disk.                                   *)
(*                                                                         *)
(* A disk is a number of blocks; a local file maps every block offset to   *)
(* the disk the block came from, to Junk (bytes of an earlier run, or the  *)
(* hole left by writing beyond the end) or to None (beyond the end).       *)
(***************************************************************************)
EXTENDS Naturals, Sequences, FiniteSets

CONSTANTS
  NumVMs,      (* len(names): the VMs that Get-VM listed, at least one     *)
  Disks,       (* the disk files of the host                               *)
  Remote,      (* remotePaths: the disks of each VM, in HardDrives order   *)
  HardDrives,  (* len(HardDrives) of each VM: drives without a path count  *)
  Twins,       (* VMs whose name another VM has: Get-VM returns an array   *)
  Files,       (* file names in the output directory                       *)
  BaseName,    (* the part of a remote path behind the last separator      *)
  Ovfs,        (* OVF names in the output directory                        *)
  OvfName,     (* the file name with its extension replaced by .ovf        *)
  MaxSize,     (* blocks of the largest disk                               *)
  Size,        (* blocks of each disk                                      *)
  Vhdx,        (* the disks whose header GetVHDXVirtualSize understands    *)
  SaveInfo,    (* SAVE_VM_INFO = "true"                                    *)
  None, Empty, Junk,
  Earlier      (* stands for the readable OVF of an earlier run            *)

Worker == 1 .. NumVMs
Block  == 1 .. MaxSize

ASSUME HostAssumption ==
  /\ NumVMs \in Nat \ {0}
  /\ Remote \in [Worker -> Seq(Disks)]
  /\ HardDrives \in [Worker -> Nat]
  /\ \A v \in Worker : Len(Remote[v]) <= HardDrives[v]
  /\ MaxSize \in Nat \ {0}
  /\ Size \in [Disks -> Block]
  /\ Vhdx \subseteq Disks
  /\ Twins \subseteq Worker
  /\ \A v \in Twins : \E w \in Twins : w # v

ASSUME OutputAssumption ==
  /\ BaseName \in [Disks -> Files]
  /\ OvfName \in [Files -> Ovfs]
  /\ SaveInfo \in BOOLEAN

ASSUME MarkAssumption ==
  /\ {None, Junk} \cap Disks = {}
  /\ {None, Empty, Junk, Earlier} \cap Worker = {}
  /\ None # Junk /\ None # Empty /\ Empty # Junk
  /\ Earlier \notin {None, Empty, Junk}

VARIABLES
  main,      (* the main goroutine: "run", "joined" or "panicked"          *)
  spawned,   (* workers started so far                                     *)
  wg,        (* the WaitGroup's counter                                    *)
  pc,        (* where each worker stands                                   *)
  disk,      (* the disk a worker's loop is at, counted from 1             *)
  pos,       (* blocks written by a worker's open transfer                 *)
  capacity,  (* the capacities a worker has put into its envelope          *)
  power,     (* of the VMs, on the host                                    *)
  local,     (* the downloaded disks in the output directory               *)
  ovf        (* the OVFs there: whose envelope each one holds              *)

loop  == <<disk, pos, capacity>>
vars  == <<main, spawned, wg, pc, loop, power, local, ovf>>

-----------------------------------------------------------------------------

Ended   == {"ok", "failed"}
Working == {"info", "guest", "stop", "save", "open", "transfer", "format",
            "create", "write"}
\* The places behind a successful shutdown.
Stopped == {"save", "open", "transfer", "format", "create", "write", "ok"}

LocalFile(v, i) == BaseName[Remote[v][i]]
OvfFile(v)      == OvfName[LocalFile(v, 1)]

Tag     == Disks \cup {None, Junk}
Reading == Disks \cup Nat

TypeOK ==
  /\ main \in {"run", "joined", "panicked"}
  /\ spawned \in 0 .. NumVMs
  /\ wg \in Nat
  /\ pc \in [Worker -> {"new"} \cup Working \cup Ended]
  /\ disk \in [Worker -> Nat]
  /\ pos \in [Worker -> Nat]
  /\ capacity \in [Worker -> Seq(Reading)]
  /\ power \in [Worker -> {"running", "off"}]
  /\ local \in [Files -> [Block -> Tag]]
  /\ ovf \in [Ovfs -> Worker \cup {None, Empty, Junk, Earlier}]

NoBytes == [b \in Block |-> None]
Leftover == [b \in Block |-> Junk]

(***************************************************************************)
(* The output directory is never cleaned: any file may be there from an    *)
(* earlier run, an OVF also as a readable one.                             *)
(***************************************************************************)
Init ==
  /\ main = "run"
  /\ spawned = 0
  /\ wg = 0
  /\ pc = [v \in Worker |-> "new"]
  /\ disk = [v \in Worker |-> 1]
  /\ pos = [v \in Worker |-> 0]
  /\ capacity = [v \in Worker |-> <<>>]
  /\ power \in [Worker -> {"running", "off"}]
  /\ local \in [Files -> {NoBytes, Leftover}]
  /\ ovf \in [Ovfs -> {None, Junk, Earlier}]

-----------------------------------------------------------------------------
(* The main goroutine *)

\* Mutant: wg.Add(1) moved into the goroutine, where it may come too late.
SpawnWithoutAdd ==
  /\ main = "run"
  /\ spawned < NumVMs
  /\ spawned' = spawned + 1
  /\ pc' = [pc EXCEPT ![spawned + 1] = "info"]
  /\ UNCHANGED <<main, wg, loop, power, local, ovf>>

Spawn ==
  /\ main = "run"
  /\ spawned < NumVMs
  /\ spawned' = spawned + 1
  /\ wg' = wg + 1
  /\ pc' = [pc EXCEPT ![spawned + 1] = "info"]
  /\ UNCHANGED <<main, loop, power, local, ovf>>

\* wg.Wait() returns and main goes on to print its success message.
Join ==
  /\ main = "run"
  /\ spawned = NumVMs
  /\ wg = 0
  /\ main' = "joined"
  /\ UNCHANGED <<spawned, wg, pc, loop, power, local, ovf>>

-----------------------------------------------------------------------------
(* The workers *)

At(v, label)   == main # "panicked" /\ pc[v] = label
Goto(v, label) == pc' = [pc EXCEPT ![v] = label] /\ UNCHANGED wg

\* A return runs the deferred wg.Done().
Return(v, label) == pc' = [pc EXCEPT ![v] = label] /\ wg' = wg - 1

\* Every error is logged and ends the worker, whatever it has done so far.
Fail(v) ==
  /\ Return(v, "failed")
  /\ UNCHANGED <<main, spawned, loop, power, local, ovf>>

(***************************************************************************)
(* The result of Get-VM is asserted to be a JSON object.  Two VMs of one   *)
(* name make it an array, and the failed assertion ends the process.       *)
(***************************************************************************)
GetVMInfo(v) ==
  /\ At(v, "info")
  /\ v \notin Twins
  /\ Remote[v] # <<>>
  /\ Goto(v, "guest")
  /\ UNCHANGED <<main, spawned, loop, power, local, ovf>>

GetVMInfoFails(v) == At(v, "info") /\ Fail(v)

GetVMInfoPanics(v) ==
  /\ At(v, "info")
  /\ v \in Twins
  /\ main' = "panicked"
  /\ Return(v, "failed")
  /\ UNCHANGED <<spawned, loop, power, local, ovf>>

\* PowerShell Direct reaches the guest only while it runs.
GetGuestOSInfo(v) ==
  /\ At(v, "guest")
  /\ power[v] = "running"
  /\ Goto(v, "stop")
  /\ UNCHANGED <<main, spawned, loop, power, local, ovf>>

GetGuestOSInfoFails(v) == At(v, "guest") /\ Fail(v)

AfterStop == IF SaveInfo THEN "save" ELSE "open"

Shutdown(v) ==
  /\ At(v, "stop")
  /\ power' = [power EXCEPT ![v] = "off"]
  /\ Goto(v, AfterStop)
  /\ UNCHANGED <<main, spawned, loop, local, ovf>>

\* Mutant: the error of Stop-VM is logged and the worker goes on.
ShutdownErrorIgnored(v) ==
  /\ At(v, "stop")
  /\ Goto(v, AfterStop)
  /\ UNCHANGED <<main, spawned, loop, power, local, ovf>>

\* Stop-VM may have worked although its answer was lost.
ShutdownFails(v) ==
  /\ At(v, "stop")
  /\ \E p \in {power[v], "off"} : power' = [power EXCEPT ![v] = p]
  /\ Return(v, "failed")
  /\ UNCHANGED <<main, spawned, loop, local, ovf>>

SaveVMJson(v) ==
  /\ At(v, "save")
  /\ Goto(v, "open")
  /\ UNCHANGED <<main, spawned, loop, power, local, ovf>>

SaveVMJsonFails(v) == At(v, "save") /\ Fail(v)

-----------------------------------------------------------------------------
(* CopyRemoteFileWithProgress, once per disk *)

\* The SSH connection is up: os.Create makes or truncates the local file.
OpenTransfer(v) ==
  /\ At(v, "open")
  /\ Goto(v, "transfer")
  /\ local' = [local EXCEPT ![LocalFile(v, disk[v])] = NoBytes]
  /\ pos' = [pos EXCEPT ![v] = 0]
  /\ UNCHANGED <<main, spawned, disk, capacity, power, ovf>>

OpenTransferFails(v) == At(v, "open") /\ Fail(v)

\* A write at offset k: the gap below it reads as zero bytes.
WriteAt(file, k, tag) ==
  [b \in Block |-> IF b = k THEN tag
                   ELSE IF b < k /\ file[b] = None THEN Junk ELSE file[b]]

CopyBlock(v) ==
  LET d == Remote[v][disk[v]] IN
  /\ At(v, "transfer")
  /\ pos[v] < Size[d]
  /\ pos' = [pos EXCEPT ![v] = @ + 1]
  /\ local' = [local EXCEPT ![BaseName[d]] = WriteAt(@, pos[v] + 1, d)]
  /\ UNCHANGED <<main, spawned, wg, pc, disk, capacity, power, ovf>>

\* All disks are there: FormatFromHyperV starts over at the first.
NextDisk(v) ==
  IF disk[v] < Len(Remote[v])
  THEN disk' = [disk EXCEPT ![v] = @ + 1] /\ Goto(v, "open")
  ELSE disk' = [disk EXCEPT ![v] = 1] /\ Goto(v, "format")

\* Mutant: a failed transfer is logged and the loop goes on.
CopyErrorIgnored(v) ==
  /\ At(v, "transfer")
  /\ NextDisk(v)
  /\ UNCHANGED <<main, spawned, pos, capacity, power, local, ovf>>

\* Mutant: a broken transfer is tried again, without a limit.
CopyRetried(v) ==
  /\ At(v, "transfer")
  /\ Goto(v, "open")
  /\ UNCHANGED <<main, spawned, loop, power, local, ovf>>

\* The session breaks: the file stays as far as it was written.
CopyFails(v) == At(v, "transfer") /\ Fail(v)

CopyDone(v) ==
  /\ At(v, "transfer")
  /\ pos[v] = Size[Remote[v][disk[v]]]
  /\ NextDisk(v)
  /\ UNCHANGED <<main, spawned, pos, capacity, power, local, ovf>>

-----------------------------------------------------------------------------
(* FormatFromHyperV *)

Length(file) == Cardinality({b \in Block : file[b] # None})

(***************************************************************************)
(* What a drive may be announced with: the virtual size in the header of   *)
(* its file (named by the disk that header is of), or the length of the    *)
(* file in blocks, with a warning, when the header cannot be read, be it   *)
(* not a VHDX or a good one that fails to open.                            *)
(***************************************************************************)
CapacityOf(file) == ({file[1]} \cap Vhdx) \cup {Length(file)}

Measure(v, i) ==
  /\ At(v, "format")
  /\ disk[v] <= HardDrives[v]
  /\ disk[v] <= Len(Remote[v])
  /\ \E reading \in CapacityOf(local[LocalFile(v, i)]) :
       capacity' = [capacity EXCEPT ![v] = Append(@, reading)]
  /\ disk' = [disk EXCEPT ![v] = @ + 1]
  /\ UNCHANGED <<main, spawned, wg, pc, pos, power, local, ovf>>

\* Mutant: every drive measured on the first downloaded disk.
MeasureFirstDisk(v) == Measure(v, 1)

MeasureDisk(v) == Measure(v, disk[v])

\* More drives than paths, found only behind the downloads, or a file that
\* can neither be read nor be looked at any more.
FormatFails(v) ==
  /\ At(v, "format")
  /\ disk[v] <= HardDrives[v]
  /\ Fail(v)

Marshal(v) ==
  /\ At(v, "format")
  /\ HardDrives[v] < disk[v]
  /\ Goto(v, "create")
  /\ UNCHANGED <<main, spawned, loop, power, local, ovf>>

\* os.WriteFile truncates, writes and closes; its error is dropped.
CreateOvf(v) ==
  /\ At(v, "create")
  /\ ovf' = [ovf EXCEPT ![OvfFile(v)] = Empty]
  /\ Goto(v, "write")
  /\ UNCHANGED <<main, spawned, loop, power, local>>

CreateOvfFails(v) ==
  /\ At(v, "create")
  /\ Return(v, "ok")
  /\ UNCHANGED <<main, spawned, loop, power, local, ovf>>

\* Over another worker's longer envelope, that one's tail stays behind.
WriteOvf(v) ==
  /\ At(v, "write")
  /\ \E content \in IF ovf[OvfFile(v)] = Empty THEN {v} ELSE {v, Junk} :
       ovf' = [ovf EXCEPT ![OvfFile(v)] = content]
  /\ Return(v, "ok")
  /\ UNCHANGED <<main, spawned, loop, power, local>>

WriteOvfFails(v) ==
  /\ At(v, "write")
  /\ \E content \in {ovf[OvfFile(v)], Junk} :
       ovf' = [ovf EXCEPT ![OvfFile(v)] = content]
  /\ Return(v, "ok")
  /\ UNCHANGED <<main, spawned, loop, power, local>>

-----------------------------------------------------------------------------

Query(v) ==
  \/ GetVMInfo(v) \/ GetVMInfoFails(v) \/ GetVMInfoPanics(v)
  \/ GetGuestOSInfo(v) \/ GetGuestOSInfoFails(v)
  \/ Shutdown(v) \/ ShutdownFails(v)
  \/ SaveVMJson(v) \/ SaveVMJsonFails(v)

Download(v) ==
  \/ OpenTransfer(v) \/ OpenTransferFails(v)
  \/ CopyBlock(v) \/ CopyFails(v) \/ CopyDone(v)

Format(v) ==
  \/ MeasureDisk(v) \/ FormatFails(v) \/ Marshal(v)
  \/ CreateOvf(v) \/ CreateOvfFails(v)
  \/ WriteOvf(v) \/ WriteOvfFails(v)

Work(v) == Query(v) \/ Download(v) \/ Format(v)

\* The export is over: main has joined its workers or the process is dead.
Over == main # "run" /\ UNCHANGED vars

Next == Spawn \/ Join \/ (\E v \in Worker : Work(v)) \/ Over

Spec == Init /\ [][Next]_vars

(***************************************************************************)
(* The Go scheduler runs every runnable goroutine.  That a worker blocked  *)
(* in a WinRM or SCP call goes on is an assumption on the host: the SCP    *)
(* transfer has no deadline of its own (context.Background()).             *)
(***************************************************************************)
Fairness ==
  /\ WF_vars(Spawn)
  /\ WF_vars(Join)
  /\ \A v \in Worker : WF_vars(Work(v))

FairSpec == Spec /\ Fairness

-----------------------------------------------------------------------------
(* Properties *)

\* No other download of this run goes to the file of disk i of VM v.
Sole(v, i) ==
  \A w \in Worker : \A j \in 1 .. Len(Remote[w]) :
    LocalFile(w, j) = LocalFile(v, i) => w = v /\ j = i

\* No other VM writes the OVF of VM v.
SoleOvf(v) ==
  \A w \in Worker :
    Remote[w] # <<>> /\ OvfFile(w) = OvfFile(v) => w = v

\* The file holds disk d, the first n blocks of it and nothing else.
Holds(file, d, n) == \A b \in Block : file[b] = IF b <= n THEN d ELSE None

Intact(v, i) == Holds(local[LocalFile(v, i)], Remote[v][i], Size[Remote[v][i]])

\* The virtual size or the full length of the disk itself.
OwnCapacity(v, i) == ({Remote[v][i]} \cap Vhdx) \cup {Size[Remote[v][i]]}

(***************************************************************************)
(* Worker v answers for the OVF that can be read under its VM's name: it   *)
(* has written it, or it has reported success without having replaced the  *)
(* one of an earlier run (the error of os.WriteFile is dropped).           *)
(***************************************************************************)
Vouches(v) ==
  \/ \E o \in Ovfs : ovf[o] = v
  \/ pc[v] = "ok" /\ ovf[OvfFile(v)] = Earlier

(***************************************************************************)
(* The OVF of a VM is a commit mark: where a worker answers for one, every *)
(* disk of the VM whose local name no other download uses is complete and  *)
(* unmixed, whatever the other workers do and whatever files an earlier    *)
(* run left (main.go:132-157, hyperv_vm_actions.go:165-181).  It is one    *)
(* for no reader who does not know how the worker ended: nothing takes the *)
(* readable OVF of an earlier run away, which stands beside a disk cut     *)
(* short by this run's os.Create as long as the worker works, and for good *)
(* once its transfer has failed (main.go:146).                             *)
(***************************************************************************)
OvfIsCommitMark ==
  \A v \in Worker :
    Vouches(v) => \A i \in 1 .. Len(Remote[v]) : Sole(v, i) => Intact(v, i)

(***************************************************************************)
(* The capacities an OVF announces are those of the VM's own disks, one    *)
(* per hard drive and in their order (ovfFormater.go:91-132): the virtual  *)
(* size or the length of the whole disk, never that of another disk or of  *)
(* a part.  Stated where no other download uses the name of the disk.      *)
(***************************************************************************)
CapacityOfOwnDisk ==
  \A o \in Ovfs : \A v \in Worker :
    ovf[o] = v =>
      /\ Len(capacity[v]) = HardDrives[v]
      /\ \A i \in 1 .. Len(Remote[v]) :
           Sole(v, i) =>
             capacity[v][i] \in OwnCapacity(v, i)

(***************************************************************************)
(* When main passes wg.Wait() no worker is left that could still change    *)
(* the output directory under the copy to the NFS server and the migration *)
(* (main.go:77-82, 161).                                                   *)
(***************************************************************************)
QuietAfterJoin == main = "joined" => \A v \in Worker : pc[v] \in Ended

(***************************************************************************)
(* No block of a disk is read from the host while a VM it is attached to   *)
(* runs (main.go:116-121 before 132-151): stated for the disks of one VM,  *)
(* as a VM that shares its disk is not waited for.                         *)
(***************************************************************************)
DisksReadAtRest ==
  [][\A v \in Worker : \A i \in 1 .. Len(Remote[v]) :
       /\ \A w \in Worker \ {v} : \A j \in 1 .. Len(Remote[w]) :
            Remote[w][j] # Remote[v][i]
       /\ \E b \in Block :
            /\ local[LocalFile(v, i)][b] # Remote[v][i]
            /\ local'[LocalFile(v, i)][b] = Remote[v][i]
       => power[v] = "off"]_vars

\* The VMs that share neither the name of a disk nor that of their OVF.
Clean ==
  {v \in Worker : /\ Remote[v] # <<>>
                  /\ SoleOvf(v)
                  /\ \A i \in 1 .. Len(Remote[v]) : Sole(v, i)}

Delivered == {v \in Clean : \A i \in 1 .. Len(Remote[v]) : Intact(v, i)}
Announced == {v \in Clean : ovf[OvfFile(v)] = v}

Promise == INSTANCE ExportPromise WITH
  VMs <- Clean, delivered <- Delivered, announced <- Announced,
  open <- (main = "run")

(***************************************************************************)
(* The workers keep the promise to the steps behind wg.Wait(): for the VMs *)
(* whose names collide with no other, disks are delivered before the OVF   *)
(* announces them, nothing delivered or announced is undone by another     *)
(* worker, and nothing changes once main has gone on (main.go:77-161).     *)
(***************************************************************************)
KeepsPromise == Promise!Spec

(***************************************************************************)
(* Unless the process dies, the export ends: no worker is lost and no      *)
(* WaitGroup is left waiting, however many of the steps fail.              *)
(***************************************************************************)
ExportEnds == <>(main # "run")

-----------------------------------------------------------------------------
(* The inductive invariant behind the safety properties *)

\* The workers the WaitGroup counts are those between go and return.
Active == {v \in Worker : pc[v] \in Working}

Counted == wg = Cardinality(Active)

Started == \A v \in Worker : pc[v] = "new" <=> spawned < v

Off == \A v \in Worker : pc[v] \in Stopped => power[v] = "off"

\* Where a worker's two loops over the disks can stand.
Looping ==
  \A v \in Worker :
    /\ pc[v] \in {"guest", "stop", "save", "open", "transfer", "format",
                  "create", "write", "ok"} => Remote[v] # <<>>
    /\ pc[v] \in {"new", "info", "guest", "stop", "save"} => disk[v] = 1
    /\ pc[v] \in {"open", "transfer"} => disk[v] \in 1 .. Len(Remote[v])
    /\ pc[v] = "format" => disk[v] \in 1 .. Len(Remote[v]) + 1

Fetched(v, i) ==
  \/ pc[v] \in {"open", "transfer"} /\ i < disk[v]
  \/ pc[v] \in {"format", "create", "write", "ok"}

\* What a worker has downloaded stays, and what it is writing is a prefix.
Kept ==
  \A v \in Worker : \A i \in 1 .. Len(Remote[v]) :
    Sole(v, i) =>
      /\ Fetched(v, i) => Intact(v, i)
      /\ pc[v] = "transfer" /\ i = disk[v] =>
           /\ pos[v] <= Size[Remote[v][i]]
           /\ Holds(local[LocalFile(v, i)], Remote[v][i], pos[v])

\* The disks a worker has still to fetch.
Ahead(v, i) ==
  \/ pc[v] \in {"new", "info", "guest", "stop", "save"}
  \/ pc[v] = "open" /\ disk[v] <= i
  \/ pc[v] = "transfer" /\ disk[v] < i

\* No block of them is there before their transfer.
Unfetched ==
  \A v \in Worker : \A i \in 1 .. Len(Remote[v]) :
    Sole(v, i) /\ Ahead(v, i) =>
      \A b \in Block : local[LocalFile(v, i)][b] # Remote[v][i]

\* The capacities of the first n drives are those of the worker's own disks.
Measured(v, n) ==
  /\ n <= Len(Remote[v])
  /\ Len(capacity[v]) = n
  /\ \A i \in 1 .. n : Sole(v, i) => capacity[v][i] \in OwnCapacity(v, i)

Measuring ==
  \A v \in Worker :
    /\ pc[v] \notin {"format", "create", "write", "ok", "failed"} =>
         capacity[v] = <<>>
    /\ pc[v] = "format" => Measured(v, disk[v] - 1)
    /\ pc[v] \in {"create", "write", "ok"} => Measured(v, HardDrives[v])

Marked == \A o \in Ovfs : \A v \in Worker : ovf[o] = v => pc[v] = "ok"

(***************************************************************************)
(* Together inductive: what a worker knows of its files follows from where *)
(* it stands, a transfer writes a growing prefix, and an OVF names a       *)
(* worker only behind that worker's last step (main.go:77-161).            *)
(***************************************************************************)
IInv ==
  /\ TypeOK /\ Counted /\ Started /\ QuietAfterJoin
  /\ Off /\ Looping /\ Kept /\ Unfetched /\ Measuring /\ Marked

-----------------------------------------------------------------------------
(* The measure behind ExportEnds *)

\* How far a worker is.
Place(v) ==
  CASE pc[v] = "new"                 -> 0
    [] pc[v] = "info"                -> 1
    [] pc[v] = "guest"               -> 2
    [] pc[v] = "stop"                -> 3
    [] pc[v] = "save"                -> 4
    [] pc[v] \in {"open", "transfer"} -> 5
    [] pc[v] = "format"              -> 6
    [] pc[v] = "create"              -> 7
    [] pc[v] = "write"               -> 8
    [] OTHER                         -> 9

\* And within the copy of one disk.
Written(v) == IF pc[v] = "transfer" THEN pos[v] + 1 ELSE 0

\* The places a worker can be at are finitely many.
Bounded ==
  \A v \in Worker : disk[v] \in 1 .. HardDrives[v] + 1 /\ pos[v] \in 0 .. MaxSize

Further(v) ==
  \/ Place(v) < Place(v)'
  \/ Place(v)' = Place(v) /\ disk[v] < disk'[v]
  \/ Place(v)' = Place(v) /\ disk'[v] = disk[v] /\ Written(v) < Written(v)'

\* The worker goes on, and no other is set back by it.
Alone(v) ==
  /\ Further(v)
  /\ \A w \in Worker \ {v} :
       pc'[w] = pc[w] /\ disk'[w] = disk[w] /\ pos'[w] = pos[w]

\* Main waits only for a worker that is still at work.
NeverStuck ==
  main = "run" =>
    \/ spawned < NumVMs
    \/ wg = 0
    \/ \E v \in Worker : pc[v] \in Working

-----------------------------------------------------------------------------
(* What the tool says *)

\* What README.md:10 says the tool does: it "Downloads VM `.vhdx` disks".
\* When every worker has reported success, each disk of each VM is in the
\* output directory.
DisksDownloaded ==
  main = "joined" /\ (\A v \in Worker : pc[v] = "ok") =>
    \A v \in Worker : \A i \in 1 .. Len(Remote[v]) : Intact(v, i)

=============================================================================
