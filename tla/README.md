# hyperV-to-ova in TLA+

The tool exports the VMs of a Hyper-V host (shut down, download the disks, write
an OVF beside them), copies the result to an NFS share and has Forklift migrate
one VM to OpenShift. This directory holds TLA+ modules that model it, TLC
configurations that check them on small instances, and TLAPS proofs of what was
checked, for every value of the constants. Line numbers are those of `src/`.

## Inventory

| Component | State it keeps | Operations | What is hard | What makes it correct |
|---|---|---|---|---|
| **VM export**: `cmd/main.go:52-162`, `common/hyperv_vm_actions.go`, `common/utils.go` | WaitGroup; per worker its place, disk index, open transfer; on the host the power of each VM; `output/` | spawn, join; per VM: query, guest query, shutdown, save JSON, download each disk, format | one goroutine per VM, a shared output directory with leftovers, every call may fail, no cleanup, a panic ends all | a worker vouches for no OVF but behind whole disks; disks are read at rest; main goes on only behind the last write |
| **OVF writer**: `ova/ovfFormater.go`, `ova/ovfEnvelop.go` | none beyond the call | measure each drive, marshal, write | pairing drives and paths; two workers on one OVF name; a dropped write error | capacities are those of the VM's own disks |
| **VHDX virtual size**: `ova/vhdxVirtualSize.go` | file position, region | scan two region tables, scan the metadata table | damaged or short files; offsets that wrap | reads only inside the region; the second copy is used when the first names no region |
| **NFS copy**: `nfs/nfs_server_utils.go`, `cmd/main.go:41-51` | share, offset in the open file | prompt, sudo child, walk, sendfile, fallback | short transfers, two owners of one offset, fallback in the middle, a source that shrinks, names flattened | what is reported as copied equals its source |
| **Migration**: `cluster/ocpUtils.go` | six objects on the cluster with constant names; the deadline | discover, apply six manifests, poll | reruns meet old objects, failure between two applies, Forklift runs concurrently | a fresh run's success is of its own plan; no more than one VM is migrated |
| **Manifest templates**: `cluster/migrationTemplates.go` | - | fill in six manifests | objects that name each other, applied one by one; one VM id for all plans | what an object names is there from the moment it is, but for two providers |
| **Cluster login**: `cluster/clusterLogin.go` | mounts, logins of `oc` in kubeconfig files | mount, read password, logout, login | existing logins to other clusters, mounts that stay, two kubeconfig files in use | a login is replaced only by one to the wanted cluster; mounts do not pile up |
| **OS mapping**: `os/osUtils.go`, `ova/ovfFormater.go:15-33` | tables | look up | keys with capitals, order of a Go map | an OS gets its own id |
| **Driver**: `cmd/main.go:164-182`, `common/utils.go:42-48` | standard input | two questions | each question buffers the input of the next; `names[0]` whatever became of it | what is migrated was exported |
| **Offline generator**: `cmd/ovf-generator/main.go` | a counter | loop over the names of local VMs | errors skipped, writes not checked, VMs of one name | an OVF describes all that is under one name |
| **virt-v2v**: `common/v2v.go` | - | - | never called | - |

Paths are those below `src/`. The export hands the files in `output/` to the copy
and to the discovery of the migration, in program order behind `wg.Wait()`. The copy runs in a child process
of the same binary. The migration talks to the cluster through `oc`, `kubectl`
and one dynamic client, and to Forklift only through the objects there.

Everything found hard to test is listed at its line in `PROJECT.json` under
`hazards`, with the properties that cover it or the reason why none does.

## Modules

| Module | Stands for | |
|---|---|---|
| `ExportPromise` | what the export promises to the steps behind it | abstract |
| `VmExport` | main's spawn loop and join, the worker goroutine and all it calls | implements `ExportPromise` |
| `VhdxSize` | `GetVHDXVirtualSize` | |
| `CopyPromise` | what the copy promises to main | abstract |
| `NfsCopy` | `CopyToNFSServer` and the sudo child | implements `CopyPromise` |
| `MigrationPromise` | what the migration promises to main | abstract |
| `OvaMigration` | `RunOvaMigration`, `waitForMigrationComplete`, Forklift as environment | implements `MigrationPromise` |
| `ClusterLogin` | `LoginToCluster` over several runs on one machine | |
| `MigrationTool` | main over several runs: export, copy, login, migration | composes `ExportPromise`, `CopyPromise` and `MigrationPromise` |
| `OsLookup` | the tables of operating systems and both lookups | operators |
| `Subsequence` | what a loop with `append` collects of a sequence | operators |
| `OvfEnvelope` | `FormatFromHyperV` as a function of what Hyper-V says of a VM | operators, over `OsLookup` and `Subsequence` |
| `Discovery` | the network and storage maps made of an OVF | operators, over `Subsequence` |
| `OvfGenerator` | the offline generator | over `OvfEnvelope` |
| `MigrationMaps` | the generator's OVFs as the migration reads them | composes `OvfGenerator` and `Discovery` |
| `MC*` | instances for TLC, with their `.cfg` files | |
| `*_proofs` | theorems about the module they extend | |

Definitions whose comment begins with "Mutant:" are not part of any
specification. Each is the definition below it with a plausible bug; replacing
the one by the other breaks the property `PROJECT.json` names with it.

### VmExport

A worker is its VM's number. `pc[v]` is the place in the goroutine of
`main.go:81-160`; the labels are `info`, `guest`, `stop`, `save`, `open`,
`transfer`, `format`, `create`, `write`, and `ok` or `failed` behind the return.
Each step that can fail has an action of its own for it (`...Fails`), as the
code returns there, and each return runs `wg.Done()`. `OpenTransfer` is the SSH
connection and `os.Create`; `CopyBlock` is one write of the SCP stream; blocks of
concurrent workers interleave. `MeasureDisk` is one turn of the loop at
`ovfFormater.go:94`; a disk whose header cannot be read, be it a good VHDX that
fails to open, is announced with the length of its file (`CapacityOf`). `os.WriteFile` is two steps, truncate and write, because
another worker may come between; its error is dropped, so the failing
alternatives end with `ok`.

The data is reduced to what the properties tell apart. A disk is a number of
blocks; a local file says of each block offset which disk the block is from.
A write beyond the end leaves a hole. `local` and `ovf` may hold anything of an
earlier run at the start. An OVF is the number of the worker whose envelope it
holds, `Empty` when truncated, `Earlier` when it is a readable one of an earlier
run, `Junk` when it is no envelope at all. A worker `Vouches` for the OVF it has
written, and for an earlier one that it reported success beside; nothing in the
code vouches for the earlier OVF of a VM whose worker failed. The header
that `GetVHDXVirtualSize` reads is the first block, and the capacity it gives is
named by the disk it belongs to. The drives without a path are counted in
`HardDrives`; VMs with a name that another VM has are `Twins` and panic at
`main.go:93`.

Left out: VMs started by somebody else during the export; the progress display.

### VhdxSize

The file is chosen in `Init`: two copies of the region table and the table in
the metadata region, each usable or not, with the count of the header and the
entries that are really there. `Word` and `Half` are 2^64 and 2^32 in the code;
sums wrap (`Plus`), and a `Seek` refuses an offset that is negative as a signed
word. `ReadMetadata` reads all entries before `NextItem` looks at one, as the
code does. The size itself is not modelled, only where it is read.

### NfsCopy

A file on the share is the sequence of the block numbers of its source; block 0
is left from an earlier run. `offset` is that of `unix.Sendfile`, which the kernel
advances, plus what line 86 adds: `(offset + n) + n`. sendfile does not move the
position of the open source, so the fallback reads from the start, and it writes
behind what was sent. A directory whose reading fails is skipped (`Overlook`). The
tool itself does not change the sources during the walk (`QuietAfterJoin` of
`VmExport`); another program may cut one short while it is copied (`CutShort`,
external): then a call of sendfile returns 0 and ends the loop in success
(`SendNothing`), and io.Copy meets the end early. The error of the deferred Close
(line 113), which CopyFile drops, is not modelled: a share that loses what a write
has returned for is as good as one that changes by itself.

`CopyPromise` keeps of all this what main and the migration depend on: the entry
the walk is at, what each entry holds, and what each file of the share holds.
`KeepsPromise` maps `OpenFile` to `Open`, the blocks and the fall from sendfile to
`io.Copy` to stutters, and the return of `CopyFile` to `Copied`, behind which the
file is its source, or damaged: of another length than its source, or of a source
that was cut short meanwhile (`Held`). That the damaged file of a source left alone
differs in its length is what the promise is about: with the offset advanced twice,
and a fallback in the middle, it could as well be a mixture.

### OvaMigration

The six objects are `secret`, `map` (storage, network), `provider`, `plan` and
`migration`. An apply sets what its manifest names: the maps the OVF they were
made from, the plan the name and the id of a VM; the manifest of the migration names
only the plan, so that applying it again changes nothing. A failed apply may have
taken effect. `Refers` is which object a manifest names; `host` is the destination
provider, which no run applies (`NeverApplied`). `Rerun` is another run of the tool
on the same cluster, for any VM.

The id is that of `discoverVMID`: the constant `KnownID`, whichever VM it is asked
for. `VMID` is the id each VM has in Forklift's inventory, so that the plan of one VM
may have the id of another. Forklift (external) makes the provider ready, starts the
migration for a VM the plan names by its id or by its name (which of the two it goes
by cannot be read from this code), and ends it. `Known` are the VMs the
constant id stands for: where no other VM has it, `FreshRunHonest` and
`KeepsPromise` are about the VM of the run alone. `left` counts polls
until the deadline. Both the secret's and the maps' contents are reduced to the
VM whose OVF they are from; when the disks of that OVF cannot be parsed the code
falls back to the downloads themselves, which is told apart in `Discovery` only.

`MigrationPromise` keeps of all this what main depends on: the stage of a run, its
VM, the OVF it went by, and the one migration object, which is for that VM or for
one of `Known`. `KeepsPromise` maps the
discovery to `Discover`, the last apply to `Create`, each error to `GiveUp` (with
or without the effect of the apply that failed), and the applies before the last
to stutters.

### ClusterLogin

`login` is the place in `LoginToCluster` and `fetchClusterPassword`. A run has the
cluster of `CLUSTER_NAME`, `wanted`, and the file `KUBECONFIG` names, which `oc`
and `kubectl` follow; `getMigration` builds its client from the home directory's
file whatever `KUBECONFIG` says. `mounts` counts the mounts over each other on
the mount point: the code mounts when the wanted cluster's directory cannot be
seen, and never unmounts. `Named` is `strings.Contains(server, wanted)`, as a
relation between clusters: a login to `demo2` is taken for one to `demo`. `missed` is a history variable, the runs that mounted
and did not find their cluster.

### MigrationTool

main, with `phase` as its place, run `MaxRuns` times over one output directory,
share and cluster. `Deliver`, `Announce` and `Close` are those of `ExportPromise`;
`Download` and `OpenOvf` say when a file is incomplete, as the workers do.
`AskYesNo` makes a `bufio.Reader` per question: at a terminal a read returns one
line, from a pipe any number, and what is behind the first line is lost. `sudo`
reads its password from a terminal only. The child process is `CopyPromise`, file
by file in the lexical order of the names (`FileAt`), so that a file may arrive
damaged although the walk goes on; main sees of the child only how it ends. The
migration's steps are those of `MigrationPromise`, with two conjuncts main's data
decides: `Discover` needs a disk and takes the first OVF by name, `Listed`,
complete or not. `Login` is a success or a failure here; how it comes about is
`ClusterLogin`. `EndToEnd` says of the files on the share what `CopyPromise` leaves
of them: each is whole or damaged. Read with `Truncated` and `LengthTells` of
`NfsCopy`, a disk larger than one transfer is of the second kind unless the fallback
copied it, and, if no other program has cut it short, a comparison of lengths would
have told. What `EndToEnd` says of Forklift is that it works on the VM of the run
or on the one in `Known`: the constant id allows no more. It says nothing of a VM
whose export failed, although the tool goes on to migrate it.

Left out: an interrupt of main (its child and Forklift would go on); an output
directory that cannot be read, behind which the empty copy succeeds (it is in
`NfsCopy` and `CopyPromise` as `Overlook`).

### OsLookup, OvfEnvelope, Discovery

These are operators. Captions and osTypes are strings, as the lookups look for
one in another. `Cases` keeps the order of the `switch`. `GetOVFOperatingSystemID`
returns the set of the numbers that the order of Go's map allows. The code
lower-cases the name before the exact match, and most keys have capitals:
`Uncapitalised` are those that can be matched exactly, and the others are only
found within a longer name. `windows7_64guest`, `windows8_64guest` and their kin
have no key within them and get Other; that is consistent, and stays so
(`OsIdIsOwn`).

`Select` is the loop with `append` of `extractDiskPaths`, of the networks and of
the storage map: the elements at the chosen places, the k-th being that with k
chosen places up to it. `DiskPaths` leaves no gap for a drive without a path, `Mismatch` is how the
loop over the drives notices. `Networks` skips an adapter that is no object.
Names are read back as XML writes them (`Escaped`). The first network and the
first two disks get identifiers from a pool, all others a hash, told apart by
what goes into it. The identifier of the VM is a constant of the code.

### OvfGenerator

One turn of the loop is `info`, `guest`, `format`, `write`; every `continue` of
`main.go:49-91` is an action. A VM is `Selected` when one of its paths begins with
the text of `--path`, so that a sibling directory with a longer name counts, and
the OVF may be beside a first disk outside of it. `Names` is the list, in which a name
may be twice: PowerShell is asked by name and answers with the drives of both
VMs, so that `Drives` and all else are what Hyper-V has under a name, and an OVF
describes a name. The PowerShell script says 64-bit of every guest that answers.
`OpenOvf` and `WriteOvf` are two steps of `os.WriteFile`; both failing alternatives
count the VM.

## Runs

| Run | Instance | States | Shows |
|---|---|---|---|
| `export_colliding` | 2 VMs, 3 disks of up to 2 blocks, the first disks of both with one name | 29385 | `OvfIsCommitMark`, `CapacityOfOwnDisk`, `QuietAfterJoin`, `DisksReadAtRest`, `ExportEnds` |
| `export_odd` | 4 VMs: two disks; a drive without a path; two VMs of one name | 483192 | `KeepsPromise` (refinement), `ExportEnds` |
| `vhdx_size` | words of 5 bits, lengths of 3, 2 copies with up to 2 entries, 2 items | 301485 | `RegionOfFirstCopy`, `SizeInsideRegion`, `SearchGivesUp` |
| `nfs_copy` | 5 entries of 0 to 5 blocks, 2 of them with one name, 2 that may be cut short, chunk of 2 | 67424 | `Truncated`, `LengthTells`, `FallbackKeepsSource`, `LastWins`, `KeepsPromise` (refinement), `WalkEnds` |
| `migration` | 2 VMs, one of them with the constant id, 2 runs, 2 polls before the deadline | 2836 | `MapsOfOneRun`, `ReferencesResolve`, `FreshRunHonest`, `MigratesOnce`, `RunEnds`, `KeepsPromise` (refinement) |
| `login` | 3 clusters, two with overlapping names and one not on the share; 2 kubeconfig files; 3 mounts; any number of runs | 4432 | `MountedOnce`, `LoginReplaced` |
| `generator` | 7 VMs, two of one name, with 0 to 4 drives; every caption in the tables and some that match two | 136197 | `OvfDescribesVM`, `OsIdIsOwn`, `IdsApart` |
| `tool` | 2 VMs, 2 runs, a terminal or any pipe, the first VM with the constant id, one damaged file at a time | 3513837 | `Answers`, `MigrationBehindCopy`, `EndToEnd`, `ShareStable` |

Every run checks `TypeOK` too, but for `export_odd`, whose instance differs from
`export_colliding` in the constants only.

Four runs check what the tool says of itself and find it wrong:

| Run | The tool says | What happens |
|---|---|---|
| `nfs_intact` | "Copied %s to %s using sendfile" (`nfs_server_utils.go:119`) | the offset is advanced twice (line 86): every second chunk of a large file is missing |
| `export_overwritten` | "Downloads VM `.vhdx` disks" (`README.md:10`) | two disks of one file name overwrite each other: every worker has ended in success, and one disk is nowhere |
| `migration_stale` | "Migration completed successfully!" (`ocpUtils.go:898`) | said of the migration of an earlier run, for another VM (an instance in which no VM has the constant id) |
| `login_kubeconfig` | "Try loading from KUBECONFIG or default kubeconfig path" (`ocpUtils.go:364`) | the line below reads the default path only: with `KUBECONFIG` set, the tool polls another cluster than it applied to |

**What the code does, and no property forbids.** The models have these cases; the
properties are stated so that they are true with them, and say so where they stop:

* A transfer that fails has truncated the disk of an earlier run, whose readable OVF
  stays beside it (`hyperv_vm_actions.go:165`, `main.go:146`); `main.go:162` says "All
  VMs processed successfully." whatever became of the workers. `OvfIsCommitMark` is
  about the OVFs a worker answers for.
* The VM that is migrated is the first one listed (`main.go:177`), exported or not, and
  the maps are made from the first OVF by name (`ocpUtils.go:455`). `EndToEnd` is about
  a VM that was exported, and its last line about an output directory with its OVF only.
* Every plan has the same VM id (`ocpUtils.go:774-786`), where line 828 says "Generate
  the correct VM ID that Forklift expects".
* A login to a cluster whose name contains the wanted one is kept
  (`clusterLogin.go:75-79`: "Check if already logged in to same cluster").
* The offline generator counts an OVF whose write failed (`ovf-generator/main.go:88-91`:
  "Generated %d OVF file(s)"), and writes the drives of two VMs of one name into one OVF
  (lines 116-118).
* No run applies the destination provider `host` that plan and maps name
  (`migrationTemplates.go:19-21`, `38-40`, `66-70`).
* A run may fail although its VM was migrated: the deadline and a late success are one
  `select`, and one failed Get ends the monitoring (`ocpUtils.go:264-271`).

**Bounds.** Two workers are what a collision needs; a third disk makes the loop
over disks matter; two blocks tell a partial transfer from an empty and from a
whole one, and make a mixed file possible. Five blocks over chunks of two give
the sendfile loop a full chunk, a short one and a skipped one, and a fallback at
each of them. Two runs are what a stale object needs: a third one meets the same
set of objects. One VM with the constant id and one without are the two cases a plan
can be wrong in. Two polls give one that goes on and one that meets the deadline.
5-bit words keep the order of the widths of the code (2 * Half <= Word / 2), and
the offsets lie within a Seek's reach, just out of it and at the end. In `login`
the runs are not bounded, only the mounts (`MaxMounts`): three are one shared
mount and two in vain. In `generator` each VM is of a shape of its own, the
captions are all those of the tables. In `tool` two VMs tell the VM of the run
from that of the first OVF, and two runs leave everything an earlier run can
leave. `OneDamaged` keeps to the states with at most one damaged file on the
share: each property speaks of one file at a time, and no action reads the share.
`NumVMs`, `MaxSize`, `N`, `Names`, `Chunk`, `MaxRuns`, `Ticks`, `MaxMounts`,
`Clusters` and the widths are parameters of the proofs.

**Fairness.** `VmExport`: weak fairness of `Spawn`, of `Join` and of every
worker, as the Go scheduler runs every runnable goroutine; that a blocked WinRM
or SCP call returns at all is an assumption on the host (the transfer has no
deadline, `hyperv_vm_actions.go:174`). `NfsCopy`: one sequential process whose
system calls return (`GoesOn`); none of them has to fail for it to end, and nothing
is assumed of the program that cuts sources short. `OvaMigration`: the tool goes on as long as
its commands return; nothing is assumed of Forklift, so that `RunEnds` rests on
the deadline alone. `VhdxSize`, `ClusterLogin`, `OvfGenerator` and `MigrationTool`
state no fairness: the first three are loops over counts or lists, and that the
tool as a whole ends is `ExportEnds`, `WalkEnds` and `RunEnds` one behind the
other; on the millions of states of the composition the same would be costly and say
no more. Deadlock is checked in every run; `Over` is the stutter of a program
that has ended.

## Proofs

The theorems are of the form `Spec => ...`, but for three about operators
(`ChosenInOrder`, `NoneLostOrRepeated`, `EveryGuestAgrees`), and hold for every value of the
constants under the named assumptions (`HostAssumption`, `OutputAssumption`,
`MarkAssumption`, `ImageAssumption`, `WidthAssumption`, `DirectoryAssumption`,
`RunAssumption`, `LoginAssumption`, `ToolAssumption`, `GeneratorAssumption`,
`TableAssumption`), which TLC evaluates on every instance.

* **VmExport_proofs.** `IInv` is inductive. `OvfIsCommitMark` alone is not: it
  needs that a worker's finished downloads stay (`Kept`: a transfer writes a
  growing prefix, and what was fetched is intact, for disks whose name is their
  own), where a worker's two loops can stand (`Looping`), that an OVF names a
  worker only behind that worker's last step (`Marked`) and what it has measured
  (`Measuring`). `QuietAfterJoin` needs that the counter is the number of active
  workers (`Counted`, by cardinality) and that all have been started
  (`Started`). `DisksReadAtRest` needs `Off` and `Unfetched`. The proof has one
  lemma per part of `IInv`, one case per action. `Refinement` maps a worker's last
  block to `Deliver`, its write of the OVF to `Announce`, the join or a panic to
  `Close`, and everything else to a stutter.
* **VhdxSize_proofs.** `BoundedIsInside` is the heart: an offset that a Seek
  accepts is below half of the words, so that neither side of the comparison can
  wrap. The scan's invariant (`Passed`) says that no copy and no entry behind the
  current one names the region; from it `SearchGivesUp` follows for each of the two
  steps that end the search.
* **NfsCopy_proofs.** `Sending` (the offset is twice the length of the target)
  and the order of reports (`Reported`, `Owned`) give `Truncated`. A second invariant, `Contents`, is about what is in the
  files: while sendfile is at one, it is only as long as its source if a single
  call sent all of it, and the fallback keeps the source's first blocks at the
  end of the file (`Growing`). That is `LengthTells`, and with `Fallen`
  `FallbackKeepsSource`. `Passed` follows what the walk has behind it, which later
  entry took over a name included, and `Fresh` that nothing older is mixed in:
  `LastWins`. `Refinement` needs the second invariant for one step only, the
  return of `CopyFile`: `LengthTells` is what makes a file that is not whole one of
  another length; for all others, that the files of earlier entries do not change
  (`HeldStays`).
* **OvaMigration_proofs.** `Honest` follows the one migration of a fresh run,
  `Planned` and `Progress` what the run has applied; `NamesResolve` needs that a
  plan is applied behind everything it names but `host`. `MigratesOnce` is inductive
  with the types: no step leaves a terminal condition. `Refinement` maps every step to one
  of `MigrationPromise` or a stutter.
* **ClusterLogin_proofs.** `MountsCounted` counts the mount of a run that is about
  to find its cluster missing before `missed` does; `Seen` says what a run knows
  in each stage, from which `LoginReplaced` follows step by step.
* **MigrationTool_proofs.** `Staged` ties the phase of main to the stage of the
  migration and follows a fresh migration, `Exported` ties what the export
  promised to the files, `Walked` says that the share has what the child has
  passed, and `Lines` that no line is left for the wrong question.
  `FreshEndToEnd` needs all four: a file that was announced is whole in the output
  directory, on the share behind the copy, and both stand still until the
  migration of this run is over. As `MigrationTool` takes its parts from the three
  promises, the refinements of `VmExport`, `NfsCopy` and `OvaMigration` are what
  carries this to the code. The proofs do not need `OneDamaged`.
* **Subsequence_proofs.** What a recursive filter does for every sequence needs an
  induction over the sequence, which the provers cannot do. `Select` is therefore
  not recursive, and what is needed of it comes from counting: the number of chosen
  places up to a place is an injection into 1 .. n, for n places, and so takes every
  value (`RankTaken`), which numbers the places in their order (`ChosenInOrder`).
  `NoneLostOrRepeated` puts this together for any chosen places: each is taken, none
  twice. If as many are collected as there are, none was left out (`AllCollected`).
* **OvfGenerator_proofs.** `Provenance` follows an OVF back to the name and the guest
  of the turn that wrote it: a later VM of the same file name replaces it as a
  whole or leaves it cut. `OvfDescribesVM` then rests on `AllCollected`: `Mismatch`
  compares two lengths, and that equal lengths pair each drive with its own path is
  that lemma. `EveryGuestAgrees` is about the two lookups, for any caption and
  architecture: the first case that applies is the most specific one, and the osType
  it gives has one number, its own, in whichever order Go walks the map.
  `TableAssumption` is what it needs of the tables, as they are written in the
  code, and speaks of no caption: TLC evaluates it. `MapsApart` needs nothing of
  the generator: the identifiers of any envelope are apart.

Model-checked only: the liveness properties `ExportEnds`, `WalkEnds` and `RunEnds`,
as fairness and ENABLED are beyond the provers' backends. What there is of safety in
them is proved: `WalkGetsOn`, `WorkersGetOn` and `RunsGetOn` have an order of places
and positions, each of them bounded, in which every step goes forward and no
other worker is set back. A single number would be a sum over the entries or disks,
which needs an induction. For the scan, whose end no run asks for, there is one:
`ScanCountsDown` has a number (`Left`) that every step lowers. `WaitsForSomebody` is the deadlock of `wg.Wait()`: while it
waits, a worker is at work. That the steps are then taken is the fairness, and stays
with TLC. All invariants and action properties of the passing runs, and the three
refinements, are theorems.

## Not modelled, and why

The text of OVF and manifests (formatting), with the items for CPU, memory and
controller, each a number that is copied: OVF writer and templates are `partly`
modelled for that. `common/v2v.go`, `WaitForPlanReady`, `getPlan` and
`isPlanReady` are never called. WinRM, SSH, sudo, `oc`, `kubectl` and Forklift are
external: they appear as success, failure, or the conditions the code reads. Time
is not measured: whether fifteen seconds are enough for the provider
(`ocpUtils.go:876`) cannot be said, only that the properties of `OvaMigration`
hold when they are not. An interrupt by the user is not modelled; a crash of a
run is, in the places where a run can end with an error.

## Plan

Done, in this order: `VmExport` with `ExportPromise` (the heart of the tool),
`NfsCopy`, `OvaMigration` with `MigrationPromise`, `VhdxSize`, `ClusterLogin`, the
lookups and the generator, `MigrationTool` over the promises; their runs; their
proofs; `CopyPromise` and the refinement of the copy; the generator's theorems;
the measures behind the liveness properties.

Left: the whole of `MigrationTool` as an implementation of `MigrationPromise` over
several runs; the progress of `ClusterLogin` and `OvfGenerator`, as of the others.
