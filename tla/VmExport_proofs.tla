-------------------------- MODULE VmExport_proofs --------------------------
(***************************************************************************)
(* For any number of VMs, disks and blocks: IInv is inductive, and the     *)
(* safety properties of VmExport follow from it.                           *)
(***************************************************************************)
EXTENDS VmExport, FiniteSetTheorems, TLAPS

USE DEF Worker, Block, Ended, Working, loop

\* The disk behind each path of a VM, and the file it is downloaded to.
LEMMA DiskOfVM ==
  ASSUME NEW v \in Worker, NEW i \in 1 .. Len(Remote[v])
  PROVE  /\ Remote[v][i] \in Disks
         /\ LocalFile(v, i) \in Files
         /\ Size[Remote[v][i]] \in Block
<1>1. Remote[v] \in Seq(Disks)
  BY HostAssumption
<1>2. Remote[v][i] \in Disks
  BY <1>1
<1> QED  BY <1>2, HostAssumption, OutputAssumption DEF LocalFile

LEMMA LengthType == ASSUME NEW file PROVE Length(file) \in Nat
<1>1. IsFiniteSet(Block)
  BY HostAssumption, FS_Interval
<1> QED  BY <1>1, FS_Subset, FS_CardinalityType DEF Length

\* A file that holds the first n blocks of a disk is n blocks long.
LEMMA LengthOfPrefix ==
  ASSUME NEW d \in Disks, NEW n \in Block, NEW file, Holds(file, d, n)
  PROVE  Length(file) = n
<1>1. {b \in Block : file[b] # None} = 1 .. n
  <2>1. \A b \in Block : file[b] # None <=> b <= n
    BY MarkAssumption DEF Holds
  <2>2. n \in 1 .. MaxSize /\ MaxSize \in Nat
    BY HostAssumption
  <2>3. \A b : b \in 1 .. n <=> b \in Block /\ b <= n
    BY <2>2
  <2> QED  BY <2>1, <2>3
<1>2. Cardinality(1 .. n) = n
  BY FS_Interval
<1> QED  BY <1>1, <1>2 DEF Length

\* The initial states satisfy the inductive invariant.
LEMMA InitIInv == Init => IInv
<1> SUFFICES ASSUME Init PROVE IInv
  OBVIOUS
<1> USE HostAssumption, OutputAssumption, MarkAssumption DEF Init
<1>1. TypeOK
  BY DEF TypeOK, NoBytes, Leftover, Tag, Reading
<1>2. Counted
  <2>1. Active = {}
    BY DEF Active
  <2> QED  BY <2>1, FS_EmptySet DEF Counted
<1>3. Started /\ QuietAfterJoin /\ Off /\ Looping
  BY DEF Started, QuietAfterJoin, Off, Looping, Stopped
<1>4. Kept
  BY DEF Kept, Fetched
<1>5. Measuring /\ Marked
  BY DEF Measuring, Marked
<1>6. Unfetched
  <2> SUFFICES ASSUME NEW v \in Worker, NEW i \in 1 .. Len(Remote[v]),
                      NEW b \in Block
               PROVE  local[LocalFile(v, i)][b] # Remote[v][i]
    BY DEF Unfetched
  <2>1. Remote[v][i] \in Disks /\ LocalFile(v, i) \in Files
    BY DiskOfVM
  <2>2. local[LocalFile(v, i)] \in {NoBytes, Leftover}
    BY <2>1
  <2> QED  BY <2>1, <2>2 DEF NoBytes, Leftover
<1> QED  BY <1>1, <1>2, <1>3, <1>4, <1>5, <1>6 DEF IInv

-----------------------------------------------------------------------------
(* The WaitGroup *)

LEMMA ActiveFinite == IsFiniteSet(Active) /\ Cardinality(Active) \in Nat
<1>1. IsFiniteSet(Worker)
  BY HostAssumption, FS_Interval
<1> QED  BY <1>1, FS_Subset, FS_CardinalityType DEF Active

\* A worker that goes on stays counted.
LEMMA GotoKeepsCount ==
  ASSUME TypeOK, Counted, NEW v \in Worker, pc[v] \in Working,
         NEW label \in Working, Goto(v, label)
  PROVE  Counted' /\ wg' = wg
<1>1. Active' = Active
  BY DEF Active, Goto, TypeOK
<1> QED  BY <1>1 DEF Counted, Goto

\* A worker that returns is the one less that wg.Done() takes off.
LEMMA ReturnCounts ==
  ASSUME TypeOK, Counted, NEW v \in Worker, pc[v] \in Working,
         NEW label \in Ended, Return(v, label)
  PROVE  Counted' /\ wg' \in Nat
<1>1. Active' = Active \ {v}
  BY DEF Active, Return, TypeOK
<1>2. v \in Active
  BY DEF Active
<1>3. Cardinality(Active') = Cardinality(Active) - 1
  BY <1>1, <1>2, ActiveFinite, FS_RemoveElement
<1>4. Cardinality(Active) # 0
  BY <1>2, ActiveFinite, FS_EmptySet
<1> QED  BY <1>3, <1>4, ActiveFinite DEF Counted, Return

LEMMA SpawnCounts ==
  ASSUME TypeOK, Counted, Started, Spawn
  PROVE  Counted'
<1> DEFINE new == spawned + 1
<1>1. new \in Worker /\ pc[new] = "new"
  BY HostAssumption DEF Spawn, TypeOK, Started
<1>2. Active' = Active \cup {new} /\ new \notin Active
  BY <1>1 DEF Active, Spawn, TypeOK
<1>3. Cardinality(Active') = Cardinality(Active) + 1
  BY <1>2, ActiveFinite, FS_AddElement
<1> QED  BY <1>3, ActiveFinite DEF Counted, Spawn

LEMMA CountedStep == TypeOK /\ Counted /\ Started /\ [Next]_vars => Counted'
<1> SUFFICES ASSUME TypeOK, Counted, Started, [Next]_vars PROVE Counted'
  OBVIOUS
<1>1. CASE Spawn
  BY <1>1, SpawnCounts
<1>2. CASE Join
  BY <1>2 DEF Join, Counted, Active
<1>3. CASE Over \/ UNCHANGED vars
  BY <1>3 DEF Over, vars, Counted, Active
<1>4. ASSUME NEW v \in Worker, Query(v) PROVE Counted'
  <2>1. CASE GetVMInfo(v) \/ GetGuestOSInfo(v) \/ Shutdown(v) \/ SaveVMJson(v)
    BY <2>1, GotoKeepsCount
    DEF GetVMInfo, GetGuestOSInfo, Shutdown, SaveVMJson, At, AfterStop
  <2>2. CASE GetVMInfoFails(v) \/ GetGuestOSInfoFails(v) \/ SaveVMJsonFails(v)
    BY <2>2, ReturnCounts
    DEF GetVMInfoFails, GetGuestOSInfoFails, SaveVMJsonFails, Fail, At
  <2>3. CASE GetVMInfoPanics(v) \/ ShutdownFails(v)
    BY <2>3, ReturnCounts DEF GetVMInfoPanics, ShutdownFails, At
  <2> QED  BY <1>4, <2>1, <2>2, <2>3 DEF Query
<1>5. ASSUME NEW v \in Worker, Download(v) PROVE Counted'
  <2>1. CASE OpenTransfer(v) \/ CopyDone(v)
    BY <2>1, GotoKeepsCount DEF OpenTransfer, CopyDone, NextDisk, At
  <2>2. CASE CopyBlock(v)
    BY <2>2 DEF CopyBlock, Counted, Active
  <2>3. CASE OpenTransferFails(v) \/ CopyFails(v)
    BY <2>3, ReturnCounts DEF OpenTransferFails, CopyFails, Fail, At
  <2> QED  BY <1>5, <2>1, <2>2, <2>3 DEF Download
<1>6. ASSUME NEW v \in Worker, Format(v) PROVE Counted'
  <2>1. CASE Marshal(v) \/ CreateOvf(v)
    BY <2>1, GotoKeepsCount DEF Marshal, CreateOvf, At
  <2>2. CASE MeasureDisk(v)
    BY <2>2 DEF MeasureDisk, Measure, Counted, Active
  <2>3. CASE FormatFails(v)
    BY <2>3, ReturnCounts DEF FormatFails, Fail, At
  <2>4. CASE CreateOvfFails(v) \/ WriteOvf(v) \/ WriteOvfFails(v)
    BY <2>4, ReturnCounts DEF CreateOvfFails, WriteOvf, WriteOvfFails, At
  <2> QED  BY <1>6, <2>1, <2>2, <2>3, <2>4 DEF Format
<1> QED  BY <1>1, <1>2, <1>3, <1>4, <1>5, <1>6 DEF Next, Work

-----------------------------------------------------------------------------
(* Typing *)

LEMMA OvfTyped ==
  ASSUME ovf \in [Ovfs -> Worker \cup {None, Empty, Junk, Earlier}],
         NEW v \in Worker, NEW o, NEW content \in {v, Junk, ovf[o]}
  PROVE  [ovf EXCEPT ![o] = content] \in [Ovfs -> Worker \cup {None, Empty, Junk, Earlier}]
OBVIOUS

LEMMA TypeStep == TypeOK /\ Counted /\ Looping /\ [Next]_vars => TypeOK'
<1> SUFFICES ASSUME TypeOK, Counted, Looping, [Next]_vars PROVE TypeOK'
  OBVIOUS
<1>0. \A v \in Worker : pos[v] + 1 \in Nat /\ disk[v] + 1 \in Nat
  BY DEF TypeOK
<1> USE HostAssumption, OutputAssumption DEF TypeOK
<1>1. CASE Spawn
  <2>1. spawned' \in 0 .. NumVMs
    BY <1>1 DEF Spawn
  <2>2. pc' \in [Worker -> {"new"} \cup Working \cup Ended]
    BY <1>1 DEF Spawn
  <2>3. UNCHANGED <<main, disk, pos, capacity, power, local, ovf>> /\ wg' \in Nat
    BY <1>1 DEF Spawn
  <2> QED  BY <2>1, <2>2, <2>3
<1>2. CASE Join
  BY <1>2 DEF Join
<1>3. CASE Over \/ UNCHANGED vars
  BY <1>3 DEF Over, vars
<1>4. ASSUME NEW v \in Worker, NEW label \in Ended, pc[v] \in Working,
             Return(v, label)
      PROVE  wg' \in Nat /\ pc' \in [Worker -> {"new"} \cup Working \cup Ended]
  BY <1>4, ReturnCounts DEF Return
<1>5. ASSUME NEW v \in Worker, Query(v) PROVE TypeOK'
  <2>1. CASE GetVMInfo(v) \/ GetGuestOSInfo(v) \/ SaveVMJson(v)
    BY <2>1 DEF GetVMInfo, GetGuestOSInfo, SaveVMJson, At, Goto
  <2>2. CASE GetVMInfoFails(v) \/ GetGuestOSInfoFails(v) \/ SaveVMJsonFails(v)
    BY <2>2, <1>4
    DEF GetVMInfoFails, GetGuestOSInfoFails, SaveVMJsonFails, Fail, At
  <2>3. CASE GetVMInfoPanics(v)
    BY <2>3, <1>4 DEF GetVMInfoPanics, At
  <2>4. CASE Shutdown(v)
    BY <2>4 DEF Shutdown, At, Goto, AfterStop
  <2>5. CASE ShutdownFails(v)
    BY <2>5, <1>4 DEF ShutdownFails, At
  <2> QED  BY <1>5, <2>1, <2>2, <2>3, <2>4, <2>5 DEF Query
<1>6. ASSUME NEW v \in Worker, Download(v) PROVE TypeOK'
  <2>1. CASE OpenTransfer(v)
    BY <2>1 DEF OpenTransfer, At, Goto, NoBytes, Tag
  <2>2. CASE CopyBlock(v)
    <3> DEFINE d == Remote[v][disk[v]]
    <3>1. pos' \in [Worker -> Nat]
      <4>1. pos[v] + 1 \in Nat
        BY <1>0
      <4> QED  BY <2>2, <4>1 DEF CopyBlock
    <3>2. local' \in [Files -> [Block -> Tag]]
      <4>1. d \in Disks
        BY <2>2, DiskOfVM DEF CopyBlock, At, Looping
      <4>2. ASSUME NEW file \in [Block -> Tag], NEW k
            PROVE  WriteAt(file, k, d) \in [Block -> Tag]
        BY <4>1 DEF WriteAt, Tag
      <4> QED  BY <2>2, <4>1, <4>2 DEF CopyBlock
    <3> QED  BY <2>2, <3>1, <3>2 DEF CopyBlock
  <2>3. CASE CopyDone(v)
    <3>1. disk[v] + 1 \in Nat
      BY <1>0
    <3>2. \E n \in Nat : disk' = [disk EXCEPT ![v] = n]
      BY <2>3, <3>1 DEF CopyDone, NextDisk
    <3>3. disk' \in [Worker -> Nat]
      BY <3>2
    <3> QED  BY <2>3, <3>3 DEF CopyDone, NextDisk, At, Goto
  <2>4. CASE OpenTransferFails(v) \/ CopyFails(v)
    BY <2>4, <1>4 DEF OpenTransferFails, CopyFails, Fail, At
  <2> QED  BY <1>6, <2>1, <2>2, <2>3, <2>4 DEF Download
<1>7. ASSUME NEW v \in Worker, Format(v) PROVE TypeOK'
  <2>1. CASE MeasureDisk(v)
    <3> DEFINE file == local[LocalFile(v, disk[v])]
    <3>1. LocalFile(v, disk[v]) \in Files
      <4>1. Len(Remote[v]) \in Nat
        BY HostAssumption
      <4>2. disk[v] \in 1 .. Len(Remote[v])
        BY <2>1, <4>1 DEF MeasureDisk, Measure, At, Looping
      <4> QED  BY <4>2, DiskOfVM
    <3>2. CapacityOf(file) \subseteq Reading
      BY <3>1, LengthType DEF CapacityOf, Reading
    <3>3. PICK reading \in CapacityOf(file) :
            capacity' = [capacity EXCEPT ![v] = Append(capacity[v], reading)]
      BY <2>1 DEF MeasureDisk, Measure
    <3>5. capacity' \in [Worker -> Seq(Reading)]
      BY <3>2, <3>3
    <3>4. disk' \in [Worker -> Nat]
      <4>1. disk[v] + 1 \in Nat
        BY <1>0
      <4> QED  BY <2>1, <4>1 DEF MeasureDisk, Measure
    <3> QED  BY <2>1, <3>4, <3>5 DEF MeasureDisk, Measure
  <2>2. CASE Marshal(v)
    BY <2>2 DEF Marshal, At, Goto
  <2>3. CASE CreateOvf(v)
    BY <2>3 DEF CreateOvf, At, Goto
  <2>4. CASE FormatFails(v)
    BY <2>4, <1>4 DEF FormatFails, Fail, At
  <2>5. CASE CreateOvfFails(v)
    BY <2>5, <1>4 DEF CreateOvfFails, At
  <2>6. CASE WriteOvf(v) \/ WriteOvfFails(v)
    <3>1. PICK content \in {v, Junk, ovf[OvfFile(v)]} :
            ovf' = [ovf EXCEPT ![OvfFile(v)] = content]
      BY <2>6 DEF WriteOvf, WriteOvfFails
    <3>2. ovf' \in [Ovfs -> Worker \cup {None, Empty, Junk, Earlier}]
      <4>1. ovf \in [Ovfs -> Worker \cup {None, Empty, Junk, Earlier}]
        OBVIOUS
      <4> HIDE HostAssumption, OutputAssumption DEF TypeOK
      <4> QED  BY <3>1, <4>1, OvfTyped
    <3> QED  BY <2>6, <3>2, <1>4 DEF WriteOvf, WriteOvfFails, At
  <2> QED  BY <1>7, <2>1, <2>2, <2>3, <2>4, <2>5, <2>6 DEF Format
<1> QED  BY <1>1, <1>2, <1>3, <1>5, <1>6, <1>7 DEF Next, Work

-----------------------------------------------------------------------------
(* Where the workers stand *)

\* Join finds every worker started and none active.
LEMMA JoinFindsAllEnded ==
  ASSUME TypeOK, Counted, Started, Join
  PROVE  \A v \in Worker : pc[v] \in Ended
<1>1. Active = {}
  BY ActiveFinite, FS_EmptySet DEF Join, Counted
<1>2. \A v \in Worker : pc[v] # "new"
  BY HostAssumption DEF Join, Started, TypeOK
<1> QED  BY <1>1, <1>2 DEF Active, TypeOK

\* A step of a worker moves that worker only, and never starts main again.
LEMMA WorkMoves ==
  ASSUME TypeOK, NEW v \in Worker, Work(v)
  PROVE  /\ spawned' = spawned
         /\ main' = main \/ main' = "panicked"
         /\ pc[v] \in Working
         /\ \E label \in Working \cup Ended : pc' = [pc EXCEPT ![v] = label]
<1> USE DEF TypeOK
<1>1. CASE Query(v)
  BY <1>1 DEF Query, GetVMInfo, GetVMInfoFails, GetVMInfoPanics,
    GetGuestOSInfo, GetGuestOSInfoFails, Shutdown, ShutdownFails, SaveVMJson,
    SaveVMJsonFails, Fail, At, Goto, Return, AfterStop
<1>2. CASE OpenTransfer(v) \/ OpenTransferFails(v) \/ CopyFails(v) \/ CopyDone(v)
  BY <1>2 DEF OpenTransfer, OpenTransferFails, CopyFails, CopyDone, NextDisk,
    Fail, At, Goto, Return
<1>3. CASE CopyBlock(v)
  BY <1>3 DEF CopyBlock, At
<1>4. CASE MeasureDisk(v)
  BY <1>4 DEF MeasureDisk, Measure, At
<1>5. CASE Format(v) /\ ~ MeasureDisk(v)
  BY <1>5 DEF Format, FormatFails, Marshal, CreateOvf, CreateOvfFails, WriteOvf,
    WriteOvfFails, Fail, At, Goto, Return
<1> QED  BY <1>1, <1>2, <1>3, <1>4, <1>5 DEF Work, Download

LEMMA StartedStep == TypeOK /\ Started /\ [Next]_vars => Started'
<1> SUFFICES ASSUME TypeOK, Started, [Next]_vars PROVE Started'
  OBVIOUS
<1> USE DEF Started
<1>1. CASE Spawn
  <2> SUFFICES ASSUME NEW w \in Worker PROVE pc'[w] = "new" <=> spawned' < w
    OBVIOUS
  <2>1. CASE w = spawned + 1
    BY <1>1, <2>1 DEF Spawn, TypeOK
  <2>2. CASE w # spawned + 1
    <3>1. pc'[w] = pc[w] /\ spawned' = spawned + 1
      BY <1>1, <2>2 DEF Spawn, TypeOK
    <3>2. spawned < w <=> spawned + 1 < w
      BY <2>2, HostAssumption DEF TypeOK
    <3> QED  BY <3>1, <3>2
  <2> QED  BY <2>1, <2>2
<1>2. CASE Join \/ Over \/ UNCHANGED vars
  BY <1>2 DEF Join, Over, vars
<1>3. ASSUME NEW v \in Worker, Work(v) PROVE Started'
  BY <1>3, WorkMoves DEF TypeOK
<1> QED  BY <1>1, <1>2, <1>3 DEF Next

\* No worker moves once main has joined them.
LEMMA JoinedStep ==
  TypeOK /\ Counted /\ Started /\ QuietAfterJoin /\ [Next]_vars => QuietAfterJoin'
<1> SUFFICES ASSUME TypeOK, Counted, Started, QuietAfterJoin, [Next]_vars
             PROVE  QuietAfterJoin'
  OBVIOUS
<1> USE DEF QuietAfterJoin
<1>1. CASE Spawn
  BY <1>1 DEF Spawn
<1>2. CASE Join
  BY <1>2, JoinFindsAllEnded DEF Join
<1>3. CASE Over \/ UNCHANGED vars
  BY <1>3 DEF Over, vars
<1>4. ASSUME NEW v \in Worker, Work(v) PROVE main' # "joined"
  BY <1>4, WorkMoves
<1> QED  BY <1>1, <1>2, <1>3, <1>4 DEF Next

\* Behind a successful Stop-VM the VM is off, and nothing starts it again.
LEMMA OffStep == TypeOK /\ Off /\ [Next]_vars => Off'
<1> SUFFICES ASSUME TypeOK, Off, [Next]_vars PROVE Off'
  OBVIOUS
<1> USE DEF TypeOK, Off, Stopped
<1>1. CASE Spawn
  BY <1>1 DEF Spawn
<1>2. CASE Join \/ Over \/ UNCHANGED vars
  BY <1>2 DEF Join, Over, vars
<1>3. ASSUME NEW v \in Worker, Query(v) PROVE Off'
  <2>1. CASE Shutdown(v)
    BY <2>1 DEF Shutdown, At, Goto, AfterStop
  <2>2. CASE ShutdownFails(v)
    BY <2>2 DEF ShutdownFails, At, Return
  <2>3. CASE Query(v) /\ ~ Shutdown(v) /\ ~ ShutdownFails(v)
    BY <2>3 DEF Query, GetVMInfo, GetVMInfoFails, GetVMInfoPanics, GetGuestOSInfo,
      GetGuestOSInfoFails, SaveVMJson, SaveVMJsonFails, Fail, At, Goto, Return
  <2> QED  BY <1>3, <2>1, <2>2, <2>3
<1>4. ASSUME NEW v \in Worker, Download(v) PROVE Off'
  BY <1>4 DEF Download, OpenTransfer, OpenTransferFails, CopyBlock, CopyFails,
    CopyDone, NextDisk, Fail, At, Goto, Return
<1>5. ASSUME NEW v \in Worker, Format(v) PROVE Off'
  BY <1>5 DEF Format, MeasureDisk, Measure, FormatFails, Marshal, CreateOvf,
    CreateOvfFails, WriteOvf, WriteOvfFails, Fail, At, Goto, Return
<1> QED  BY <1>1, <1>2, <1>3, <1>4, <1>5 DEF Next, Work

\* The two loops over the disks of a VM.
LEMMA LoopingStep == TypeOK /\ Started /\ Looping /\ [Next]_vars => Looping'
<1> SUFFICES ASSUME TypeOK, Started, Looping, [Next]_vars PROVE Looping'
  OBVIOUS
<1>0. \A v \in Worker : Len(Remote[v]) \in Nat /\ (Remote[v] # <<>> => Len(Remote[v]) > 0)
  BY HostAssumption
<1> DEFINE LoopAt(w) ==
      /\ pc[w] \in {"guest", "stop", "save", "open", "transfer", "format",
                    "create", "write", "ok"} => Remote[w] # <<>>
      /\ pc[w] \in {"new", "info", "guest", "stop", "save"} => disk[w] = 1
      /\ pc[w] \in {"open", "transfer"} => disk[w] \in 1 .. Len(Remote[w])
      /\ pc[w] = "format" => disk[w] \in 1 .. Len(Remote[w]) + 1
<1>f. ASSUME NEW v \in Worker, LoopAt(v)',
             \A w \in Worker \ {v} : pc'[w] = pc[w] /\ disk'[w] = disk[w]
      PROVE  Looping'
  <2>1. \A w \in Worker : LoopAt(w)
    BY DEF Looping
  <2>2. \A w \in Worker : LoopAt(w)'
    BY <1>f, <2>1
  <2> QED  BY <2>2 DEF Looping
<1> USE DEF TypeOK, Looping
<1>1. CASE Spawn
  <2>1. pc[spawned + 1] = "new"
    BY <1>1, HostAssumption DEF Spawn, Started
  <2> QED  BY <1>1, <2>1 DEF Spawn
<1>2. CASE Join \/ Over \/ UNCHANGED vars
  BY <1>2 DEF Join, Over, vars
<1>3. ASSUME NEW v \in Worker, Query(v) PROVE Looping'
  <2>1. CASE Shutdown(v) \/ SaveVMJson(v)
    <3>1. disk[v] = 1 /\ 1 \in 1 .. Len(Remote[v])
      BY <2>1, <1>0 DEF Shutdown, SaveVMJson, At
    <3>2. disk' = disk /\ \E label \in {"save", "open"} : pc' = [pc EXCEPT ![v] = label]
      BY <2>1 DEF Shutdown, SaveVMJson, Goto, AfterStop
    <3>3. Remote[v] # <<>>
      BY <2>1 DEF Shutdown, SaveVMJson, At
    <3> QED  BY <3>1, <3>2, <3>3
  <2>2. CASE GetVMInfo(v) \/ GetGuestOSInfo(v)
    BY <2>2 DEF GetVMInfo, GetGuestOSInfo, At, Goto
  <2>3. CASE GetVMInfoFails(v) \/ GetVMInfoPanics(v) \/ GetGuestOSInfoFails(v)
             \/ ShutdownFails(v) \/ SaveVMJsonFails(v)
    BY <2>3 DEF GetVMInfoFails, GetVMInfoPanics, GetGuestOSInfoFails, ShutdownFails,
      SaveVMJsonFails, Fail, At, Return
  <2> QED  BY <1>3, <2>1, <2>2, <2>3 DEF Query
<1>4. ASSUME NEW v \in Worker, Download(v) PROVE Looping'
  <2>1. CASE CopyDone(v)
    <3>1. disk[v] \in 1 .. Len(Remote[v]) /\ Remote[v] # <<>>
      BY <2>1 DEF CopyDone, At
    <3>2. CASE disk[v] < Len(Remote[v])
      <4>1. disk[v] + 1 \in 1 .. Len(Remote[v])
        BY <3>1, <3>2, <1>0
      <4>2. pc' = [pc EXCEPT ![v] = "open"] /\ disk' = [disk EXCEPT ![v] = disk[v] + 1]
        BY <2>1, <3>2 DEF CopyDone, NextDisk, Goto
      <4>3. pc'[v] = "open" /\ disk'[v] = disk[v] + 1
        BY <4>2
      <4>4. \A w \in Worker \ {v} : pc'[w] = pc[w] /\ disk'[w] = disk[w]
        BY <4>2
      <4>5. LoopAt(v)'
        BY <3>1, <4>1, <4>3
      <4> HIDE DEF LoopAt
      <4> QED  BY <1>f, <4>4, <4>5
    <3>3. CASE ~ disk[v] < Len(Remote[v])
      <4>1. 1 \in 1 .. Len(Remote[v]) + 1
        BY <1>0
      <4>2. pc' = [pc EXCEPT ![v] = "format"] /\ disk' = [disk EXCEPT ![v] = 1]
        BY <2>1, <3>3 DEF CopyDone, NextDisk, Goto
      <4>3. pc'[v] = "format" /\ disk'[v] = 1
        BY <4>2
      <4>4. \A w \in Worker \ {v} : pc'[w] = pc[w] /\ disk'[w] = disk[w]
        BY <4>2
      <4>5. LoopAt(v)'
        BY <3>1, <4>1, <4>3
      <4> HIDE DEF LoopAt
      <4> QED  BY <1>f, <4>4, <4>5
    <3> QED  BY <3>2, <3>3
  <2>2. CASE OpenTransfer(v)
    BY <2>2 DEF OpenTransfer, At, Goto
  <2>3. CASE CopyBlock(v)
    BY <2>3 DEF CopyBlock
  <2>4. CASE OpenTransferFails(v) \/ CopyFails(v)
    BY <2>4 DEF OpenTransferFails, CopyFails, Fail, At, Return
  <2> QED  BY <1>4, <2>1, <2>2, <2>3, <2>4 DEF Download
<1>5. ASSUME NEW v \in Worker, Format(v) PROVE Looping'
  <2>1. CASE MeasureDisk(v)
    BY <2>1, <1>0, SMTT(30) DEF MeasureDisk, Measure, At
  <2>2. CASE Format(v) /\ ~ MeasureDisk(v)
    <3>1. \E label \in {"failed", "create", "write", "ok"} :
            pc' = [pc EXCEPT ![v] = label]
      BY <2>2 DEF Format, FormatFails, Marshal, CreateOvf,
        CreateOvfFails, WriteOvf, WriteOvfFails, Fail, Goto, Return
    <3>2. disk' = disk
      BY <2>2 DEF Format, FormatFails, Marshal, CreateOvf,
        CreateOvfFails, WriteOvf, WriteOvfFails, Fail, loop
    <3>3. Remote[v] # <<>>
      BY <2>2 DEF Format, FormatFails, Marshal, CreateOvf,
        CreateOvfFails, WriteOvf, WriteOvfFails, At
    <3>4. LoopAt(v)'
      BY <3>1, <3>3
    <3>5. \A w \in Worker \ {v} : pc'[w] = pc[w] /\ disk'[w] = disk[w]
      BY <3>1, <3>2
    <3> HIDE DEF LoopAt
    <3> QED  BY <1>f, <3>4, <3>5
  <2> QED  BY <1>5, <2>1, <2>2
<1> QED  BY <1>1, <1>2, <1>3, <1>4, <1>5 DEF Next, Work

-----------------------------------------------------------------------------
(* The OVFs *)

LEMMA OthersStay ==
  ASSUME TypeOK, NEW v \in Worker, Work(v), NEW w \in Worker, w # v
  PROVE  /\ pc'[w] = pc[w] /\ disk'[w] = disk[w] /\ pos'[w] = pos[w]
         /\ capacity'[w] = capacity[w]
<1> USE DEF TypeOK
<1>1. CASE Query(v)
  BY <1>1 DEF Query, GetVMInfo, GetVMInfoFails, GetVMInfoPanics,
    GetGuestOSInfo, GetGuestOSInfoFails, Shutdown, ShutdownFails, SaveVMJson,
    SaveVMJsonFails, Fail, At, Goto, Return
<1>2. CASE Download(v)
  BY <1>2 DEF Download, OpenTransfer, OpenTransferFails, CopyBlock, CopyFails,
    CopyDone, NextDisk, Fail, At, Goto, Return
<1>3. CASE Format(v)
  BY <1>3 DEF Format, MeasureDisk, Measure, FormatFails, Marshal, CreateOvf,
    CreateOvfFails, WriteOvf, WriteOvfFails, Fail, At, Goto, Return
<1> QED  BY <1>1, <1>2, <1>3 DEF Work

\* A worker that has returned never moves again.
LEMMA OkStays ==
  ASSUME TypeOK, Started, [Next]_vars, NEW w \in Worker, pc[w] = "ok"
  PROVE  pc'[w] = "ok"
<1>1. CASE Spawn
  <2>1. pc[spawned + 1] = "new"
    BY <1>1, HostAssumption DEF Spawn, Started, TypeOK
  <2> QED  BY <1>1, <2>1 DEF Spawn, TypeOK
<1>2. CASE Join \/ Over \/ UNCHANGED vars
  BY <1>2 DEF Join, Over, vars
<1>3. ASSUME NEW v \in Worker, Work(v) PROVE pc'[w] = "ok"
  <2>1. w # v
    BY <1>3, WorkMoves
  <2> QED  BY <1>3, <2>1, OthersStay
<1> QED  BY <1>1, <1>2, <1>3 DEF Next

\* An OVF comes to name a worker only by the last step of that worker.
LEMMA OvfChanges ==
  ASSUME TypeOK, NEW v \in Worker, Work(v)
  PROVE  \/ ovf' = ovf
         \/ ovf' = [ovf EXCEPT ![OvfFile(v)] = v] /\ pc' = [pc EXCEPT ![v] = "ok"]
         \/ \E content \in {Empty, Junk, ovf[OvfFile(v)]} :
              ovf' = [ovf EXCEPT ![OvfFile(v)] = content]
<1>1. CASE Query(v)
  BY <1>1 DEF Query, GetVMInfo, GetVMInfoFails, GetVMInfoPanics,
    GetGuestOSInfo, GetGuestOSInfoFails, Shutdown, ShutdownFails, SaveVMJson,
    SaveVMJsonFails, Fail
<1>2. CASE Download(v)
  BY <1>2 DEF Download, OpenTransfer, OpenTransferFails, CopyBlock, CopyFails,
    CopyDone, Fail
<1>3. CASE Format(v)
  BY <1>3 DEF Format, MeasureDisk, Measure, FormatFails, Marshal, CreateOvf,
    CreateOvfFails, WriteOvf, WriteOvfFails, Fail, Return
<1> QED  BY <1>1, <1>2, <1>3 DEF Work

LEMMA MarkedStep == TypeOK /\ Started /\ Marked /\ [Next]_vars => Marked'
<1> SUFFICES ASSUME TypeOK, Started, Marked, [Next]_vars,
                    NEW o \in Ovfs, NEW w \in Worker, ovf'[o] = w
             PROVE  pc'[w] = "ok"
  BY DEF Marked
<1>1. CASE ovf[o] = w
  BY <1>1, OkStays DEF Marked
<1>2. CASE ovf[o] # w
  <2>1. PICK v \in Worker : Work(v)
    BY <1>2 DEF Next, Spawn, Join, Over, vars
  <2>2. ovf'[o] \notin {Empty, Junk}
    BY MarkAssumption
  <2>3. ovf' = [ovf EXCEPT ![OvfFile(v)] = v] /\ pc' = [pc EXCEPT ![v] = "ok"]
    BY <1>2, <2>1, <2>2, OvfChanges, SMTT(30) DEF TypeOK
  <2>4. w = v
    BY <1>2, <2>3 DEF TypeOK
  <2> QED  BY <2>3, <2>4 DEF TypeOK
<1> QED  BY <1>1, <1>2

-----------------------------------------------------------------------------
(* The downloads *)

\* The file of a disk whose name is used once changes under its own transfer
\* only.
LEMMA SoleFrame ==
  ASSUME TypeOK, Looping, [Next]_vars,
         NEW w \in Worker, NEW i \in 1 .. Len(Remote[w]), Sole(w, i),
         local'[LocalFile(w, i)] # local[LocalFile(w, i)]
  PROVE  disk[w] = i /\ (OpenTransfer(w) \/ CopyBlock(w))
<1>1. PICK v \in Worker : Work(v)
  BY DEF Next, Spawn, Join, Over, vars
<1>2. OpenTransfer(v) \/ CopyBlock(v)
  BY <1>1 DEF Work, Query, Download, Format, GetVMInfo, GetVMInfoFails,
    GetVMInfoPanics, GetGuestOSInfo, GetGuestOSInfoFails, Shutdown, ShutdownFails,
    SaveVMJson, SaveVMJsonFails, OpenTransferFails, CopyFails, CopyDone,
    MeasureDisk, Measure, FormatFails, Marshal, CreateOvf, CreateOvfFails,
    WriteOvf, WriteOvfFails, Fail
<1>3. disk[v] \in 1 .. Len(Remote[v])
  BY <1>2 DEF OpenTransfer, CopyBlock, At, Looping
<1>4. LocalFile(v, disk[v]) = LocalFile(w, i)
  <2>1. LocalFile(w, i) \in Files
    BY DiskOfVM
  <2>2. \E file : local' = [local EXCEPT ![LocalFile(v, disk[v])] = file]
    BY <1>2 DEF OpenTransfer, CopyBlock, LocalFile
  <2> QED  BY <2>1, <2>2 DEF TypeOK
<1> QED  BY <1>2, <1>3, <1>4 DEF Sole

\* A block written behind a prefix makes the prefix longer.
LEMMA WriteExtends ==
  ASSUME NEW d \in Disks, NEW n \in Nat, n + 1 \in Block,
         NEW file \in [Block -> Tag], Holds(file, d, n)
  PROVE  Holds(WriteAt(file, n + 1, d), d, n + 1)
<1> SUFFICES ASSUME NEW b \in Block
             PROVE  WriteAt(file, n + 1, d)[b] = IF b <= n + 1 THEN d ELSE None
  BY DEF Holds
<1> USE HostAssumption, MarkAssumption
<1>1. CASE b = n + 1
  BY <1>1 DEF WriteAt
<1>2. CASE b < n + 1
  BY <1>2 DEF WriteAt, Holds
<1>3. CASE b > n + 1
  BY <1>3 DEF WriteAt, Holds
<1> QED  BY <1>1, <1>2, <1>3

LEMMA KeptStep ==
  TypeOK /\ Started /\ Looping /\ Kept /\ [Next]_vars => Kept'
<1> SUFFICES ASSUME TypeOK, Started, Looping, Kept, [Next]_vars,
                    NEW w \in Worker, NEW i \in 1 .. Len(Remote[w]), Sole(w, i)
             PROVE  /\ Fetched(w, i)' => Intact(w, i)'
                    /\ pc'[w] = "transfer" /\ i = disk'[w] =>
                         /\ pos'[w] <= Size[Remote[w][i]]
                         /\ Holds(local'[LocalFile(w, i)], Remote[w][i], pos'[w])
  BY DEF Kept
<1> DEFINE file == LocalFile(w, i)
           d    == Remote[w][i]
<1>1. /\ Fetched(w, i) => Holds(local[file], d, Size[d])
      /\ pc[w] = "transfer" /\ i = disk[w] =>
           pos[w] <= Size[d] /\ Holds(local[file], d, pos[w])
  BY DEF Kept, Intact
<1>2. d \in Disks /\ file \in Files /\ Size[d] \in Block
  BY DiskOfVM
<1>3. SUFFICES /\ Fetched(w, i)' => Holds(local'[file], d, Size[d])
               /\ pc'[w] = "transfer" /\ i = disk'[w] =>
                    pos'[w] <= Size[d] /\ Holds(local'[file], d, pos'[w])
  BY DEF Intact, LocalFile
<1> HIDE DEF file, d
<1>4. CASE OpenTransfer(w) /\ disk[w] = i
  <2>1. pc' = [pc EXCEPT ![w] = "transfer"] /\ disk' = disk /\ pos'[w] = 0
    BY <1>4 DEF OpenTransfer, Goto, TypeOK
  <2>2. ~ Fetched(w, i)'
    BY <1>4, <2>1 DEF Fetched, TypeOK
  <2>3. local'[file] = NoBytes
    BY <1>2, <1>4 DEF OpenTransfer, TypeOK, file
  <2>4. Holds(local'[file], d, 0)
    BY <2>3 DEF Holds, NoBytes
  <2> QED  BY <1>2, <2>1, <2>2, <2>4, HostAssumption
<1>5. CASE CopyBlock(w) /\ disk[w] = i
  <2>1. /\ pc' = pc /\ disk' = disk /\ pos'[w] = pos[w] + 1
        /\ pc[w] = "transfer" /\ pos[w] < Size[d]
    BY <1>5 DEF CopyBlock, At, TypeOK, d
  <2>2. ~ Fetched(w, i)'
    BY <1>5, <2>1 DEF Fetched, TypeOK
  <2>3. local'[file] = WriteAt(local[file], pos[w] + 1, d)
    BY <1>2, <1>5 DEF CopyBlock, TypeOK, file, d, LocalFile
  <2>4. Holds(local[file], d, pos[w]) /\ local[file] \in [Block -> Tag]
    BY <1>1, <1>2, <1>5, <2>1 DEF TypeOK
  <2>5. pos[w] \in Nat /\ pos[w] + 1 <= Size[d] /\ pos[w] + 1 \in Block
    <3>1. pos[w] \in Nat
      BY DEF TypeOK
    <3>2. Size[d] \in Nat /\ Size[d] <= MaxSize /\ MaxSize \in Nat
      BY <1>2, HostAssumption
    <3> QED  BY <2>1, <3>1, <3>2
  <2>6. Holds(local'[file], d, pos[w] + 1)
    BY <1>2, <2>3, <2>4, <2>5, WriteExtends
  <2> QED  BY <2>1, <2>2, <2>5, <2>6
<1>6. CASE ~ (disk[w] = i /\ (OpenTransfer(w) \/ CopyBlock(w)))
  <2>1. local'[file] = local[file]
    BY <1>6, SoleFrame DEF file
  <2>2. CASE CopyDone(w)
    <3>1. /\ pc[w] = "transfer" /\ pos[w] = Size[Remote[w][disk[w]]]
          /\ \/ pc'[w] = "open" /\ disk'[w] = disk[w] + 1
             \/ pc'[w] = "format"
      BY <2>2 DEF CopyDone, NextDisk, At, Goto, TypeOK
    <3>2. disk[w] \in 1 .. Len(Remote[w])
      BY <3>1 DEF Looping
    <3>3. CASE i = disk[w]
      <4>1. pc[w] = "transfer" /\ pos[w] = Size[d]
        BY <3>1, <3>3 DEF d
      <4>2. Holds(local[file], d, Size[d])
        BY <1>1, <3>3, <4>1
      <4> QED  BY <2>1, <3>1, <3>3, <4>2
    <3>4. CASE i < disk[w]
      BY <1>1, <2>1, <3>1, <3>4 DEF Fetched
    <3>5. CASE i > disk[w]
      <4>1. disk[w] < Len(Remote[w])
        BY <3>2, <3>5, HostAssumption
      <4>2. pc'[w] = "open" /\ disk'[w] = disk[w] + 1
        BY <2>2, <4>1 DEF CopyDone, NextDisk, Goto, TypeOK
      <4> QED  BY <3>2, <3>5, <4>2 DEF Fetched
    <3> QED  BY <3>2, <3>3, <3>4, <3>5
  <2>3. CASE Query(w)
    <3>1. /\ disk[w] = 1 /\ disk' = disk
          /\ pc'[w] \in {"guest", "stop", "save", "open", "failed"}
      BY <2>3 DEF Query, GetVMInfo, GetVMInfoFails, GetVMInfoPanics,
        GetGuestOSInfo, GetGuestOSInfoFails, Shutdown, ShutdownFails, SaveVMJson,
        SaveVMJsonFails, Fail, At, Goto, Return, AfterStop, Looping, TypeOK
    <3> QED  BY <3>1 DEF Fetched
  <2>4. CASE Format(w)
    <3>1. pc[w] \in {"format", "create", "write"} /\ pc'[w] # "transfer"
      BY <2>4 DEF Format, MeasureDisk, Measure, FormatFails, Marshal, CreateOvf,
        CreateOvfFails, WriteOvf, WriteOvfFails, Fail, At, Goto, Return, TypeOK
    <3> QED  BY <1>1, <2>1, <3>1 DEF Fetched
  <2>5. CASE OpenTransferFails(w) \/ CopyFails(w)
    <3>1. pc'[w] = "failed"
      BY <2>5 DEF OpenTransferFails, CopyFails, Fail, Return, At, TypeOK
    <3> QED  BY <3>1 DEF Fetched
  <2>6. CASE OpenTransfer(w)
    <3>1. pc[w] = "open" /\ disk' = disk /\ i # disk[w]
      BY <1>6, <2>6 DEF OpenTransfer, At
    <3>2. Fetched(w, i)' => Fetched(w, i)
      <4>1. pc'[w] = "transfer"
        BY <2>6 DEF OpenTransfer, Goto, TypeOK
      <4> QED  BY <3>1, <4>1 DEF Fetched
    <3> QED  BY <1>1, <2>1, <3>1, <3>2
  <2>7. CASE CopyBlock(w)
    <3>1. pc' = pc /\ disk' = disk /\ i # disk[w]
      BY <1>6, <2>7 DEF CopyBlock
    <3> QED  BY <1>1, <2>1, <3>1 DEF Fetched
  <2>8. CASE pc'[w] = pc[w] /\ disk'[w] = disk[w] /\ pos'[w] = pos[w]
    BY <1>1, <2>1, <2>8 DEF Fetched
  <2>9. CASE Spawn
    <3>1. disk' = disk /\ pos' = pos /\ (pc'[w] = pc[w] \/ pc'[w] = "info")
      BY <2>9 DEF Spawn, TypeOK
    <3> QED  BY <2>8, <3>1 DEF Fetched
  <2>10. CASE Join \/ Over \/ UNCHANGED vars
    BY <2>8, <2>10 DEF Join, Over, vars
  <2>11. ASSUME NEW v \in Worker, Work(v), v # w
         PROVE  pc'[w] = pc[w] /\ disk'[w] = disk[w] /\ pos'[w] = pos[w]
    BY <2>11, OthersStay
  <2> QED  BY <2>2, <2>3, <2>4, <2>5, <2>6, <2>7, <2>8, <2>9, <2>10, <2>11
           DEF Next, Work, Download
<1> QED  BY <1>4, <1>5, <1>6

\* What a worker has still to fetch is touched by nobody.
LEMMA UnfetchedStep ==
  TypeOK /\ Started /\ Looping /\ Unfetched /\ [Next]_vars => Unfetched'
<1> SUFFICES ASSUME TypeOK, Started, Looping, Unfetched, [Next]_vars,
                    NEW w \in Worker, NEW i \in 1 .. Len(Remote[w]), Sole(w, i),
                    Ahead(w, i)', NEW b \in Block
             PROVE  local'[LocalFile(w, i)][b] # Remote[w][i]
  BY DEF Unfetched, LocalFile
<1>1. Ahead(w, i)
  <2>1. CASE Spawn
    <3>1. disk' = disk /\ (pc'[w] = pc[w] \/ (w = spawned + 1 /\ pc'[w] = "info"))
      BY <2>1 DEF Spawn, TypeOK
    <3>2. w = spawned + 1 => pc[w] = "new"
      BY <2>1, HostAssumption DEF Spawn, Started, TypeOK
    <3> QED  BY <3>1, <3>2 DEF Ahead
  <2>2. CASE Join \/ Over \/ UNCHANGED vars
    BY <2>2 DEF Join, Over, vars, Ahead
  <2>3. ASSUME NEW v \in Worker, Work(v), v # w PROVE Ahead(w, i)
    BY <2>3, OthersStay DEF Ahead
  <2>4. CASE Query(w)
    BY <2>4 DEF Query, GetVMInfo, GetVMInfoFails, GetVMInfoPanics,
      GetGuestOSInfo, GetGuestOSInfoFails, Shutdown, ShutdownFails, SaveVMJson,
      SaveVMJsonFails, Fail, At, Ahead
  <2>5. CASE CopyDone(w)
    <3>1. disk[w] \in 1 .. Len(Remote[w]) /\ pc[w] = "transfer"
      BY <2>5 DEF CopyDone, At, Looping
    <3>2. \/ pc'[w] = "open" /\ disk'[w] = disk[w] + 1
          \/ pc'[w] = "format"
      BY <2>5 DEF CopyDone, NextDisk, Goto, TypeOK
    <3> QED  BY <3>1, <3>2 DEF Ahead
  <2>6. CASE OpenTransfer(w)
    BY <2>6 DEF OpenTransfer, At, Goto, Ahead, Looping, TypeOK
  <2>7. CASE CopyBlock(w) \/ OpenTransferFails(w) \/ CopyFails(w)
    BY <2>7 DEF CopyBlock, OpenTransferFails, CopyFails, Fail, Return, At, Ahead,
      TypeOK
  <2>8. CASE Format(w)
    BY <2>8 DEF Format, MeasureDisk, Measure, FormatFails, Marshal, CreateOvf,
      CreateOvfFails, WriteOvf, WriteOvfFails, Fail, At, Goto, Return, Ahead, TypeOK
  <2> QED  BY <2>1, <2>2, <2>3, <2>4, <2>5, <2>6, <2>7, <2>8
           DEF Next, Work, Download
<1>2. CASE local'[LocalFile(w, i)] = local[LocalFile(w, i)]
  BY <1>1, <1>2 DEF Unfetched
<1>3. CASE OpenTransfer(w) /\ disk[w] = i
  <2>1. local'[LocalFile(w, i)] = NoBytes
    BY <1>3, DiskOfVM DEF OpenTransfer, TypeOK
  <2> QED  BY <2>1, DiskOfVM, MarkAssumption DEF NoBytes
<1>4. CASE CopyBlock(w) /\ disk[w] = i
  <2>1. pc[w] = "transfer"
    BY <1>4 DEF CopyBlock, At
  <2> QED  BY <1>1, <1>4, <2>1 DEF Ahead, Looping
<1> QED  BY <1>2, <1>3, <1>4, SoleFrame

-----------------------------------------------------------------------------
(* The capacities *)

LEMMA MeasuringStep ==
  TypeOK /\ Started /\ Looping /\ Kept /\ Measuring /\ [Next]_vars => Measuring'
<1> SUFFICES ASSUME TypeOK, Started, Looping, Kept, Measuring, [Next]_vars,
                    NEW w \in Worker
             PROVE  /\ pc'[w] \notin {"format", "create", "write", "ok", "failed"} =>
                         capacity'[w] = <<>>
                    /\ pc'[w] = "format" => Measured(w, disk[w] - 1)'
                    /\ pc'[w] \in {"create", "write", "ok"} =>
                         Measured(w, HardDrives[w])'
  BY DEF Measuring
<1>0. Len(Remote[w]) \in Nat /\ HardDrives[w] \in Nat /\ Len(Remote[w]) <= HardDrives[w]
  BY HostAssumption
<1>1. CASE pc'[w] = pc[w] /\ disk'[w] = disk[w] /\ capacity'[w] = capacity[w]
  BY <1>1 DEF Measuring, Measured
<1>2. CASE Spawn
  <2>1. disk' = disk /\ capacity' = capacity
    BY <1>2 DEF Spawn
  <2>2. CASE w = spawned + 1
    <3>1. pc[w] = "new" /\ pc'[w] = "info"
      BY <1>2, <2>2, HostAssumption DEF Spawn, Started, TypeOK
    <3> QED  BY <2>1, <3>1 DEF Measuring
  <2>3. CASE w # spawned + 1
    BY <1>1, <1>2, <2>1, <2>3 DEF Spawn, TypeOK
  <2> QED  BY <2>2, <2>3
<1>3. CASE Join \/ Over \/ UNCHANGED vars
  BY <1>1, <1>3 DEF Join, Over, vars
<1>4. ASSUME NEW v \in Worker, Work(v), v # w
      PROVE  pc'[w] = pc[w] /\ disk'[w] = disk[w] /\ capacity'[w] = capacity[w]
  BY <1>4, OthersStay
<1>5. CASE Query(w)
  <2>1. /\ pc[w] \in {"info", "guest", "stop", "save"}
        /\ pc'[w] \in {"guest", "stop", "save", "open", "failed"}
        /\ capacity' = capacity
    BY <1>5 DEF Query, GetVMInfo, GetVMInfoFails, GetVMInfoPanics,
      GetGuestOSInfo, GetGuestOSInfoFails, Shutdown, ShutdownFails, SaveVMJson,
      SaveVMJsonFails, Fail, At, Goto, Return, AfterStop, TypeOK
  <2> QED  BY <2>1 DEF Measuring
<1>6. CASE Download(w)
  <2>1. /\ pc[w] \in {"open", "transfer"} /\ capacity' = capacity
        /\ \/ pc'[w] \in {"open", "transfer", "failed"}
           \/ pc'[w] = "format" /\ disk'[w] = 1
    BY <1>6 DEF Download, OpenTransfer, OpenTransferFails, CopyBlock, CopyFails,
      CopyDone, NextDisk, Fail, At, Goto, Return, TypeOK
  <2>2. capacity'[w] = <<>>
    BY <2>1 DEF Measuring
  <2> QED  BY <1>0, <2>1, <2>2 DEF Measured
<1>7. CASE MeasureDisk(w)
  <2> DEFINE n == disk[w]
             file == local[LocalFile(w, n)]
  <2>1. /\ pc[w] = "format" /\ pc' = pc
        /\ n \in 1 .. Len(Remote[w])
        /\ disk'[w] = n + 1
        /\ \E reading \in CapacityOf(file) : capacity'[w] = Append(capacity[w], reading)
    BY <1>0, <1>7 DEF MeasureDisk, Measure, At, Looping, TypeOK
  <2>2. Measured(w, n - 1) /\ capacity[w] \in Seq(Reading)
    BY <2>1 DEF Measuring, TypeOK
  <2>3. Sole(w, n) => CapacityOf(file) \subseteq OwnCapacity(w, n)
    <3> SUFFICES ASSUME Sole(w, n) PROVE CapacityOf(file) \subseteq OwnCapacity(w, n)
      OBVIOUS
    <3>1. Intact(w, n)
      BY <2>1 DEF Kept, Fetched
    <3>2. Size[Remote[w][n]] \in Block
      BY <2>1, DiskOfVM
    <3>3. 1 \in Block /\ 1 <= Size[Remote[w][n]]
      BY <3>2, HostAssumption
    <3>4. file[1] = Remote[w][n]
      BY <3>1, <3>3 DEF Intact, Holds
    <3>5. Length(file) = Size[Remote[w][n]]
      BY <2>1, <3>1, <3>2, DiskOfVM, LengthOfPrefix DEF Intact
    <3> QED  BY <3>4, <3>5 DEF CapacityOf, OwnCapacity
  <2> HIDE DEF n, file
  <2>4. Len(capacity'[w]) = n /\ n \in Nat
    BY <2>1, <2>2 DEF Measured
  <2>5. ASSUME NEW i \in 1 .. n, Sole(w, i) PROVE capacity'[w][i] \in OwnCapacity(w, i)
    <3>1. CASE i = n
      BY <2>1, <2>2, <2>3, <2>5, <3>1 DEF Measured
    <3>2. CASE i # n
      <4>1. i \in 1 .. n - 1
        BY <2>4, <3>2
      <4>2. capacity'[w][i] = capacity[w][i]
        BY <2>1, <2>2, <4>1 DEF Measured
      <4> QED  BY <2>2, <2>5, <4>1, <4>2 DEF Measured
    <3> QED  BY <3>1, <3>2
  <2>6. disk'[w] - 1 = n /\ n <= Len(Remote[w])
    BY <1>0, <2>1, <2>4
  <2>7. Measured(w, disk[w] - 1)'
    BY <2>4, <2>5, <2>6 DEF Measured, OwnCapacity
  <2> QED  BY <2>1, <2>7
<1>8. CASE Marshal(w)
  <2>1. /\ pc[w] = "format" /\ pc'[w] = "create" /\ capacity' = capacity
        /\ HardDrives[w] < disk[w] /\ disk[w] \in 1 .. Len(Remote[w]) + 1
    BY <1>8 DEF Marshal, At, Goto, Looping, TypeOK
  <2>2. disk[w] - 1 = HardDrives[w]
    BY <1>0, <2>1
  <2> QED  BY <2>1, <2>2 DEF Measuring, Measured
<1>9. CASE FormatFails(w) \/ CreateOvf(w) \/ CreateOvfFails(w) \/ WriteOvf(w)
             \/ WriteOvfFails(w)
  <2>1. /\ capacity' = capacity
        /\ \/ pc'[w] = "failed"
           \/ pc[w] \in {"create", "write"} /\ pc'[w] \in {"write", "ok"}
    BY <1>9 DEF FormatFails, CreateOvf, CreateOvfFails, WriteOvf, WriteOvfFails,
      Fail, At, Goto, Return, TypeOK
  <2> QED  BY <2>1 DEF Measuring, Measured
<1> QED  BY <1>1, <1>2, <1>3, <1>4, <1>5, <1>6, <1>7, <1>8, <1>9
         DEF Next, Work, Format

-----------------------------------------------------------------------------
(* The theorems *)

THEOREM Invariance == Spec => []IInv
<1>1. IInv /\ [Next]_vars => IInv'
  BY CountedStep, TypeStep, StartedStep, JoinedStep, OffStep, LoopingStep, KeptStep,
     UnfetchedStep, MeasuringStep, MarkedStep DEF IInv
<1> QED  BY InitIInv, <1>1, PTL DEF Spec

\* Every variable keeps its type; the WaitGroup never goes negative, which
\* would end the process (main.go:79-82).
THEOREM TypeCorrect == Spec => []TypeOK
<1>1. IInv => TypeOK
  BY DEF IInv
<1> QED  BY Invariance, <1>1, PTL

\* main passes wg.Wait() only when every worker has returned (main.go:161).
THEOREM JoinIsQuiet == Spec => []QuietAfterJoin
<1>1. IInv => QuietAfterJoin
  BY DEF IInv
<1> QED  BY Invariance, <1>1, PTL

\* A worker answers for an OVF, be it its own or one of an earlier run it
\* failed to replace, behind the complete disks of its VM only
\* (main.go:132-157).
THEOREM CommitMark == Spec => []OvfIsCommitMark
<1>1. IInv => OvfIsCommitMark
  BY DEF IInv, OvfIsCommitMark, Vouches, Marked, Kept, Fetched
<1> QED  BY Invariance, <1>1, PTL

\* An OVF announces the capacities of its own disks (ovfFormater.go:91-132).
THEOREM OwnCapacities == Spec => []CapacityOfOwnDisk
<1>1. IInv => CapacityOfOwnDisk
  <2> SUFFICES ASSUME IInv, NEW o \in Ovfs, NEW v \in Worker, ovf[o] = v
               PROVE  /\ Len(capacity[v]) = HardDrives[v]
                      /\ \A i \in 1 .. Len(Remote[v]) :
                           Sole(v, i) => capacity[v][i] \in OwnCapacity(v, i)
    BY DEF CapacityOfOwnDisk
  <2>1. Measured(v, HardDrives[v])
    BY DEF IInv, Marked, Measuring
  <2>2. HardDrives[v] = Len(Remote[v])
    BY <2>1, HostAssumption DEF Measured
  <2> QED  BY <2>1, <2>2 DEF Measured
<1> QED  BY Invariance, <1>1, PTL

\* A disk that no other VM has is read while its VM is off (main.go:116-151).
THEOREM ReadAtRest == Spec => DisksReadAtRest
<1> DEFINE Rest(v, i) ==
      /\ \A w \in Worker \ {v} : \A j \in 1 .. Len(Remote[w]) :
           Remote[w][j] # Remote[v][i]
      /\ \E b \in Block :
           /\ local[LocalFile(v, i)][b] # Remote[v][i]
           /\ local'[LocalFile(v, i)][b] = Remote[v][i]
      => power[v] = "off"
<1>1. IInv /\ [Next]_vars =>
        [\A v \in Worker : \A i \in 1 .. Len(Remote[v]) : Rest(v, i)]_vars
  <2> SUFFICES ASSUME IInv, [Next]_vars, NEW v \in Worker,
                      NEW i \in 1 .. Len(Remote[v]),
                      \A w \in Worker \ {v} : \A j \in 1 .. Len(Remote[w]) :
                        Remote[w][j] # Remote[v][i],
                      NEW b \in Block,
                      local[LocalFile(v, i)][b] # Remote[v][i],
                      local'[LocalFile(v, i)][b] = Remote[v][i]
               PROVE  power[v] = "off"
    OBVIOUS
  <2>1. PICK w \in Worker : Work(w)
    BY DEF Next, Spawn, Join, Over, vars
  <2>2. OpenTransfer(w) \/ CopyBlock(w)
    BY <2>1 DEF Work, Query, Download, Format, GetVMInfo, GetVMInfoFails,
      GetVMInfoPanics, GetGuestOSInfo, GetGuestOSInfoFails, Shutdown, ShutdownFails,
      SaveVMJson, SaveVMJsonFails, OpenTransferFails, CopyFails, CopyDone,
      MeasureDisk, Measure, FormatFails, Marshal, CreateOvf, CreateOvfFails,
      WriteOvf, WriteOvfFails, Fail
  <2>3. Remote[v][i] \in Disks /\ LocalFile(v, i) \in Files
    BY DiskOfVM
  <2>4. disk[w] \in 1 .. Len(Remote[w])
    BY <2>2 DEF OpenTransfer, CopyBlock, At, IInv, Looping
  <2>5. pc[w] \in Stopped
    BY <2>2 DEF OpenTransfer, CopyBlock, At, Stopped
  <2>6. Remote[w][disk[w]] = Remote[v][i]
    <3>1. CASE OpenTransfer(w)
      BY <2>3, <3>1, MarkAssumption DEF OpenTransfer, NoBytes, IInv, TypeOK
    <3>2. CASE CopyBlock(w)
      <4> DEFINE d == Remote[w][disk[w]]
      <4>1. local' = [local EXCEPT ![BaseName[d]] =
                        WriteAt(local[BaseName[d]], pos[w] + 1, d)]
        BY <3>2 DEF CopyBlock
      <4>2. BaseName[d] = LocalFile(v, i)
        BY <2>3, <4>1 DEF IInv, TypeOK
      <4>3. WriteAt(local[LocalFile(v, i)], pos[w] + 1, d)[b] = Remote[v][i]
        BY <2>3, <4>1, <4>2 DEF IInv, TypeOK
      <4> QED  BY <2>3, <4>3, MarkAssumption DEF WriteAt
    <3> QED  BY <2>2, <3>1, <3>2
  <2>7. w = v
    BY <2>4, <2>6
  <2> QED  BY <2>5, <2>7 DEF IInv, Off
<1> QED  BY Invariance, <1>1, PTL DEF Spec, DisksReadAtRest

-----------------------------------------------------------------------------
(* The promise *)

LEMMA CleanVM ==
  ASSUME NEW u \in Clean
  PROVE  /\ u \in Worker /\ Remote[u] # <<>> /\ SoleOvf(u)
         /\ 1 \in 1 .. Len(Remote[u])
         /\ OvfFile(u) \in Ovfs
         /\ \A i \in 1 .. Len(Remote[u]) : Sole(u, i)
<1>1. u \in Worker /\ Remote[u] \in Seq(Disks) /\ Remote[u] # <<>>
  BY HostAssumption DEF Clean
<1>2. 1 \in 1 .. Len(Remote[u])
  BY <1>1
<1>3. LocalFile(u, 1) \in Files
  BY <1>1, <1>2, DiskOfVM
<1> QED  BY <1>1, <1>2, <1>3, OutputAssumption DEF Clean, OvfFile

\* The disks of a VM without collisions are delivered by its own last block.
LEMMA DeliveredStep ==
  ASSUME IInv, [Next]_vars, Delivered' # Delivered
  PROVE  \E v \in Clean : /\ CopyBlock(v)
                          /\ v \notin Delivered
                          /\ Delivered' = Delivered \cup {v}
<1> USE DEF IInv
<1>0. ASSUME NEW u \in Clean
      PROVE  u \in Worker /\ \A i \in 1 .. Len(Remote[u]) : Sole(u, i)
  BY DEF Clean
<1>1. PICK u \in Clean : ~ (u \in Delivered <=> u \in Delivered')
  BY DEF Delivered
<1>2. PICK i \in 1 .. Len(Remote[u]) :
        local'[LocalFile(u, i)] # local[LocalFile(u, i)]
  BY <1>1 DEF Delivered, Intact, LocalFile
<1>3. disk[u] = i /\ (OpenTransfer(u) \/ CopyBlock(u))
  BY <1>0, <1>2, SoleFrame
<1>4. /\ Remote[u][i] \in Disks /\ LocalFile(u, i) \in Files
      /\ Size[Remote[u][i]] \in Block
  BY <1>0, DiskOfVM
<1>5. Sole(u, i)
  BY <1>0
<1>6. u \notin Delivered
  <2>1. CASE OpenTransfer(u)
    <3>1. Ahead(u, i)
      BY <1>3, <2>1 DEF OpenTransfer, At, Ahead
    <3>2. 1 \in Block /\ 1 <= Size[Remote[u][i]]
      BY <1>4, HostAssumption
    <3>3. local[LocalFile(u, i)][1] # Remote[u][i]
      BY <1>0, <1>5, <3>1, <3>2 DEF Unfetched
    <3>4. ~ Intact(u, i)
      BY <3>2, <3>3 DEF Intact, Holds
    <3> QED  BY <3>4 DEF Delivered
  <2>2. CASE CopyBlock(u)
    <3>1. pos[u] \in Nat /\ pos[u] < Size[Remote[u][i]] /\ pc[u] = "transfer"
      BY <1>0, <1>3, <2>2 DEF CopyBlock, At, TypeOK
    <3>2. Holds(local[LocalFile(u, i)], Remote[u][i], pos[u])
      BY <1>0, <1>3, <1>5, <3>1 DEF Kept
    <3>3. Size[Remote[u][i]] \in Nat /\ Size[Remote[u][i]] <= MaxSize /\ MaxSize \in Nat
      BY <1>4, HostAssumption, SMTT(30)
    <3>4. pos[u] + 1 \in Block /\ pos[u] + 1 <= Size[Remote[u][i]] /\ ~ pos[u] + 1 <= pos[u]
      BY <3>1, <3>3
    <3>5. local[LocalFile(u, i)][pos[u] + 1] = None
      BY <3>2, <3>4 DEF Holds
    <3>6. ~ Intact(u, i)
      BY <1>4, <3>4, <3>5, MarkAssumption DEF Intact, Holds
    <3> QED  BY <3>6 DEF Delivered
  <2> QED  BY <1>3, <2>1, <2>2
<1>7. u \in Delivered'
  BY <1>1, <1>6
<1>8. CopyBlock(u)
  <2> SUFFICES ASSUME OpenTransfer(u) PROVE FALSE
    BY <1>3
  <2>1. local'[LocalFile(u, i)] = NoBytes
    BY <1>3, <1>4 DEF OpenTransfer, TypeOK
  <2>2. 1 \in Block /\ 1 <= Size[Remote[u][i]]
    BY <1>4, HostAssumption
  <2>3. Intact(u, i)'
    BY <1>7 DEF Delivered
  <2>4. local'[LocalFile(u, i)][1] = Remote[u][i]
    BY <2>2, <2>3 DEF Intact, Holds, LocalFile
  <2> QED  BY <1>4, <2>1, <2>2, <2>4, MarkAssumption DEF NoBytes
<1>9. ASSUME NEW w \in Clean, w # u PROVE w \in Delivered <=> w \in Delivered'
  <2>1. ASSUME NEW j \in 1 .. Len(Remote[w])
        PROVE  local'[LocalFile(w, j)] = local[LocalFile(w, j)]
    <3>1. ~ OpenTransfer(w)
      BY <1>0, <1>8 DEF OpenTransfer, CopyBlock, At, Goto, TypeOK
    <3>2. ~ CopyBlock(w)
      <4>1. pos'[w] = pos[w] /\ pos[w] \in Nat
        BY <1>0, <1>8, <1>9 DEF CopyBlock, TypeOK
      <4>2. pos[w] # pos[w] + 1
        BY <4>1
      <4> QED  BY <1>0, <4>1, <4>2 DEF CopyBlock, TypeOK
    <3> QED  BY <1>0, <3>1, <3>2, SoleFrame
  <2> QED  BY <2>1 DEF Delivered, Intact, LocalFile
<1>10. Delivered' = Delivered \cup {u}
  BY <1>6, <1>7, <1>9 DEF Delivered
<1> QED  BY <1>6, <1>8, <1>10

\* The OVF of such a VM is written once, and behind its delivery.
LEMMA AnnouncedStep ==
  ASSUME IInv, [Next]_vars, Announced' # Announced
  PROVE  \E v \in Clean : /\ WriteOvf(v)
                          /\ v \in Delivered \ Announced
                          /\ Announced' = Announced \cup {v}
<1> USE DEF IInv
<1>0. ASSUME NEW u \in Clean
      PROVE  /\ u \in Worker /\ Remote[u] # <<>> /\ SoleOvf(u)
             /\ OvfFile(u) \in Ovfs
             /\ \A i \in 1 .. Len(Remote[u]) : Sole(u, i)
  BY CleanVM
<1>1. ASSUME NEW u \in Clean, ~ (u \in Announced <=> u \in Announced')
      PROVE  WriteOvf(u) /\ u \notin Announced /\ u \in Announced'
  <2>1. ovf'[OvfFile(u)] # ovf[OvfFile(u)]
    BY <1>1 DEF Announced, OvfFile, LocalFile
  <2>2. PICK w \in Worker : Work(w)
    BY <2>1 DEF Next, Spawn, Join, Over, vars
  <2>3. pc[w] \in {"create", "write"} /\ OvfFile(w) = OvfFile(u)
    BY <1>0, <2>1, <2>2 DEF Work, Query, Download, Format, GetVMInfo, GetVMInfoFails,
      GetVMInfoPanics, GetGuestOSInfo, GetGuestOSInfoFails, Shutdown, ShutdownFails,
      SaveVMJson, SaveVMJsonFails, OpenTransfer, OpenTransferFails, CopyBlock,
      CopyFails, CopyDone, MeasureDisk, Measure, FormatFails, Marshal, CreateOvf,
      CreateOvfFails, WriteOvf, WriteOvfFails, Fail, At, TypeOK
  <2>4. w = u
    BY <1>0, <2>3 DEF SoleOvf, Looping
  <2>5. ovf[OvfFile(u)] # u
    BY <1>0, <2>3, <2>4 DEF Marked
  <2>6. u \notin Announced /\ u \in Announced'
    BY <1>1, <2>5 DEF Announced
  <2>7. ovf'[OvfFile(u)] = u
    BY <2>6 DEF Announced, OvfFile, LocalFile
  <2>8. CASE CreateOvf(u) \/ WriteOvfFails(u)
    <3>1. ovf'[OvfFile(u)] \in {Empty, Junk, ovf[OvfFile(u)]}
      BY <1>0, <2>8 DEF CreateOvf, WriteOvfFails, TypeOK
    <3> QED  BY <1>0, <2>5, <2>7, <3>1, MarkAssumption
  <2>9. CASE ~ CreateOvf(u) /\ ~ WriteOvfFails(u) /\ ~ WriteOvf(u)
    BY <2>1, <2>2, <2>4, <2>9 DEF Work, Query, Download, Format, GetVMInfo,
      GetVMInfoFails, GetVMInfoPanics, GetGuestOSInfo, GetGuestOSInfoFails,
      Shutdown, ShutdownFails, SaveVMJson, SaveVMJsonFails, OpenTransfer,
      OpenTransferFails, CopyBlock, CopyFails, CopyDone, MeasureDisk, Measure,
      FormatFails, Marshal, CreateOvfFails, Fail
  <2> QED  BY <2>6, <2>8, <2>9
<1>2. PICK u \in Clean : ~ (u \in Announced <=> u \in Announced')
  BY DEF Announced
<1>3. WriteOvf(u) /\ u \notin Announced /\ u \in Announced'
  BY <1>1, <1>2
<1>4. u \in Delivered
  <2>1. pc[u] = "write"
    BY <1>3 DEF WriteOvf, At
  <2> QED  BY <1>0, <2>1 DEF Delivered, Kept, Fetched
<1>5. ASSUME NEW w \in Clean, w # u PROVE w \in Announced <=> w \in Announced'
  <2>1. pc'[w] = pc[w]
    BY <1>0, <1>3, <1>5, OthersStay DEF Work, Format
  <2>2. ~ WriteOvf(w)
    BY <1>0, <2>1 DEF WriteOvf, Return, At, TypeOK
  <2> QED  BY <1>1, <2>2
<1>6. Announced' = Announced \cup {u}
  BY <1>3, <1>5 DEF Announced
<1> QED  BY <1>3, <1>4, <1>6

\* The workers of the program keep the promise of ExportPromise.
THEOREM Refinement == Spec => KeepsPromise
<1>1. Init => Promise!Init
  <2> SUFFICES ASSUME Init PROVE Delivered = {} /\ Announced = {} /\ main = "run"
    BY DEF Promise!Init
  <2>1. IInv
    BY InitIInv
  <2>2. Delivered = {}
    <3> SUFFICES ASSUME NEW v \in Delivered PROVE FALSE
      OBVIOUS
    <3>1. v \in Worker /\ Remote[v] \in Seq(Disks) /\ Remote[v] # <<>>
      BY HostAssumption DEF Delivered, Clean
    <3>2. 1 \in 1 .. Len(Remote[v])
      BY <3>1
    <3>3. Sole(v, 1) /\ Ahead(v, 1) /\ Intact(v, 1)
      BY <3>1, <3>2 DEF Delivered, Clean, Init, Ahead
    <3>4. Size[Remote[v][1]] \in Block
      BY <3>1, <3>2, DiskOfVM
    <3>5. 1 \in Block /\ 1 <= Size[Remote[v][1]]
      BY <3>4, HostAssumption
    <3> QED  BY <2>1, <3>1, <3>2, <3>3, <3>5 DEF IInv, Unfetched, Intact, Holds
  <2>3. Announced = {}
    <3> SUFFICES ASSUME NEW v \in Announced PROVE FALSE
      OBVIOUS
    <3>1. v \in Clean /\ ovf[OvfFile(v)] = v
      BY DEF Announced
    <3> QED  BY <3>1, CleanVM, MarkAssumption DEF Init
  <2> QED  BY <2>2, <2>3 DEF Init
<1>2. IInv /\ [Next]_vars => [Promise!Next]_(Promise!vars)
  <2> SUFFICES ASSUME IInv, [Next]_vars
               PROVE  Promise!Next \/ UNCHANGED Promise!vars
    OBVIOUS
  <2>1. CASE Delivered' # Delivered
    <3>1. PICK v \in Clean : /\ CopyBlock(v) /\ v \notin Delivered
                             /\ Delivered' = Delivered \cup {v}
      BY <2>1, DeliveredStep
    <3>2. v \in Worker
      BY DEF Clean
    <3>3. main = "run" /\ main' = main
      BY <3>1, <3>2 DEF CopyBlock, At, IInv, TypeOK, QuietAfterJoin
    <3>4. Announced' = Announced
      BY <3>1 DEF CopyBlock, Announced, OvfFile, LocalFile
    <3> QED  BY <3>1, <3>3, <3>4 DEF Promise!Next, Promise!Deliver
  <2>2. CASE Announced' # Announced
    <3>1. PICK v \in Clean : /\ WriteOvf(v) /\ v \in Delivered \ Announced
                             /\ Announced' = Announced \cup {v}
      BY <2>2, AnnouncedStep
    <3>2. v \in Worker
      BY DEF Clean
    <3>3. main = "run" /\ main' = main
      BY <3>1, <3>2 DEF WriteOvf, At, IInv, TypeOK, QuietAfterJoin
    <3>4. Delivered' = Delivered
      BY <3>1 DEF WriteOvf, Delivered, Intact, LocalFile
    <3> QED  BY <3>1, <3>3, <3>4 DEF Promise!Next, Promise!Announce
  <2>3. CASE Delivered' = Delivered /\ Announced' = Announced
    <3>1. CASE main' = main
      BY <2>3, <3>1 DEF Promise!vars
    <3>2. CASE main' # main
      <4>1. Join \/ \E v \in Worker : Work(v)
        BY <3>2 DEF Next, Spawn, Over, vars
      <4>2. main = "run" /\ main' # "run"
        <5>1. CASE Join
          BY <5>1 DEF Join
        <5>2. CASE \E v \in Worker : Work(v)
          BY <3>2, <5>2, WorkMoves DEF Work, Query, Download, Format, GetVMInfo,
            GetVMInfoFails, GetVMInfoPanics, GetGuestOSInfo, GetGuestOSInfoFails,
            Shutdown, ShutdownFails, SaveVMJson, SaveVMJsonFails, OpenTransfer,
            OpenTransferFails, CopyBlock, CopyFails, CopyDone, MeasureDisk, Measure,
            FormatFails, Marshal, CreateOvf, CreateOvfFails, WriteOvf,
            WriteOvfFails, Fail, At, IInv, TypeOK, QuietAfterJoin
        <5> QED  BY <4>1, <5>1, <5>2
      <4> QED  BY <2>3, <4>2 DEF Promise!Next, Promise!Close
    <3> QED  BY <3>1, <3>2
  <2> QED  BY <2>1, <2>2, <2>3
<1> QED  BY <1>1, <1>2, Invariance, PTL DEF Spec, KeepsPromise, Promise!Spec

-----------------------------------------------------------------------------
(* The measure *)

\* A step that leaves the worker's loops where they were.
LEMMA PlacedFurther ==
  ASSUME TypeOK, Bounded, NEW v \in Worker, Place(v) < Place(v)',
         UNCHANGED <<disk, pos>>
  PROVE  Further(v) /\ disk'[v] \in 1 .. HardDrives[v] + 1 /\ pos'[v] \in 0 .. MaxSize
BY DEF Further, Bounded

\* Each step of a worker brings it further, within the bounds of its loops.
LEMMA WorkFurther ==
  ASSUME TypeOK, Looping, Bounded, NEW v \in Worker, Work(v)
  PROVE  Further(v) /\ disk'[v] \in 1 .. HardDrives[v] + 1 /\ pos'[v] \in 0 .. MaxSize
<1>1. /\ Len(Remote[v]) \in Nat /\ HardDrives[v] \in Nat /\ MaxSize \in Nat
      /\ Len(Remote[v]) <= HardDrives[v]
  BY HostAssumption
<1>2. /\ disk[v] \in 1 .. HardDrives[v] + 1 /\ pos[v] \in 0 .. MaxSize
      /\ disk[v] \in Nat /\ pos[v] \in Nat
      /\ DOMAIN pc = Worker /\ DOMAIN disk = Worker /\ DOMAIN pos = Worker
  BY DEF Bounded, TypeOK
<1>3. CASE Query(v)
  <2>1. UNCHANGED <<disk, pos>>
    BY <1>3 DEF Query, GetVMInfo, GetVMInfoFails, GetVMInfoPanics, GetGuestOSInfo,
      GetGuestOSInfoFails, Shutdown, ShutdownFails, SaveVMJson, SaveVMJsonFails, Fail
  <2>2. CASE GetVMInfo(v) \/ GetGuestOSInfo(v) \/ Shutdown(v) \/ SaveVMJson(v)
    <3>1. <<pc[v], pc'[v]>> \in
            {<<"info", "guest">>, <<"guest", "stop">>, <<"stop", "save">>,
             <<"stop", "open">>, <<"save", "open">>}
      BY <1>2, <2>2 DEF GetVMInfo, GetGuestOSInfo, Shutdown, SaveVMJson, At, Goto,
        AfterStop
    <3>2. Place(v) < Place(v)'
      BY <3>1 DEF Place
    <3> QED  BY <2>1, <3>2, PlacedFurther
  <2>3. CASE \/ GetVMInfoFails(v) \/ GetVMInfoPanics(v) \/ GetGuestOSInfoFails(v)
             \/ ShutdownFails(v) \/ SaveVMJsonFails(v)
    <3>1. pc[v] \in {"info", "guest", "stop", "save"} /\ pc'[v] = "failed"
      BY <1>2, <2>3 DEF GetVMInfoFails, GetVMInfoPanics, GetGuestOSInfoFails,
        ShutdownFails, SaveVMJsonFails, Fail, At, Return
    <3>2. Place(v) < Place(v)'
      BY <3>1 DEF Place
    <3> QED  BY <2>1, <3>2, PlacedFurther
  <2> QED  BY <1>3, <2>2, <2>3 DEF Query
<1>4. CASE OpenTransferFails(v) \/ CopyFails(v) \/ FormatFails(v)
  <2>1. /\ UNCHANGED <<disk, pos>>
        /\ pc[v] \in {"open", "transfer", "format"} /\ pc'[v] = "failed"
    BY <1>2, <1>4 DEF OpenTransferFails, CopyFails, FormatFails, Fail, At, Return
  <2>2. Place(v) < Place(v)'
    BY <2>1 DEF Place
  <2> QED  BY <2>1, <2>2, PlacedFurther
<1>5. CASE OpenTransfer(v)
  <2>1. /\ pc[v] = "open" /\ pc'[v] = "transfer"
        /\ disk' = disk /\ pos'[v] = 0
    BY <1>2, <1>5 DEF OpenTransfer, At, Goto
  <2>2. Place(v)' = Place(v) /\ Written(v) = 0 /\ Written(v)' = 1
    BY <2>1 DEF Place, Written
  <2> QED  BY <1>1, <1>2, <2>1, <2>2 DEF Further
<1>6. CASE CopyBlock(v)
  <2>1. /\ pc[v] = "transfer" /\ pc' = pc /\ disk' = disk /\ pos'[v] = pos[v] + 1
        /\ pos[v] < Size[Remote[v][disk[v]]]
    BY <1>2, <1>6 DEF CopyBlock, At
  <2>2. Size[Remote[v][disk[v]]] \in 1 .. MaxSize
    BY <2>1, DiskOfVM DEF Looping
  <2>3. pos'[v] \in 0 .. MaxSize
    <3> DEFINE size == Size[Remote[v][disk[v]]]
    <3>1. size \in 1 .. MaxSize /\ pos[v] < size /\ pos'[v] = pos[v] + 1
      BY <2>1, <2>2
    <3> HIDE DEF size
    <3> QED  BY <1>1, <1>2, <3>1
  <2>4. Place(v)' = Place(v) /\ Written(v) = pos[v] + 1 /\ Written(v)' = pos[v] + 2
    BY <1>2, <2>1 DEF Place, Written
  <2> QED  BY <1>2, <2>1, <2>3, <2>4 DEF Further
<1>7. CASE CopyDone(v)
  <2>1. /\ pc[v] = "transfer" /\ pos' = pos
        /\ disk[v] \in 1 .. Len(Remote[v])
    BY <1>7 DEF CopyDone, At, Looping
  <2>2. CASE disk[v] < Len(Remote[v])
    <3>1. pc'[v] = "open" /\ disk'[v] = disk[v] + 1
      BY <1>2, <1>7, <2>2 DEF CopyDone, NextDisk, Goto
    <3>2. Place(v)' = Place(v)
      BY <2>1, <3>1 DEF Place
    <3>3. disk[v] < disk'[v] /\ disk'[v] \in 1 .. HardDrives[v] + 1
      BY <1>1, <1>2, <2>1, <2>2, <3>1
    <3> QED  BY <1>2, <2>1, <3>2, <3>3 DEF Further
  <2>3. CASE ~ disk[v] < Len(Remote[v])
    <3>1. pc'[v] = "format" /\ disk'[v] = 1
      BY <1>2, <1>7, <2>3 DEF CopyDone, NextDisk, Goto
    <3>2. Place(v) < Place(v)'
      BY <2>1, <3>1 DEF Place
    <3> QED  BY <1>1, <1>2, <2>1, <3>1, <3>2 DEF Further
  <2> QED  BY <2>2, <2>3
<1>8. CASE MeasureDisk(v)
  <2>1. /\ pc' = pc /\ pos' = pos /\ disk'[v] = disk[v] + 1
        /\ disk[v] <= HardDrives[v]
    BY <1>2, <1>8 DEF MeasureDisk, Measure
  <2>2. Place(v)' = Place(v)
    BY <2>1 DEF Place
  <2> QED  BY <1>1, <1>2, <2>1, <2>2 DEF Further
<1>9. CASE \/ Marshal(v) \/ CreateOvf(v) \/ CreateOvfFails(v)
           \/ WriteOvf(v) \/ WriteOvfFails(v)
  <2>1. UNCHANGED <<disk, pos>>
    BY <1>9 DEF Marshal, CreateOvf, CreateOvfFails, WriteOvf, WriteOvfFails
  <2>2. <<pc[v], pc'[v]>> \in
          {<<"format", "create">>, <<"create", "write">>, <<"create", "ok">>,
           <<"write", "ok">>}
    BY <1>2, <1>9 DEF Marshal, CreateOvf, CreateOvfFails, WriteOvf, WriteOvfFails,
      At, Goto, Return
  <2>3. Place(v) < Place(v)'
    BY <2>2 DEF Place
  <2> QED  BY <2>1, <2>3, PlacedFurther
<1> QED  BY <1>3, <1>4, <1>5, <1>6, <1>7, <1>8, <1>9 DEF Work, Download, Format

LEMMA MeasureStep ==
  ASSUME TypeOK, Started, Looping, Bounded, Next
  PROVE  /\ Bounded'
         /\ \/ \E v \in Worker : Alone(v)
            \/ main = "run" /\ main' = "joined"
            \/ UNCHANGED vars
<1>1. CASE Spawn
  <2>1. PICK v \in Worker : v = spawned + 1 /\ pc[v] = "new"
    BY <1>1, HostAssumption DEF Spawn, Started, TypeOK
  <2>2. pc' = [pc EXCEPT ![v] = "info"] /\ UNCHANGED <<disk, pos>> /\ DOMAIN pc = Worker
    BY <1>1, <2>1 DEF Spawn, TypeOK
  <2>3. Place(v) < Place(v)'
    BY <2>1, <2>2 DEF Place
  <2>4. Alone(v)
    BY <2>2, <2>3 DEF Alone, Further
  <2> QED  BY <2>1, <2>2, <2>4 DEF Bounded
<1>2. CASE Join
  BY <1>2 DEF Join, Bounded
<1>3. CASE Over
  BY <1>3 DEF Over, vars, Bounded
<1>4. ASSUME NEW v \in Worker, Work(v)
      PROVE  Bounded' /\ Alone(v)
  <2>1. /\ Further(v)
        /\ disk'[v] \in 1 .. HardDrives[v] + 1 /\ pos'[v] \in 0 .. MaxSize
    BY <1>4, WorkFurther
  <2>2. \A w \in Worker \ {v} :
          pc'[w] = pc[w] /\ disk'[w] = disk[w] /\ pos'[w] = pos[w]
    BY <1>4, OthersStay
  <2>3. Bounded'
    BY <2>1, <2>2 DEF Bounded
  <2> QED  BY <2>1, <2>2, <2>3 DEF Alone
<1> QED  BY <1>1, <1>2, <1>3, <1>4 DEF Next

\* Every step takes one worker further and sets none back, and the places,
\* disks and blocks that a worker can be at are finitely many: but for the
\* join, the export cannot go on for ever (main.go:77-160).
THEOREM WorkersGetOn ==
  Spec => /\ []Bounded
          /\ [][(\E v \in Worker : Alone(v)) \/ (main = "run" /\ main' = "joined")]_vars
<1>1. Init => Bounded
  BY HostAssumption DEF Init, Bounded
<1>2. IInv /\ Bounded /\ [Next]_vars =>
        /\ Bounded'
        /\ [(\E v \in Worker : Alone(v)) \/ (main = "run" /\ main' = "joined")]_vars
  <2>1. CASE UNCHANGED vars
    BY <2>1 DEF vars, Bounded
  <2> QED  BY <2>1, MeasureStep DEF IInv
<1> QED  BY <1>1, <1>2, Invariance, PTL DEF Spec

\* As long as wg.Wait() waits, there is a worker that is still at work: a
\* return that left the counter up would leave main waiting (main.go:79-82, 161).
THEOREM WaitsForSomebody == Spec => []NeverStuck
<1>1. IInv => NeverStuck
  <2> SUFFICES ASSUME IInv, spawned = NumVMs, wg # 0
               PROVE  \E v \in Worker : pc[v] \in Working
    BY HostAssumption DEF NeverStuck, IInv, TypeOK
  <2>1. Active # {}
    BY ActiveFinite, FS_EmptySet DEF IInv, Counted
  <2> QED  BY <2>1 DEF Active
<1> QED  BY Invariance, <1>1, PTL
=============================================================================
