------------------------- MODULE OvfGenerator_proofs -------------------------
(***************************************************************************)
(* Proofs about OvfGenerator, for any VMs, any guests and any answers of   *)
(* PowerShell, and about what MigrationMaps makes of its OVFs.             *)
(***************************************************************************)
EXTENDS MigrationMaps, Subsequence_proofs

(* What may stand as the guest in the OVF of a name. *)
GuestsOf(n) == {Unknown} \cup Reported[n]

(* The OVF p, with the envelope e, is that of a name. *)
OvfOfName(n, p, e) ==
  /\ DiskPaths(n) # <<>> /\ OvfOf(n) = p /\ Selected(n) /\ ~ Mismatch(n)
  /\ \E g \in GuestsOf(n) : e \in Envelopes(n, g)

(* An OVF that was written whole is that of a name behind which the loop is. *)
Provenance ==
  \A p \in Ovfs : Whole(p) =>
    \E v \in VM : v < vm /\ OvfOfName(Names[v], p, ovf[p])

(* What the skips and FormatFromHyperV have let through. *)
Turn ==
  /\ at \in {"guest", "format", "write"} => Selected(Names[vm])
  /\ at \in {"format", "write"} => guest \in GuestsOf(Names[vm])
  /\ at = "write" => ~ Mismatch(Names[vm])
  /\ generated < vm

IInv == TypeOK /\ Provenance /\ Turn

-----------------------------------------------------------------------------
(* The operators *)

LEMMA ListLength == N \in Nat
BY GeneratorAssumption DEF N

LEMMA NameOfVM ==
  ASSUME NEW v \in VM
  PROVE  Names[v] \in DOMAIN Drives
BY GeneratorAssumption DEF VM, N

LEMMA PathsOfDrives ==
  ASSUME NEW n \in DOMAIN Drives
  PROVE  /\ Drives[n] \in Seq(Paths \cup {None})
         /\ WithPath(n) \in SUBSET DOMAIN Drives[n]
BY GeneratorAssumption DEF WithPath

(* Where the drives and the paths are as many, they are the same. *)
LEMMA NoMismatch ==
  ASSUME NEW n \in DOMAIN Drives, ~ Mismatch(n)
  PROVE  /\ DiskPaths(n) = Drives[n]
         /\ \A i \in DOMAIN Drives[n] : Drives[n][i] # None
<1>1. ~ Len(Drives[n]) > Len(Select(Drives[n], WithPath(n)))
  BY DEF Mismatch, DiskPaths
<1>2. /\ WithPath(n) = DOMAIN Drives[n]
      /\ Select(Drives[n], WithPath(n)) = Drives[n]
  BY <1>1, PathsOfDrives, AllCollected
<1> QED  BY <1>2 DEF DiskPaths, WithPath

LEMMA EnvelopeOf ==
  ASSUME NEW n, NEW g, NEW e \in Envelopes(n, g)
  PROVE  /\ e.files = Files(n) /\ e.networks = Networks(n)
         /\ e.osType = OsType[g] /\ e.osId \in OsIDs[g] /\ e.description = g
BY DEF Envelopes

-----------------------------------------------------------------------------
(* The invariant *)

LEMMA Initially == Init => IInv
<1> SUFFICES ASSUME Init
             PROVE  IInv
  OBVIOUS
<1> USE DEF Init
<1>1. TypeOK
  BY GeneratorAssumption, ListLength DEF TypeOK
<1>2. \A p \in Ovfs : ~ Whole(p)
  BY DEF Whole
<1>3. Provenance /\ Turn
  BY <1>2 DEF Provenance, Turn
<1> QED  BY <1>1, <1>3 DEF IInv

LEMMA TypeStep == IInv /\ [Next]_vars => TypeOK'
<1> SUFFICES ASSUME IInv, [Next]_vars
             PROVE  TypeOK'
  OBVIOUS
<1> USE GeneratorAssumption, ListLength DEF IInv, TypeOK, Turn
<1>1. CASE List \/ ListFails \/ Finish
  BY <1>1 DEF List, ListFails, Finish
<1>2. CASE InfoFails \/ NoDisks \/ NotSelected
  BY <1>2 DEF InfoFails, NoDisks, NotSelected, Skip, VM
<1>3. CASE GetInfo
  BY <1>3 DEF GetInfo, VM
<1>4. CASE GetGuestOSInfo
  <2>1. Reported[Names[vm]] \subseteq Guests
    BY <1>4, NameOfVM DEF GetGuestOSInfo
  <2>2. guest' \in Guests
    BY <1>4, <2>1 DEF GetGuestOSInfo
  <2> QED  BY <1>4, <2>2 DEF GetGuestOSInfo
<1>5. CASE FormatFails
  BY <1>5 DEF FormatFails, Skip, VM
<1>6. CASE OpenOvf
  BY <1>6 DEF OpenOvf
<1>7. CASE OpenOvfFails \/ WriteOvf \/ WriteOvfFails
  BY <1>7 DEF OpenOvfFails, WriteOvf, WriteOvfFails, Count, VM
<1>8. CASE Over \/ UNCHANGED vars
  BY <1>8 DEF Over, vars
<1> QED  BY <1>1, <1>2, <1>3, <1>4, <1>5, <1>6, <1>7, <1>8 DEF Next

LEMMA TurnStep == IInv /\ [Next]_vars => Turn'
<1> SUFFICES ASSUME IInv, [Next]_vars
             PROVE  Turn'
  OBVIOUS
<1> USE GeneratorAssumption, ListLength DEF IInv, TypeOK, Turn
<1>1. CASE List \/ ListFails \/ Finish
  BY <1>1 DEF List, ListFails, Finish
<1>2. CASE InfoFails \/ NoDisks \/ NotSelected \/ FormatFails
  BY <1>2 DEF InfoFails, NoDisks, NotSelected, FormatFails, Skip
<1>3. CASE GetInfo
  BY <1>3 DEF GetInfo
<1>4. CASE GetGuestOSInfo
  BY <1>4 DEF GetGuestOSInfo, GuestsOf
<1>5. CASE OpenOvf
  BY <1>5 DEF OpenOvf
<1>6. CASE OpenOvfFails \/ WriteOvf \/ WriteOvfFails
  BY <1>6 DEF OpenOvfFails, WriteOvf, WriteOvfFails, Count
<1>7. CASE Over \/ UNCHANGED vars
  BY <1>7 DEF Over, vars
<1> QED  BY <1>1, <1>2, <1>3, <1>4, <1>5, <1>6, <1>7 DEF Next

(* What a step does to the OVFs: it leaves them alone, or it cuts one, or   *)
(* the VM whose turn it is gets one.                                       *)
LEMMA OvfStep ==
  ASSUME IInv, [Next]_vars
  PROVE  /\ vm' \in Nat /\ vm' >= vm
         /\ generated' \in Nat /\ generated' >= generated
         /\ \/ ovf' = ovf
            \/ ovf' = [ovf EXCEPT ![OvfOf(Names[vm])] = Cut]
            \/ WriteOvf
<1> USE GeneratorAssumption, ListLength DEF IInv, TypeOK
<1>1. CASE List \/ ListFails \/ Finish \/ GetInfo \/ GetGuestOSInfo
  BY <1>1 DEF List, ListFails, Finish, GetInfo, GetGuestOSInfo
<1>2. CASE InfoFails \/ NoDisks \/ NotSelected \/ FormatFails
  BY <1>2 DEF InfoFails, NoDisks, NotSelected, FormatFails, Skip
<1>3. CASE OpenOvf
  BY <1>3 DEF OpenOvf
<1>4. CASE OpenOvfFails \/ WriteOvf \/ WriteOvfFails
  BY <1>4 DEF OpenOvfFails, WriteOvf, WriteOvfFails, Count
<1>5. CASE Over \/ UNCHANGED vars
  BY <1>5 DEF Over, vars
<1> QED  BY <1>1, <1>2, <1>3, <1>4, <1>5 DEF Next

LEMMA ProvenanceStep == IInv /\ [Next]_vars => Provenance'
<1> SUFFICES ASSUME IInv, [Next]_vars, NEW p \in Ovfs, Whole(p)'
             PROVE  \E v \in VM : v < vm' /\ OvfOfName(Names[v], p, ovf'[p])
  BY DEF Provenance
<1>1. vm \in Nat /\ vm' \in Nat /\ vm <= vm' /\ DOMAIN ovf = Ovfs
  BY OvfStep, ListLength DEF IInv, TypeOK
<1>2. CASE ovf'[p] = ovf[p]
  <2>1. Whole(p)
    BY <1>2 DEF Whole
  <2>2. PICK v \in VM : v < vm /\ OvfOfName(Names[v], p, ovf[p])
    BY <2>1 DEF IInv, Provenance
  <2>3. v < vm'
    BY <1>1, <2>2 DEF VM
  <2> QED  BY <1>2, <2>2, <2>3
<1>3. CASE ovf'[p] # ovf[p] /\ WriteOvf
  <2>1. PICK e \in Envelopes(Names[vm], guest) :
               ovf' = [ovf EXCEPT ![OvfOf(Names[vm])] = e]
    BY <1>3 DEF WriteOvf
  <2>2. p = OvfOf(Names[vm]) /\ ovf'[p] = e
    BY <1>1, <1>3, <2>1
  <2>3. /\ vm \in VM /\ guest \in GuestsOf(Names[vm]) /\ DiskPaths(Names[vm]) # <<>>
        /\ Selected(Names[vm]) /\ ~ Mismatch(Names[vm])
    BY <1>3 DEF IInv, TypeOK, Turn, WriteOvf
  <2>4. vm < vm'
    BY <1>1, <1>3 DEF WriteOvf, Count
  <2> QED  BY <2>1, <2>2, <2>3, <2>4 DEF OvfOfName
<1>4. CASE ovf'[p] # ovf[p] /\ ovf' = [ovf EXCEPT ![OvfOf(Names[vm])] = Cut]
  <2>1. ovf'[p] = Cut
    BY <1>1, <1>4
  <2> QED  BY <2>1 DEF Whole
<1> QED  BY <1>2, <1>3, <1>4, OvfStep

THEOREM Invariance == Spec => []IInv
<1>1. IInv /\ [Next]_vars => IInv'
  BY TypeStep, TurnStep, ProvenanceStep DEF IInv
<1> QED  BY Initially, <1>1, PTL DEF Spec

\* Every variable has its type, and a VM has a path as soon as it has passed
\* the first checks (main.go:37-94).
THEOREM TypeCorrect == Spec => []TypeOK
<1>1. IInv => TypeOK
  BY DEF IInv
<1> QED  BY Invariance, <1>1, PTL

\* An OVF written in this run has all the drives, the networks and a guest of
\* one name of the list, which was selected and has its first disk there
\* (main.go:43-89, ovfFormater.go:92-205).
THEOREM DescribesVM == Spec => []OvfDescribesVM
<1>1. IInv => OvfDescribesVM
  <2> SUFFICES ASSUME IInv, NEW p \in Ovfs, Whole(p)
               PROVE  \E v \in 1 .. vm \cap VM :
                        LET n == Names[v] IN
                        /\ DiskPaths(n) # <<>> /\ OvfOf(n) = p /\ Selected(n)
                        /\ DOMAIN ovf[p].files = DOMAIN Drives[n]
                        /\ \A i \in DOMAIN Drives[n] :
                             /\ Drives[n][i] # None
                             /\ ovf[p].files[i] = Base[Drives[n][i]]
                        /\ ovf[p].networks = Networks(n)
                        /\ ovf[p].description \in {Unknown} \cup Reported[n]
    BY DEF OvfDescribesVM
  <2>1. PICK v \in VM : v < vm /\ OvfOfName(Names[v], p, ovf[p])
    BY DEF IInv, Provenance
  <2>2. PICK g \in GuestsOf(Names[v]) : ovf[p] \in Envelopes(Names[v], g)
    BY <2>1 DEF OvfOfName
  <2> USE DEF OvfOfName
  <2>3. ovf[p].files = [i \in DOMAIN Drives[Names[v]] |-> Base[Drives[Names[v]][i]]]
    BY <2>1, <2>2, NameOfVM, NoMismatch, EnvelopeOf DEF Files
  <2>4. /\ ovf[p].networks = Networks(Names[v])
        /\ ovf[p].description \in {Unknown} \cup Reported[Names[v]]
    BY <2>2, EnvelopeOf DEF GuestsOf
  <2>5. v \in 1 .. vm \cap VM
    BY <2>1, ListLength DEF IInv, TypeOK, VM
  <2> QED  BY <2>1, <2>3, <2>4, <2>5, NameOfVM, NoMismatch
<1> QED  BY Invariance, <1>1, PTL

-----------------------------------------------------------------------------
(* The tables of operating systems *)

LEMMA CasesNumbered == DOMAIN Cases \in SUBSET Nat
BY DEF Cases

(* The first case that applies decides, and none that applies says more.   *)
LEMMA FirstCase ==
  ASSUME NEW caption, NEW arch, Matching(caption) # {}
  PROVE  \E i \in Matching(caption) :
           /\ MostSpecific(i, caption)
           /\ MapCaptionToOsType(caption, arch) = OsTypeOf(i, arch)
<1> DEFINE first == CHOOSE i \in Matching(caption) :
                      \A j \in Matching(caption) : i <= j
<1>1. Matching(caption) \in SUBSET Nat
  BY CasesNumbered DEF Matching
<1>2. \E i \in Matching(caption) : \A j \in Matching(caption) : i <= j
  BY <1>1, LeastNumber
<1>3. first \in Matching(caption) /\ \A j \in Matching(caption) : first <= j
  BY <1>2
<1>4. MapCaptionToOsType(caption, arch) = OsTypeOf(first, arch)
  BY DEF MapCaptionToOsType
<1> HIDE DEF first
<1>5. ASSUME NEW j \in Matching(caption), Contains(Cases[j][1], Cases[first][1])
      PROVE  j = first
  <2>1. j \in DOMAIN Cases /\ first \in DOMAIN Cases /\ first <= j
    BY <1>3 DEF Matching
  <2>2. ~ first < j
    BY <1>5, <2>1, TableAssumption
  <2>3. j \in Nat /\ first \in Nat
    BY <1>1, <1>3
  <2> QED  BY <2>1, <2>2, <2>3
<1>6. MostSpecific(first, caption)
  BY <1>5 DEF MostSpecific
<1> QED  BY <1>3, <1>4, <1>6

LEMMA TypeFromTable ==
  ASSUME NEW caption, NEW arch
  PROVE  MapCaptionToOsType(caption, arch) \in OsTypes
<1>1. CASE Matching(caption) = {}
  BY <1>1 DEF MapCaptionToOsType, OsTypes
<1>2. CASE Matching(caption) # {}
  <2>1. PICK i \in Matching(caption) :
               MapCaptionToOsType(caption, arch) = OsTypeOf(i, arch)
    BY <1>2, FirstCase
  <2>2. i \in DOMAIN Cases
    BY DEF Matching
  <2> QED  BY <2>1, <2>2 DEF OsTypes, OsTypeOf
<1> QED  BY <1>1, <1>2

\* Whatever the guest reports: its osType is that of the most specific pattern
\* in the caption, and has one number only, its own, in whichever order the
\* map is walked (osUtils.go:80-194, ovfFormater.go:15-33).
THEOREM EveryGuestAgrees == LookupsAgree
<1> SUFFICES ASSUME NEW g \in Guests
             PROVE  /\ OsIDs[g] = {OwnID(OsType[g])}
                    /\ OsType[g] \in ProperOsTypes[g]
  BY DEF LookupsAgree
<1>1. OsType[g] = MapCaptionToOsType(g.caption, g.arch)
  BY DEF OsType
<1>2. OsIDs[g] = {OwnID(OsType[g])}
  <2>1. OsType[g] \in OsTypes
    BY <1>1, TypeFromTable
  <2>2. OsIDs[g] = GetOVFOperatingSystemID(OsType[g])
    BY DEF OsIDs
  <2> QED  BY <2>1, <2>2, TableAssumption
<1>3. OsType[g] \in ProperOsTypes[g]
  <2>1. CASE Matching(g.caption) = {}
    BY <1>1, <2>1 DEF ProperOsTypes, MapCaptionToOsType
  <2>2. CASE Matching(g.caption) # {}
    <3>1. PICK i \in Matching(g.caption) :
                 /\ MostSpecific(i, g.caption)
                 /\ MapCaptionToOsType(g.caption, g.arch) = OsTypeOf(i, g.arch)
      BY <2>2, FirstCase
    <3>2. ProperOsTypes[g] =
            {OsTypeOf(c, g.arch) :
               c \in {d \in Matching(g.caption) : MostSpecific(d, g.caption)}}
      BY <2>2 DEF ProperOsTypes
    <3> QED  BY <1>1, <3>1, <3>2
  <2> QED  BY <2>1, <2>2
<1> QED  BY <1>2, <1>3

\* So every OVF names the operating system of its guest.
THEOREM OwnOsId == Spec => []OsIdIsOwn
<1>1. IInv => OsIdIsOwn
  <2> SUFFICES ASSUME IInv, NEW p \in Ovfs, Whole(p)
               PROVE  /\ ovf[p].osId = OwnID(ovf[p].osType)
                      /\ ovf[p].osType \in ProperOsTypes[ovf[p].description]
    BY EveryGuestAgrees DEF OsIdIsOwn
  <2>1. PICK v \in VM, g \in Guests : ovf[p] \in Envelopes(Names[v], g)
    BY GeneratorAssumption, NameOfVM DEF IInv, Provenance, OvfOfName, GuestsOf
  <2>2. /\ ovf[p].osType = OsType[g] /\ ovf[p].osId \in OsIDs[g]
        /\ ovf[p].description = g
    BY <2>1, EnvelopeOf
  <2>3. OsIDs[g] = {OwnID(OsType[g])} /\ OsType[g] \in ProperOsTypes[g]
    BY EveryGuestAgrees DEF LookupsAgree
  <2> QED  BY <2>2, <2>3
<1> QED  BY Invariance, <1>1, PTL

-----------------------------------------------------------------------------
(* What the migration makes of an OVF *)

LEMMA NetworksApart ==
  ASSUME NEW envelope,
         NEW i \in DOMAIN discoverNetworkMappings(envelope),
         NEW j \in DOMAIN discoverNetworkMappings(envelope),
         discoverNetworkMappings(envelope)[i].name #
         discoverNetworkMappings(envelope)[j].name
  PROVE  discoverNetworkMappings(envelope)[i].id #
         discoverNetworkMappings(envelope)[j].id
<1> DEFINE map == discoverNetworkMappings(envelope)
<1>1. CASE envelope.networks = <<>>
  <2> DEFINE default == [id |-> <<"known network", 1>>, name |-> "Network Adapter"]
  <2>1. map = <<default>>
    BY <1>1 DEF discoverNetworkMappings
  <2> HIDE DEF map, default
  <2>2. DOMAIN map = {1}
    BY <2>1
  <2>3. i = j
    BY <2>2 DEF map
  <2> QED  BY <2>3
<1>2. CASE envelope.networks # <<>>
  <2> DEFINE name(k) == Escaped(envelope.networks[k])
  <2>1. \A k \in DOMAIN map :
          map[k] = [id |-> generateNetworkID(name(k), k), name |-> name(k)]
    BY <1>2 DEF discoverNetworkMappings
  <2>2. /\ map[i].id = generateNetworkID(name(i), i) /\ map[i].name = name(i)
        /\ map[j].id = generateNetworkID(name(j), j) /\ map[j].name = name(j)
    BY <2>1
  <2>3. name(i) # name(j) /\ i # j
    BY <2>2
  <2> HIDE DEF map, name
  <2>4. generateNetworkID(name(i), i) # generateNetworkID(name(j), j)
    BY <2>3 DEF generateNetworkID
  <2> QED  BY <2>2, <2>4 DEF map
<1> QED  BY <1>1, <1>2

LEMMA DisksApart ==
  ASSUME NEW files, NEW other, NEW i, NEW j, i # j
  PROVE  generateStorageID(files, i) # generateStorageID(other, j)
BY DEF generateStorageID

\* The maps made of any OVF keep its networks and its disks apart, at every
\* state of the generator (ocpUtils.go:517-550, 675-726).
THEOREM MapsApart == Spec => []IdsApart
<1>1. IInv => IdsApart
  <2> SUFFICES ASSUME NEW p \in Ovfs
               PROVE  LET networks == discoverNetworkMappings(ovf[p])
                          disks    == discoverStorageMappings(ovf[p], Downloads)
                      IN  /\ \A i, j \in DOMAIN networks :
                               networks[i].name # networks[j].name =>
                                 networks[i].id # networks[j].id
                          /\ \A i, j \in DOMAIN disks :
                               i # j => disks[i] # disks[j]
    BY DEF IdsApart
  <2>1. ASSUME NEW i \in DOMAIN discoverStorageMappings(ovf[p], Downloads),
               NEW j \in DOMAIN discoverStorageMappings(ovf[p], Downloads),
               i # j
        PROVE  discoverStorageMappings(ovf[p], Downloads)[i] #
               discoverStorageMappings(ovf[p], Downloads)[j]
    BY <2>1, DisksApart DEF discoverStorageMappings
  <2> QED  BY <2>1, NetworksApart
<1> QED  BY Invariance, <1>1, PTL
=============================================================================
