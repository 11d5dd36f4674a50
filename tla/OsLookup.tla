------------------------------ MODULE OsLookup ------------------------------
(***************************************************************************)
(* The two lookups that give an OVF its operating system: from the caption *)
(* the guest reports to an osType (src/os), and from there to the number   *)
(* of the OVF standard (src/ova).  Captions and osTypes are in lower case, *)
(* as the code makes both before it looks at them.                         *)
(***************************************************************************)
EXTENDS Naturals, Sequences

\* strings.Contains
Contains(s, t) ==
  \E i \in 0 .. Len(s) - Len(t) : SubSeq(s, i + 1, i + Len(t)) = t

\* The cases of MapCaptionToOsType, in its order: what the caption contains,
\* and the osType for a 64-bit guest and for any other.
Cases == <<
  <<"windows server 2022",      "windows2022srv_64guest", "windows2022srv_guest">>,
  <<"windows server 2019",      "windows2019srv_64guest", "windows2019srv_guest">>,
  <<"windows server 2016",      "windows2016srv_64guest", "windows2016srv_guest">>,
  <<"windows server 2012 r2",   "windows8srv_64guest",    "windows8srv_guest">>,
  <<"windows server 2012",      "windows8srv_64guest",    "windows8srv_guest">>,
  <<"windows server 2008 r2",   "windows7srv_64guest",    "windows7srv_guest">>,
  <<"windows 11",               "windows11_64guest",      "windows11guest">>,
  <<"windows 10",               "windows10_64guest",      "windows10guest">>,
  <<"windows 8.1",              "windows8_64guest",       "windows8guest">>,
  <<"windows 8",                "windows8_64guest",       "windows8guest">>,
  <<"windows 7",                "windows7_64guest",       "windows7guest">>,
  <<"windows vista",            "vista_64guest",          "vistaguest">>,
  <<"ubuntu",                   "ubuntu64guest",          "ubuntuguest">>,
  <<"debian",                   "debian10_64guest",       "debian10guest">>,
  <<"centos",                   "centos64guest",          "centosguest">>,
  <<"red hat enterprise linux", "rhel8_64guest",          "rhel7guest">>,
  <<"rhel",                     "rhel8_64guest",          "rhel7guest">>,
  <<"suse",                     "sles_64guest",           "slesguest">>,
  <<"fedora",                   "fedora64guest",          "fedoraguest">>,
  <<"oracle linux",             "oraclelinux64guest",     "oraclelinuxguest">>,
  <<"linux",                    "otherlinux64guest",      "otherlinuxguest">> >>

Matching(caption) == {i \in DOMAIN Cases : Contains(caption, Cases[i][1])}

OsTypeOf(i, arch) == IF arch = "64-bit" THEN Cases[i][2] ELSE Cases[i][3]

\* Mutant: the last case that applies decides.
LastOsType(caption, arch) ==
  IF Matching(caption) = {} THEN "otherguest"
  ELSE OsTypeOf(CHOOSE i \in Matching(caption) : \A j \in Matching(caption) : j <= i, arch)

MapCaptionToOsType(caption, arch) ==
  IF Matching(caption) = {} THEN "otherguest"
  ELSE OsTypeOf(CHOOSE i \in Matching(caption) : \A j \in Matching(caption) : i <= j, arch)

OsNameToID == [
  otherguest |-> 1,             macosguest |-> 2,
  attunixguest |-> 3,           dguxguest |-> 4,
  windowsxpguest |-> 5,         windows2000guest |-> 6,
  windows2003guest |-> 7,       vistaguest |-> 8,
  windows7guest |-> 9,          windows8guest |-> 10,
  windows81guest |-> 11,
  windows10guest |-> 103,       windows10_64guest |-> 103,
  windows11guest |-> 103,       windows11_64guest |-> 103,
  windows7srv_guest |-> 13,     windows7srv_64guest |-> 13,
  windows8srv_guest |-> 112,    windows8srv_64guest |-> 112,
  windows2016srv_guest |-> 15,  windows2016srv_64guest |-> 15,
  windows2019srv_guest |-> 94,  windows2019srv_64guest |-> 94,
  windows2022srv_guest |-> 17,  windows2022srv_64guest |-> 17,
  rhel7guest |-> 20,            rhel8_64guest |-> 21,
  ubuntuguest |-> 22,           ubuntu64guest |-> 22,
  centosguest |-> 24,           centos64guest |-> 24,
  debian10guest |-> 26,         debian10_64guest |-> 26,
  fedoraguest |-> 27,           fedora64guest |-> 27,
  slesguest |-> 29,             sles_64guest |-> 30,
  solaris10guest |-> 31,        solaris11guest |-> 32,
  freebsd11guest |-> 33,        freebsd12guest |-> 34,
  oraclelinuxguest |-> 35,      oraclelinux64guest |-> 36,
  otherlinuxguest |-> 101,      otherlinux64guest |-> 101]

\* The only keys the source writes without a capital: no other one is ever
\* found by the exact match.
Uncapitalised == {
  "windows7srv_guest", "windows8srv_guest", "windows2016srv_guest",
  "windows2019srv_guest", "windows2022srv_guest"}

\* The numbers GetOVFOperatingSystemID may return: that of the exact key, else
\* of a key within osName, whichever the order of the map brings up, else Other.
GetOVFOperatingSystemID(osName) ==
  LET partial == {k \in DOMAIN OsNameToID : Contains(osName, k)}
  IN  CASE osName \in Uncapitalised -> {OsNameToID[osName]}
        [] osName \notin Uncapitalised /\ partial # {} -> {OsNameToID[k] : k \in partial}
        [] OTHER -> {1}

-----------------------------------------------------------------------------
(* What the two tables are *)

\* No other pattern in the caption says more than the one of case i.
MostSpecific(i, caption) ==
  \A j \in Matching(caption) :
    Contains(Cases[j][1], Cases[i][1]) => Cases[j] = Cases[i]

\* The number of its own entry, or Other.
OwnID(osType) == IF osType \in DOMAIN OsNameToID THEN OsNameToID[osType] ELSE 1

OsTypes == {"otherguest"} \cup {Cases[i][k] : i \in DOMAIN Cases, k \in {2, 3}}

(* A fact of the two tables, and of nothing else: no pattern comes before a *)
(* longer one that has it within, and an osType finds its own number.       *)
ASSUME TableAssumption ==
  /\ \A i, j \in DOMAIN Cases : i < j => ~ Contains(Cases[j][1], Cases[i][1])
  /\ \A t \in OsTypes : GetOVFOperatingSystemID(t) = {OwnID(t)}
=============================================================================
