------------------------------ MODULE VhdxSize ------------------------------
(***************************************************************************)
(* GetVHDXVirtualSize (src/ova/vhdxVirtualSize.go): the virtual size of a  *)
(* downloaded disk, found through one of the two copies of the region      *)
(* table and the metadata region it names.  The file is data of another    *)
(* program, cut short by a broken transfer or mixed by another worker:     *)
(* nothing in it is taken to be consistent.                                *)
(*                                                                         *)
(* Offsets are unsigned words that wrap; a Seek refuses those that are     *)
(* negative as a signed word.                                              *)
(***************************************************************************)
EXTENDS Naturals, Sequences

CONSTANTS
  Word,     (* 2^64, of the file offsets                                   *)
  Half,     (* 2^32, of the lengths and of an item's offset                *)
  Value,    (* 8, the bytes of the size                                    *)
  Tables,   (* what can be found where a copy of the region table belongs  *)
  Metadata  (* what can be found where the metadata region belongs         *)

SeekLimit == Word \div 2

RegionEntry == [guid: {"metadata", "other"},
                offset: 0 .. Word - 1, length: 0 .. Half - 1]
MetaEntry   == [id: {"size", "other"},
                offset: 0 .. Half - 1, length: 0 .. Half - 1]

(***************************************************************************)
(* usable: the header can be read, and its signature and count are good.   *)
(* count is what the header says, the sequence what the file still holds.  *)
(***************************************************************************)
ASSUME ImageAssumption ==
  /\ Tables \subseteq [usable: BOOLEAN, count: Nat \ {0},
                        entries: Seq(RegionEntry)]
  /\ Metadata \subseteq [usable: BOOLEAN, count: Nat \ {0},
                          items: Seq(MetaEntry)]

ASSUME WidthAssumption ==
  /\ Word \in Nat /\ Half \in Nat \ {0} /\ Value \in Nat
  /\ Word = 2 * SeekLimit
  /\ 2 * Half <= SeekLimit

VARIABLES
  table,     (* the two copies of the region table                         *)
  metadata,  (* the table at the start of the metadata region              *)
  phase,     (* "open", "table", "entry", "region", "item", "found" or
                "error"                                                    *)
  copy,      (* which copy is looked at                                    *)
  i,         (* the entry, or the item, looked at                          *)
  region,    (* metaOffset and metaLen                                     *)
  from       (* where the size was read                                    *)

image == <<table, metadata>>
vars  == <<image, phase, copy, i, region, from>>

Copy == {1, 2}

TypeOK ==
  /\ table \in [Copy -> Tables]
  /\ metadata \in Metadata
  /\ phase \in {"open", "table", "entry", "region", "item", "found", "error"}
  /\ copy \in 1 .. 3
  /\ phase = "entry" => copy \in Copy
  /\ i \in Nat \ {0}
  /\ region \in [offset: 0 .. Word - 1, length: 0 .. Half - 1]
  /\ from \in 0 .. Word - 1

Init ==
  /\ table \in [Copy -> Tables]
  /\ metadata \in Metadata
  /\ phase = "open"
  /\ copy = 1
  /\ i = 1
  /\ region = [offset |-> 0, length |-> 0]
  /\ from = 0

Goto(to) == phase' = to /\ UNCHANGED <<image, region, from>>

Error == Goto("error") /\ UNCHANGED <<copy, i>>

-----------------------------------------------------------------------------

Signature == phase = "open" /\ Goto("table") /\ UNCHANGED <<copy, i>>

\* The file cannot be opened or does not begin with "vhdxfile".
SignatureFails == phase = "open" /\ Error

-----------------------------------------------------------------------------
(* findMetadataRegion *)

Entry == table[copy].entries[i]

\* Mutant: the entries counted from zero.
ReadTableFromZero ==
  /\ phase = "table"
  /\ copy \in Copy
  /\ table[copy].usable
  /\ i' = 0
  /\ Goto("entry")
  /\ UNCHANGED copy

ReadTable ==
  /\ phase = "table"
  /\ copy \in Copy
  /\ table[copy].usable
  /\ i' = 1
  /\ Goto("entry")
  /\ UNCHANGED copy

\* A copy that cannot be read is passed over.
SkipTable ==
  /\ phase = "table"
  /\ copy \in Copy
  /\ ~table[copy].usable
  /\ copy' = copy + 1
  /\ Goto("table")
  /\ UNCHANGED i

NoRegion == phase = "table" /\ copy \notin Copy /\ Error

There == i <= table[copy].count /\ i <= Len(table[copy].entries)

NextEntry ==
  /\ phase = "entry"
  /\ There
  /\ Entry.guid # "metadata"
  /\ i' = i + 1
  /\ Goto("entry")
  /\ UNCHANGED copy

\* Mutant: a copy whose entries end early is the last one looked at.
StopAtTruncated ==
  /\ phase = "entry"
  /\ ~There
  /\ copy' = IF i <= table[copy].count THEN 3 ELSE copy + 1
  /\ Goto("table")
  /\ UNCHANGED i

\* Mutant: an entry that cannot be read ends the search with an error.
TruncatedIsError ==
  /\ phase = "entry"
  /\ ~There
  /\ IF i <= table[copy].count
     THEN Error
     ELSE copy' = copy + 1 /\ Goto("table") /\ UNCHANGED i

\* The last entry of the header's count, or of the file, is behind.
EntriesOver ==
  /\ phase = "entry"
  /\ ~There
  /\ copy' = copy + 1
  /\ Goto("table")
  /\ UNCHANGED i

FoundRegion ==
  /\ phase = "entry"
  /\ There
  /\ Entry.guid = "metadata"
  /\ Entry.length # 0
  /\ phase' = "region"
  /\ region' = [offset |-> Entry.offset, length |-> Entry.length]
  /\ UNCHANGED <<image, copy, i, from>>

\* The other copy is not tried.
EmptyRegion ==
  /\ phase = "entry"
  /\ There
  /\ Entry.guid = "metadata"
  /\ Entry.length = 0
  /\ Error

-----------------------------------------------------------------------------
(* readVirtualDiskSizeFromMetadata *)

ReadMetadata ==
  /\ phase = "region"
  /\ region.offset < SeekLimit
  /\ metadata.usable
  /\ metadata.count <= Len(metadata.items)
  /\ i' = 1
  /\ Goto("item")
  /\ UNCHANGED copy

\* The entries are read before any of them is looked at.
ReadMetadataFails ==
  /\ phase = "region"
  /\ \/ region.offset >= SeekLimit
     \/ ~metadata.usable
     \/ metadata.count > Len(metadata.items)
  /\ Error

NextItem ==
  /\ phase = "item"
  /\ i <= metadata.count
  /\ metadata.items[i].id # "size"
  /\ i' = i + 1
  /\ Goto("item")
  /\ UNCHANGED copy

NoItem == phase = "item" /\ i > metadata.count /\ Error

Plus(a, b) == (a + b) % Word

DataStart == Plus(region.offset, metadata.items[i].offset)

\* Mutant: the bound compared with the start of the item, not its end.
StartBounded ==
  /\ metadata.items[i].length >= Value
  /\ DataStart <= Plus(region.offset, region.length)

Bounded ==
  /\ metadata.items[i].length >= Value
  /\ Plus(DataStart, metadata.items[i].length)
       <= Plus(region.offset, region.length)

FoundSize ==
  /\ phase = "item"
  /\ i <= metadata.count
  /\ metadata.items[i].id = "size"
  /\ Bounded
  /\ DataStart < SeekLimit
  /\ phase' = "found"
  /\ from' = DataStart
  /\ UNCHANGED <<image, copy, i, region>>

\* Too short, out of bounds, or behind the end of a file cut short.
SizeFails ==
  /\ phase = "item"
  /\ i <= metadata.count
  /\ metadata.items[i].id = "size"
  /\ Error

Over == phase \in {"found", "error"} /\ UNCHANGED vars

-----------------------------------------------------------------------------

FindRegion ==
  \/ ReadTable \/ SkipTable \/ NoRegion
  \/ NextEntry \/ EntriesOver \/ FoundRegion \/ EmptyRegion

FindSize ==
  \/ ReadMetadata \/ ReadMetadataFails
  \/ NextItem \/ NoItem \/ FoundSize \/ SizeFails

Step == Signature \/ SignatureFails \/ FindRegion \/ FindSize

Next == Step \/ Over

Spec == Init /\ [][Next]_vars

-----------------------------------------------------------------------------
(* Properties *)

\* The entry number n of copy c is the first one for the metadata region.
Names(c, n) ==
  /\ table[c].usable
  /\ n \in 1 .. table[c].count /\ n \in 1 .. Len(table[c].entries)
  /\ table[c].entries[n].guid = "metadata"
  /\ \A m \in 1 .. n - 1 : table[c].entries[m].guid # "metadata"

Named(c) == \E n \in 1 .. Len(table[c].entries) : Names(c, n)

(***************************************************************************)
(* The region is that of the first copy that names one: a copy that is     *)
(* unreadable, empty or cut short hides nothing that the other one has     *)
(* (vhdxVirtualSize.go:87-123).                                            *)
(***************************************************************************)
RegionOfFirstCopy ==
  /\ phase \in {"region", "item", "found"} =>
       /\ \E n \in 1 .. Len(table[copy].entries) :
            /\ Names(copy, n)
            /\ region.offset = table[copy].entries[n].offset
            /\ region.length = table[copy].entries[n].length
       /\ copy = 2 => ~Named(1)
  /\ phase = "table" /\ copy = 3 => ~Named(1) /\ ~Named(2)

(***************************************************************************)
(* A size is read from inside the metadata region, although the bounds are *)
(* compared in words that wrap: a Seek has refused every offset for which  *)
(* one could (vhdxVirtualSize.go:125-171).                                 *)
(***************************************************************************)
SizeInsideRegion ==
  phase = "found" =>
    /\ region.offset <= from
    /\ from + Value <= region.offset + region.length

(***************************************************************************)
(* The search for the region fails for two reasons only: no copy names it, *)
(* or the first copy that does names an empty one.  What is wrong with a   *)
(* copy before it names a region is no reason while the other one is left; *)
(* an empty region is, whatever the other one has                          *)
(* (vhdxVirtualSize.go:87-123).                                            *)
(***************************************************************************)
SearchGivesUp ==
  [][phase' = "error" /\ phase \in {"table", "entry"} =>
       \/ ~Named(1) /\ ~Named(2)
       \/ \E c \in Copy : \E n \in 1 .. Len(table[c].entries) :
            /\ Names(c, n)
            /\ c = 2 => ~Named(1)
            /\ table[c].entries[n].length = 0]_vars

-----------------------------------------------------------------------------
(* The inductive invariant behind the safety properties *)

\* No entry before the one looked at names the region.
Scanned(c, n) ==
  \A m \in 1 .. n - 1 :
    m \in 1 .. table[c].count /\ m \in 1 .. Len(table[c].entries) =>
      table[c].entries[m].guid # "metadata"

Passed ==
  /\ phase \in {"open", "table", "entry"} => \A c \in Copy : c < copy => ~Named(c)
  /\ phase = "entry" =>
       /\ table[copy].usable
       /\ Scanned(copy, i)

Seekable ==
  /\ phase \in {"region", "item", "found"} => copy \in Copy
  /\ phase \in {"item", "found"} => region.offset < SeekLimit
  /\ phase = "item" => metadata.count <= Len(metadata.items)

IInv == TypeOK /\ Passed /\ Seekable /\ RegionOfFirstCopy /\ SizeInsideRegion

-----------------------------------------------------------------------------
(* The measure that the scan counts down *)

\* The scan begins with the first copy, and an entry, or an item, is at most
\* one behind the last.
Bounds ==
  /\ phase = "open" => copy = 1
  /\ phase = "entry" => i <= Len(table[copy].entries) + 1
  /\ phase = "item" => i <= metadata.count + 1

\* The steps that the copies from c on can take, and those through the items.
Scan(c)  == Len(table[c].entries) + 3
Scans(c) == CASE c = 1 -> Scan(1) + Scan(2) [] c = 2 -> Scan(2) [] OTHER -> 0
Items    == metadata.count + 2

\* The steps that are left, at most.
Left ==
  CASE phase = "open"   -> Items + Scans(1) + 2
    [] phase = "table"  -> Items + Scans(copy) + 1
    [] phase = "entry"  -> Items + Scans(copy) - i
    [] phase = "region" -> Items
    [] phase = "item"   -> Items - i
    [] OTHER            -> 0
=============================================================================
