--------------------------- MODULE VhdxSize_proofs ---------------------------
(* Proofs about VhdxSize, for words of any width and any file. *)
EXTENDS VhdxSize, TLAPS

LEMMA Widths ==
  /\ Word \in Nat /\ Half \in Nat \ {0} /\ Value \in Nat /\ SeekLimit \in Nat
  /\ Word = 2 * SeekLimit
  /\ 2 * Half <= SeekLimit
BY WidthAssumption DEF SeekLimit

(* A sum that fits into a word does not wrap. *)
LEMMA SumFits ==
  ASSUME NEW x \in Nat, NEW y \in Nat, x + y < Word
  PROVE  Plus(x, y) = x + y
BY WidthAssumption DEF Plus

(* A sum is a word, wrapped or not. *)
LEMMA SumIsWord ==
  ASSUME NEW x \in Nat, NEW y \in Nat
  PROVE  Plus(x, y) \in 0 .. Word - 1
BY WidthAssumption DEF Plus, SeekLimit

LEMMA CopyType ==
  ASSUME IInv, NEW c \in Copy
  PROVE  /\ table[c].usable \in BOOLEAN
         /\ table[c].count \in Nat \ {0}
         /\ table[c].entries \in Seq(RegionEntry)
         /\ Len(table[c].entries) \in Nat
<1>1. table[c] \in Tables
  BY DEF IInv, TypeOK
<1>2. table[c] \in [usable: BOOLEAN, count: Nat \ {0},
                   entries: Seq(RegionEntry)]
  BY <1>1, ImageAssumption
<1>3. table[c].entries \in Seq(RegionEntry)
  BY <1>2
<1> QED  BY <1>2, <1>3

(* What a copy of the region table says is in range. *)
LEMMA EntryInRange ==
  ASSUME IInv, phase = "entry", There
  PROVE  /\ i \in 1 .. table[copy].count
         /\ i \in 1 .. Len(table[copy].entries)
         /\ Entry.offset \in 0 .. Word - 1
         /\ Entry.length \in 0 .. Half - 1
<1>1. copy \in Copy /\ i \in Nat \ {0}
  BY DEF IInv, TypeOK
<1>2. i \in 1 .. table[copy].count /\ i \in 1 .. Len(table[copy].entries)
  BY <1>1, CopyType DEF There
<1>3. Entry \in RegionEntry
  BY <1>1, <1>2, CopyType DEF Entry
<1> QED  BY <1>2, <1>3 DEF RegionEntry

LEMMA ScannedIsFirst ==
  ASSUME IInv, NEW c \in Copy,
         NEW n \in 1 .. table[c].count, n \in 1 .. Len(table[c].entries),
         table[c].usable, Scanned(c, n), table[c].entries[n].guid = "metadata"
  PROVE  Names(c, n)
<1>1. ASSUME NEW m \in 1 .. n - 1
      PROVE  m \in 1 .. table[c].count /\ m \in 1 .. Len(table[c].entries)
  BY CopyType
<1> QED  BY <1>1 DEF Scanned, Names

LEMMA ItemInRange ==
  ASSUME IInv, phase = "item", i <= metadata.count
  PROVE  /\ metadata.items[i].offset \in 0 .. Half - 1
         /\ metadata.items[i].length \in 0 .. Half - 1
<1>1. metadata \in [usable: BOOLEAN, count: Nat \ {0}, items: Seq(MetaEntry)]
  BY ImageAssumption DEF IInv, TypeOK
<1>2. metadata.items \in Seq(MetaEntry) /\ metadata.count \in Nat
  BY <1>1
<1>3. i \in 1 .. Len(metadata.items)
  BY <1>2 DEF IInv, TypeOK, Seekable
<1>4. metadata.items[i] \in MetaEntry
  BY <1>2, <1>3
<1> QED  BY <1>4 DEF MetaEntry

(***************************************************************************)
(* What makes the comparison in words sound: a region that a Seek accepts  *)
(* is so far from the end of the words that neither side of it can wrap.   *)
(***************************************************************************)
LEMMA BoundedIsInside ==
  ASSUME IInv, phase = "item", i <= metadata.count, Bounded
  PROVE  /\ DataStart = region.offset + metadata.items[i].offset
         /\ region.offset <= DataStart
         /\ DataStart + Value <= region.offset + region.length
<1> DEFINE o == region.offset
           l == region.length
           p == metadata.items[i].offset
           n == metadata.items[i].length
<1>1. o \in Nat /\ o < SeekLimit /\ l \in 0 .. Half - 1
  BY WidthAssumption DEF IInv, TypeOK, Seekable
<1>2. p \in 0 .. Half - 1 /\ n \in 0 .. Half - 1
  BY ItemInRange
<1>3. SeekLimit \in Nat
  BY WidthAssumption DEF SeekLimit
<1> HIDE DEF o, l, p, n
<1>4. o + p < Word /\ (o + p) + n < Word /\ o + l < Word
  BY <1>1, <1>2, <1>3, WidthAssumption
<1>5. p \in Nat /\ n \in Nat /\ l \in Nat /\ o + p \in Nat
  BY <1>1, <1>2, WidthAssumption
<1>6. Plus(o, p) = o + p /\ Plus(o, l) = o + l
  BY <1>1, <1>4, <1>5, SumFits
<1>7. Plus(o + p, n) = (o + p) + n
  BY <1>4, <1>5, SumFits
<1>8. DataStart = o + p
  BY <1>6 DEF DataStart, o, p
<1>9. n >= Value /\ (o + p) + n <= o + l
  BY <1>6, <1>7, <1>8 DEF Bounded, o, l, p, n
<1> QED  BY <1>5, <1>8, <1>9, <1>1, WidthAssumption DEF o, l, p

LEMMA FindRegionStep == IInv /\ FindRegion => IInv'
<1> SUFFICES ASSUME IInv, FindRegion PROVE IInv'
  OBVIOUS
<1> USE DEF IInv, TypeOK, Passed, Seekable, RegionOfFirstCopy, SizeInsideRegion,
      Goto, Error, image, Copy
<1>1. CASE ReadTable
  BY <1>1 DEF ReadTable, Scanned, Named, Names
<1>2. CASE SkipTable
  BY <1>2 DEF SkipTable, Named, Names
<1>3. CASE NoRegion
  BY <1>3 DEF NoRegion
<1>4. CASE NextEntry
  <2>1. Scanned(copy, i + 1)
    BY <1>4, SMTT(30) DEF NextEntry, There, Entry, Scanned
  <2>2. Scanned(copy, i)'
    BY <1>4, <2>1 DEF NextEntry, Scanned
  <2> QED  BY <1>4, <2>2 DEF NextEntry, Named, Names
<1>5. CASE EntriesOver
  <2> USE <1>5 DEF EntriesOver
  <2>0. copy \in Copy /\ i \in Nat \ {0} /\ Scanned(copy, i) /\ ~There
    OBVIOUS
  <2>1. ~Named(copy)
    BY <2>0, CopyType, SMTT(30) DEF There, Scanned, Named, Names
  <2>2. \A c \in 1 .. 2 : c < copy + 1 => ~Named(c)
    BY <1>5, <2>1 DEF EntriesOver
  <2>3. \A c \in 1 .. 2 : Named(c)' <=> Named(c)
    BY <1>5 DEF EntriesOver, Named, Names
  <2> QED  BY <1>5, <2>2, <2>3 DEF EntriesOver
<1>6. CASE FoundRegion
  <2>1. i \in 1 .. table[copy].count /\ i \in 1 .. Len(table[copy].entries)
    BY <1>6, EntryInRange DEF FoundRegion
  <2>2. Names(copy, i)
    <3>1. Scanned(copy, i) /\ table[copy].usable /\ Entry.guid = "metadata"
      BY <1>6 DEF FoundRegion
    <3>2. copy \in Copy
      BY <1>6 DEF FoundRegion
    <3> QED  BY <2>1, <3>1, <3>2, ScannedIsFirst DEF Entry
  <2>3. copy = 2 => ~Named(1)
    BY <1>6 DEF FoundRegion
  <2>4. /\ Names(copy, i)' <=> Names(copy, i)
        /\ Named(1)' <=> Named(1)
    BY <1>6 DEF FoundRegion, Named, Names
  <2>5. TypeOK'
    BY <1>6, EntryInRange DEF FoundRegion
  <2>6. RegionOfFirstCopy'
    BY <1>6, <2>1, <2>2, <2>3, <2>4 DEF FoundRegion, Entry
  <2> QED  BY <1>6, <2>5, <2>6 DEF FoundRegion
<1>7. CASE EmptyRegion
  BY <1>7 DEF EmptyRegion
<1> QED  BY <1>1, <1>2, <1>3, <1>4, <1>5, <1>6, <1>7 DEF FindRegion

LEMMA FindSizeStep == IInv /\ FindSize => IInv'
<1> SUFFICES ASSUME IInv, FindSize PROVE IInv'
  OBVIOUS
<1> USE DEF IInv, TypeOK, Passed, Seekable, RegionOfFirstCopy, SizeInsideRegion,
      Goto, Error, image, Copy
<1>1. CASE ReadMetadata
  BY <1>1, SMTT(30) DEF ReadMetadata, Named, Names
<1>2. CASE ReadMetadataFails \/ NoItem \/ SizeFails
  BY <1>2 DEF ReadMetadataFails, NoItem, SizeFails
<1>3. CASE NextItem
  BY <1>3 DEF NextItem, Named, Names
<1>4. CASE FoundSize
  <2>1. DataStart \in 0 .. Word - 1
    <3>1. metadata.items[i].offset \in 0 .. Half - 1
      BY <1>4, ItemInRange DEF FoundSize
    <3>2. region.offset \in Nat /\ metadata.items[i].offset \in Nat
      BY <3>1, Widths
    <3> QED  BY <3>2, SumIsWord DEF DataStart
  <2>2. /\ region.offset <= DataStart
        /\ DataStart + Value <= region.offset + region.length
    BY <1>4, BoundedIsInside DEF FoundSize
  <2> QED  BY <1>4, <2>1, <2>2 DEF FoundSize, Named, Names
<1> QED  BY <1>1, <1>2, <1>3, <1>4 DEF FindSize

LEMMA Invariance == Spec => []IInv
<1>1. Init => IInv
  <2> SUFFICES ASSUME Init PROVE IInv
    OBVIOUS
  <2>1. 0 \in 0 .. Word - 1 /\ 0 \in 0 .. Half - 1
    BY Widths
  <2>2. TypeOK
    BY <2>1 DEF Init, TypeOK, Copy
  <2> QED  BY <2>2 DEF Init, IInv, Passed, Seekable, RegionOfFirstCopy,
             SizeInsideRegion, Copy
<1>2. IInv /\ [Next]_vars => IInv'
  <2> SUFFICES ASSUME IInv, [Next]_vars PROVE IInv'
    OBVIOUS
  <2>1. CASE Signature
    BY <2>1 DEF Signature, Goto, IInv, TypeOK, Passed, Seekable, RegionOfFirstCopy,
       SizeInsideRegion, image, Named, Names, Copy
  <2>2. CASE SignatureFails
    BY <2>2 DEF SignatureFails, Goto, Error, IInv, TypeOK, Passed, Seekable,
       RegionOfFirstCopy, SizeInsideRegion, image
  <2>3. CASE UNCHANGED vars
    <3> USE <2>3 DEF vars, image
    <3>1. TypeOK' /\ Seekable' /\ SizeInsideRegion'
      BY DEF IInv, TypeOK, Seekable, SizeInsideRegion
    <3>2. Passed'
      BY DEF IInv, Passed, Scanned, Named, Names
    <3>3. RegionOfFirstCopy'
      BY DEF IInv, RegionOfFirstCopy, Named, Names
    <3> QED  BY <3>1, <3>2, <3>3 DEF IInv
  <2>4. CASE Over
    BY <2>3, <2>4 DEF Over
  <2> QED  BY <2>1, <2>2, <2>3, <2>4, FindRegionStep, FindSizeStep DEF Next, Step
<1> QED  BY <1>1, <1>2, PTL DEF Spec

\* No state of the scan leaves its ranges, whatever the file holds.
THEOREM TypeCorrect == Spec => []TypeOK
<1>1. IInv => TypeOK
  BY DEF IInv
<1> QED  BY Invariance, <1>1, PTL

\* The first copy that names the region decides (vhdxVirtualSize.go:87-123).
THEOREM FirstCopyDecides == Spec => []RegionOfFirstCopy
<1>1. IInv => RegionOfFirstCopy
  BY DEF IInv
<1> QED  BY Invariance, <1>1, PTL

\* The size is read inside the region, for words of any width
\* (vhdxVirtualSize.go:125-171).
THEOREM SizeIsInside == Spec => []SizeInsideRegion
<1>1. IInv => SizeInsideRegion
  BY DEF IInv
<1> QED  BY Invariance, <1>1, PTL

\* The search fails only where no copy names a region or the first that does
\* names an empty one (vhdxVirtualSize.go:87-123).
THEOREM GivesUpForAReason == Spec => SearchGivesUp
<1> DEFINE Reason ==
      \/ ~Named(1) /\ ~Named(2)
      \/ \E c \in Copy : \E n \in 1 .. Len(table[c].entries) :
           /\ Names(c, n)
           /\ c = 2 => ~Named(1)
           /\ table[c].entries[n].length = 0
<1>1. IInv /\ [Next]_vars =>
        [phase' = "error" /\ phase \in {"table", "entry"} => Reason]_vars
  <2> SUFFICES ASSUME IInv, Next, phase \in {"table", "entry"}, phase' = "error"
               PROVE  Reason
    OBVIOUS
  <2>1. NoRegion \/ EmptyRegion
    BY DEF Next, Step, Over, Signature, SignatureFails, FindRegion, FindSize,
      ReadTable, SkipTable, NextEntry, EntriesOver, FoundRegion, ReadMetadata,
      ReadMetadataFails, NextItem, NoItem, FoundSize, SizeFails, Goto
  <2>2. CASE NoRegion
    BY <2>2 DEF NoRegion, IInv, TypeOK, Passed, Copy
  <2>3. CASE EmptyRegion
    <3>1. /\ copy \in Copy /\ table[copy].usable /\ Scanned(copy, i)
          /\ \A c \in Copy : c < copy => ~Named(c)
      BY <2>3 DEF EmptyRegion, IInv, TypeOK, Passed
    <3>2. i \in 1 .. table[copy].count /\ i \in 1 .. Len(table[copy].entries)
      BY <2>3, EntryInRange DEF EmptyRegion
    <3>3. Names(copy, i)
      BY <2>3, <3>1, <3>2, ScannedIsFirst DEF EmptyRegion, Entry
    <3>4. copy = 2 => ~Named(1)
      BY <3>1 DEF Copy
    <3> QED  BY <2>3, <3>1, <3>2, <3>3, <3>4 DEF EmptyRegion, Entry
  <2> QED  BY <2>1, <2>2, <2>3
<1> QED  BY <1>1, Invariance, PTL DEF Spec, SearchGivesUp

-----------------------------------------------------------------------------
(* The measure *)

LEMMA ImageType ==
  ASSUME IInv
  PROVE  /\ \A c \in Copy : Len(table[c].entries) \in Nat
         /\ metadata.count \in Nat \ {0}
<1>1. metadata \in [usable: BOOLEAN, count: Nat \ {0}, items: Seq(MetaEntry)]
  BY ImageAssumption DEF IInv, TypeOK
<1> QED  BY <1>1, CopyType

LEMMA MeasureType ==
  ASSUME IInv
  PROVE  /\ Scans(1) = Scan(1) + Scan(2) /\ Scans(2) = Scan(2) /\ Scans(3) = 0
         /\ Scan(1) \in Nat /\ Scan(2) \in Nat /\ Items \in Nat
         /\ \A c \in Copy : Scan(c) = Len(table[c].entries) + 3
         /\ \A c \in Copy : Scans(c) = Scan(c) + Scans(c + 1)
BY ImageType DEF Scans, Scan, Items, Copy

LEMMA MeasureNat == IInv /\ Bounds => Left \in Nat
<1> SUFFICES ASSUME IInv, Bounds PROVE Left \in Nat
  OBVIOUS
<1>1. copy \in 1 .. 3 /\ i \in Nat \ {0} /\ Items = metadata.count + 2
  BY DEF IInv, TypeOK, Items
<1>2. Scans(copy) \in Nat
  BY <1>1, MeasureType DEF Copy
<1>3. CASE phase = "entry"
  <2>1. copy \in Copy
    BY <1>3 DEF IInv, TypeOK
  <2>2. Scans(copy) = Scan(copy) + Scans(copy + 1) /\ Scans(copy + 1) \in Nat
    BY <2>1, MeasureType DEF Copy
  <2>3. i <= Scan(copy) /\ Scan(copy) \in Nat
    <3>1. Len(table[copy].entries) \in Nat
      BY <2>1, ImageType
    <3>2. Scan(copy) = Len(table[copy].entries) + 3
      BY <2>1, MeasureType
    <3>3. i <= Len(table[copy].entries) + 1
      BY <1>3 DEF Bounds
    <3> QED  BY <1>1, <3>1, <3>2, <3>3
  <2>4. Items \in Nat
    BY MeasureType
  <2>5. Left = Items + Scans(copy) - i
    BY <1>3 DEF Left
  <2>6. Items + Scans(copy) - i \in Nat
    BY <1>1, <2>2, <2>3, <2>4
  <2> QED  BY <2>5, <2>6
<1>4. CASE phase = "item"
  BY <1>1, <1>4, ImageType DEF Bounds, Left
<1>5. Scans(1) \in Nat /\ Items \in Nat
  BY MeasureType
<1>6. CASE phase \notin {"entry", "item"}
  BY <1>1, <1>2, <1>5, <1>6 DEF Left
<1> QED  BY <1>3, <1>4, <1>6

LEMMA SameImage ==
  ASSUME Step
  PROVE  /\ UNCHANGED image
         /\ Items' = Items /\ \A c \in Copy : Scan(c)' = Scan(c)
         /\ \A c \in 1 .. 3 : Scans(c)' = Scans(c)
<1>1. UNCHANGED image
  BY DEF Step, Signature, SignatureFails, FindRegion, FindSize, ReadTable, SkipTable,
    NoRegion, NextEntry, EntriesOver, FoundRegion, EmptyRegion, ReadMetadata,
    ReadMetadataFails, NextItem, NoItem, FoundSize, SizeFails, Goto, Error
<1> QED  BY <1>1 DEF image, Items, Scan, Scans

(* Each step counts the copies, the entries or the items down.             *)
LEMMA MeasureStep ==
  ASSUME IInv, Bounds, Step
  PROVE  Bounds' /\ Left' < Left
<1> DEFINE here == Scans(copy)
           behind == Scans(copy + 1)
<1>1. /\ copy \in 1 .. 3 /\ i \in Nat \ {0} /\ (phase = "entry" => copy \in Copy)
      /\ Items \in Nat /\ Items = metadata.count + 2
      /\ table' = table /\ metadata' = metadata
  BY MeasureType, SameImage DEF IInv, TypeOK, Items, image
<1>2. here \in Nat /\ Scans(1) \in Nat
  BY <1>1, MeasureType DEF Copy
<1>3. \A c \in Copy : /\ Len(table[c].entries) \in Nat
                      /\ Scans(c) = (Len(table[c].entries) + 3) + Scans(c + 1)
                      /\ Scans(c + 1) \in Nat
  <2> SUFFICES ASSUME NEW c \in Copy
               PROVE  /\ Len(table[c].entries) \in Nat
                      /\ Scans(c) = (Len(table[c].entries) + 3) + Scans(c + 1)
                      /\ Scans(c + 1) \in Nat
    OBVIOUS
  <2>1. Len(table[c].entries) \in Nat
    BY ImageType
  <2>2. Scan(c) = Len(table[c].entries) + 3 /\ Scans(c) = Scan(c) + Scans(c + 1)
    BY MeasureType
  <2>3. Scans(2) \in Nat /\ Scans(3) \in Nat
    BY MeasureType
  <2>4. c + 1 \in {2, 3}
    BY DEF Copy
  <2> QED  BY <2>1, <2>2, <2>3, <2>4
<1>4. Items' = Items /\ \A c \in 1 .. 3 : Scans(c)' = Scans(c)
  BY SameImage
<1>5. CASE Signature \/ SignatureFails
  <2>1. /\ phase = "open" /\ phase' \in {"table", "error"}
        /\ copy' = copy /\ copy = 1
    BY <1>5 DEF Signature, SignatureFails, Goto, Error, Bounds
  <2> QED  BY <1>1, <1>2, <1>4, <2>1 DEF Left, Bounds
<1>6. CASE ReadTable
  <2>1. /\ phase = "table" /\ phase' = "entry" /\ copy' = copy /\ i' = 1
        /\ copy \in Copy
    BY <1>6 DEF ReadTable, Goto
  <2>2. Scans(copy)' = here
    BY <1>4, <2>1 DEF Copy
  <2>3. Len(table[copy].entries) \in Nat
    BY <1>3, <2>1
  <2> HIDE DEF here
  <2>4. Left = Items + here + 1 /\ Left' = Items + here - 1
    BY <1>4, <2>1, <2>2 DEF Left, here
  <2>5. Bounds'
    BY <1>1, <2>1, <2>3 DEF Bounds
  <2> QED  BY <1>1, <1>2, <2>4, <2>5
<1>7. CASE SkipTable
  <2>1. /\ phase = "table" /\ phase' = "table" /\ copy' = copy + 1
        /\ copy \in Copy /\ copy + 1 \in 1 .. 3
    BY <1>7 DEF SkipTable, Goto, Copy
  <2>2. Scans(copy)' = behind
    BY <1>4, <2>1
  <2> HIDE DEF here, behind
  <2>3. here \in Nat /\ behind \in Nat /\ behind < here
    BY <1>2, <1>3, <2>1 DEF here, behind
  <2>4. Left = Items + here + 1 /\ Left' = Items + behind + 1
    BY <1>4, <2>1, <2>2 DEF Left, here
  <2> QED  BY <1>1, <2>1, <2>3, <2>4 DEF Bounds
<1>8. CASE NoRegion
  <2>1. phase = "table" /\ phase' = "error"
    BY <1>8 DEF NoRegion, Error, Goto
  <2> QED  BY <1>1, <1>2, <2>1 DEF Left, Bounds
<1>9. CASE phase = "entry"
  <2>1. /\ copy \in Copy /\ i <= Len(table[copy].entries) + 1
        /\ here = (Len(table[copy].entries) + 3) + behind /\ behind \in Nat
        /\ Len(table[copy].entries) \in Nat
    BY <1>1, <1>3, <1>9 DEF Bounds
  <2> HIDE DEF here, behind
  <2>2. Left = Items + here - i /\ Left >= Items + behind + 2
    BY <1>1, <1>9, <2>1 DEF Left, here
  <2>3. CASE NextEntry
    <3>1. /\ phase' = "entry" /\ copy' = copy /\ i' = i + 1
          /\ i <= Len(table[copy].entries)
      BY <2>3 DEF NextEntry, Goto, There
    <3>2. Left' = Items + here - (i + 1)
      BY <1>1, <1>4, <2>1, <3>1 DEF Left, here
    <3>3. Bounds'
      BY <1>1, <2>1, <3>1 DEF Bounds
    <3>4. here \in Nat /\ i \in Nat /\ Items \in Nat
      BY <1>1, <2>1
    <3>5. Items + here - (i + 1) < Items + here - i
      BY <3>4
    <3> QED  BY <2>2, <3>2, <3>3, <3>5
  <2>4. CASE EntriesOver
    <3>1. phase' = "table" /\ copy' = copy + 1 /\ copy + 1 \in 1 .. 3
      BY <2>1, <2>4 DEF EntriesOver, Goto, Copy
    <3>2. Left' = Items + behind + 1
      BY <1>4, <3>1 DEF Left, behind
    <3>3. Bounds'
      BY <3>1 DEF Bounds
    <3> QED  BY <1>1, <2>1, <2>2, <3>2, <3>3
  <2>5. CASE FoundRegion \/ EmptyRegion
    <3>1. phase' \in {"region", "error"}
      BY <2>5 DEF FoundRegion, EmptyRegion, Error, Goto
    <3>2. Left' \in {Items, 0}
      BY <1>4, <3>1 DEF Left
    <3>3. Bounds'
      BY <3>1 DEF Bounds
    <3> QED  BY <1>1, <2>1, <2>2, <3>2, <3>3
  <2>6. NextEntry \/ EntriesOver \/ FoundRegion \/ EmptyRegion
    BY <1>9 DEF Step, Signature, SignatureFails, FindRegion, FindSize, ReadTable,
      SkipTable, NoRegion, ReadMetadata, ReadMetadataFails, NextItem, NoItem,
      FoundSize, SizeFails
  <2> QED  BY <2>3, <2>4, <2>5, <2>6
<1>10. CASE ReadMetadata \/ ReadMetadataFails
  <2>1. /\ phase = "region"
        /\ (phase' = "item" /\ i' = 1) \/ phase' = "error"
    BY <1>10 DEF ReadMetadata, ReadMetadataFails, Error, Goto
  <2>2. metadata.count \in Nat
    BY ImageType
  <2>3. Bounds'
    BY <1>1, <2>1, <2>2 DEF Bounds
  <2>4. Left = Items /\ Left' \in {Items - 1, 0}
    BY <1>4, <2>1 DEF Left
  <2> QED  BY <1>1, <2>2, <2>3, <2>4
<1>11. CASE NextItem
  <2>1. phase = "item" /\ phase' = "item" /\ i' = i + 1 /\ i <= metadata.count
    BY <1>11 DEF NextItem, Goto
  <2> QED  BY <1>1, <1>4, <2>1, ImageType DEF Left, Bounds
<1>12. CASE NoItem \/ FoundSize \/ SizeFails
  <2>1. phase = "item" /\ phase' \in {"error", "found"}
    BY <1>12 DEF NoItem, FoundSize, SizeFails, Error, Goto
  <2>2. i <= metadata.count + 1 /\ metadata.count \in Nat
    BY <2>1, ImageType DEF Bounds
  <2> QED  BY <1>1, <2>1, <2>2 DEF Left, Bounds
<1> QED
  BY <1>5, <1>6, <1>7, <1>8, <1>9, <1>10, <1>11, <1>12
     DEF Step, FindRegion, FindSize, NextEntry, EntriesOver, FoundRegion, EmptyRegion

\* Whatever the file holds, every step leaves fewer to take: the function
\* returns behind Left steps at most (vhdxVirtualSize.go:89-119, 149-168).
THEOREM ScanCountsDown ==
  Spec => [](Left \in Nat) /\ [][Left' < Left]_vars
<1>1. Init => Bounds
  BY DEF Init, Bounds
<1>2. IInv /\ Bounds /\ [Next]_vars => Bounds' /\ [Left' < Left]_vars
  <2>1. CASE UNCHANGED vars
    BY <2>1 DEF vars, image, Bounds
  <2>2. CASE Over
    BY <2>1, <2>2 DEF Over
  <2> QED  BY <2>1, <2>2, MeasureStep DEF Next
<1> QED  BY <1>1, <1>2, Invariance, MeasureNat, PTL DEF Spec
=============================================================================
