----------------------------- MODULE MCVhdxSize -----------------------------
(***************************************************************************)
(* Words of 5 bits instead of 64, lengths of 3 instead of 32 and a size of *)
(* 2 bytes instead of 8.  Both copies of the region table, and the table   *)
(* in the metadata region, have up to two entries and may be unreadable or *)
(* hold fewer entries than their header counts.                            *)
(***************************************************************************)
EXTENDS VhdxSize

Other == [guid |-> "other", offset |-> 0, length |-> 0]

Meta(o, l) == [guid |-> "metadata", offset |-> o, length |-> l]

\* Within reach of a Seek, just out of it, and before the end of the words.
Regions == {Meta(0, 0), Meta(0, 4), Meta(15, 7), Meta(16, 4), Meta(30, 7)}

EntryLists ==
  {<<>>, <<Other>>, <<Other, Other>>}
    \cup {<<m>> : m \in Regions} \cup {<<Other, m>> : m \in Regions}

MCTables ==
  [usable : {TRUE}, count : {1, 2}, entries : EntryLists]
    \cup [usable : {FALSE}, count : {1}, entries : {<<Meta(0, 4)>>}]

Thing == [id |-> "other", offset |-> 0, length |-> 0]

Sizes == [id : {"size"}, offset : {0, 2, 3, 7}, length : {1, 2, 7}]

MCMetadata ==
  [usable : {TRUE}, count : {1, 2},
   items : {<<>>, <<Thing>>} \cup {<<s>> : s \in Sizes}
             \cup {<<Thing, s>> : s \in Sizes}]
    \cup [usable : {FALSE}, count : {1}, items : {<<>>}]
=============================================================================
