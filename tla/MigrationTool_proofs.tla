------------------------ MODULE MigrationTool_proofs ------------------------
(***************************************************************************)
(* For any number of VMs and of runs: nothing happens that the user did    *)
(* not ask for, what main takes for copied is on the share, and a fresh    *)
(* migration works by the plan of its run, under a share that stands still.*)
(***************************************************************************)
EXTENDS MigrationTool, SequenceTheorems, TLAPS

USE DEF child

-----------------------------------------------------------------------------
(* The walk passes every file *)

LEMMA FileAtType == ASSUME NEW i \in Walk PROVE FileAt(i) \in Files
<1>1. N \in Nat
  BY ToolAssumption
<1>2. (i + 1) \div 2 \in 1 .. N
  BY <1>1 DEF Walk
<1> QED  BY <1>2 DEF FileAt, Files, VMs, Kinds

LEMMA FilesCovered ==
  ASSUME NEW f \in Files PROVE \E i \in Walk : FileAt(i) = f
<1>1. PICK v \in VMs, k \in Kinds : f = <<v, k>>
  BY DEF Files
<1>2. N \in Nat /\ v \in 1 .. N
  BY ToolAssumption DEF VMs
<1>3. CASE k = "ovf"
  <2>1. 2 * v - 1 \in 1 .. 2 * N /\ (2 * v - 1) % 2 = 1 /\ ((2 * v - 1) + 1) \div 2 = v
    BY <1>2
  <2> QED  BY <1>1, <1>3, <2>1 DEF FileAt, Walk
<1>4. CASE k = "vhdx"
  <2>1. 2 * v \in 1 .. 2 * N /\ (2 * v) % 2 # 1 /\ ((2 * v) + 1) \div 2 = v
    BY <1>2
  <2> QED  BY <1>1, <1>4, <2>1 DEF FileAt, Walk
<1> QED  BY <1>3, <1>4 DEF Kinds

-----------------------------------------------------------------------------
(* The invariant *)

\* A worker writes its own files only, while nothing looks at the directory.
LEMMA DownloadStep ==
  ASSUME IInv, NEW v \in VMs, Download(v) \/ Deliver(v) PROVE IInv'
<1> DEFINE f == <<v, "vhdx">>
<1>1. f \in Files
  BY DEF Files, Kinds
<1>2. open /\ phase = "export" /\ walk = "prompt" /\ ~ copied /\ source = None
  BY DEF Download, Deliver, Export!Deliver, IInv, TypeOK, Staged, Walked
<1>3. UNCHANGED <<phase, run, dialog, copied, child, share, open, cluster, announced>>
  BY DEF export, Download, Deliver, Export!Deliver
<1>4. /\ output' \in [Files -> Contents]
      /\ \A g \in Files : g # f => output'[g] = output[g]
  BY <1>1 DEF Download, Deliver, IInv, TypeOK, Contents
<1>5. (delivered' = delivered /\ v \notin delivered)
        \/ (delivered' = delivered \cup {v} /\ output'[f] = "whole")
  BY <1>1 DEF export, Download, Deliver, Export!Deliver, IInv, TypeOK
<1>6. TypeOK'
  BY <1>3, <1>4, <1>5 DEF dialog, cluster, IInv, TypeOK
<1>7. Staged'
  BY <1>3 DEF dialog, cluster, IInv, Staged
<1>8. Exported'
  <2>1. \A w \in VMs : <<w, "vhdx">> \in Files /\ <<w, "ovf">> \in Files
    BY DEF Files, Kinds
  <2>2. \A w \in delivered' : output'[<<w, "vhdx">>] = "whole"
    <3>1. ASSUME NEW w \in delivered', w # v PROVE output'[<<w, "vhdx">>] = "whole"
      <4>1. w \in delivered /\ w \in VMs /\ <<w, "vhdx">> # f
        BY <1>5, <3>1 DEF IInv, TypeOK
      <4> QED  BY <4>1, <2>1, <1>4 DEF IInv, Exported
    <3>2. v \in delivered' => output'[<<v, "vhdx">>] = "whole"
      BY <1>5
    <3> QED  BY <3>1, <3>2
  <2>3. \A w \in announced' : output'[<<w, "ovf">>] = "whole"
    <3>0. announced' = announced
      BY <1>3
    <3>1. ASSUME NEW w \in announced' PROVE output'[<<w, "ovf">>] = "whole"
      <4>1. w \in announced /\ w \in VMs /\ <<w, "ovf">> # f
        BY <3>0 DEF IInv, TypeOK
      <4> QED  BY <4>1, <2>1, <1>4 DEF IInv, Exported
    <3> QED  BY <3>1
  <2> QED  BY <2>2, <2>3, <1>2, <1>3 DEF cluster, Exported
<1>9. Walked'
  BY <1>2, <1>3 DEF IInv, Walked
<1>10. (Lines /\ Answers)'
  BY <1>3 DEF dialog, IInv, Lines, Answers, Piped
<1>11. MigrationBehindCopy'
  BY <1>2, <1>3 DEF MigrationBehindCopy
<1> QED  BY <1>6, <1>7, <1>8, <1>9, <1>10, <1>11 DEF IInv

LEMMA OvfStep ==
  ASSUME IInv, NEW v \in VMs, OpenOvf(v) \/ Announce(v) PROVE IInv'
<1> DEFINE f == <<v, "ovf">>
<1>1. f \in Files
  BY DEF Files, Kinds
<1>2. open /\ phase = "export" /\ walk = "prompt" /\ ~ copied /\ source = None
  BY DEF OpenOvf, Announce, Export!Announce, IInv, TypeOK, Staged, Walked
<1>3. UNCHANGED <<phase, run, dialog, copied, child, share, open, cluster, delivered>>
  BY DEF export, OpenOvf, Announce, Export!Announce
<1>4. /\ output' \in [Files -> Contents]
      /\ \A g \in Files : g # f => output'[g] = output[g]
  BY <1>1 DEF OpenOvf, Announce, IInv, TypeOK, Contents
<1>5. v \in delivered
        /\ ((announced' = announced /\ v \notin announced)
            \/ (announced' = announced \cup {v} /\ output'[f] = "whole"))
  BY <1>1 DEF export, OpenOvf, Announce, Export!Announce, IInv, TypeOK
<1>6. TypeOK'
  BY <1>3, <1>4, <1>5 DEF dialog, cluster, IInv, TypeOK
<1>7. Staged'
  BY <1>3 DEF dialog, cluster, IInv, Staged
<1>8. Exported'
  <2>1. \A w \in VMs : <<w, "vhdx">> \in Files /\ <<w, "ovf">> \in Files
    BY DEF Files, Kinds
  <2>2. \A w \in announced' : output'[<<w, "ovf">>] = "whole"
    <3>1. ASSUME NEW w \in announced', w # v PROVE output'[<<w, "ovf">>] = "whole"
      <4>1. w \in announced /\ w \in VMs /\ <<w, "ovf">> # f
        BY <1>5, <3>1 DEF IInv, TypeOK
      <4> QED  BY <4>1, <2>1, <1>4 DEF IInv, Exported
    <3>2. v \in announced' => output'[<<v, "ovf">>] = "whole"
      BY <1>5
    <3> QED  BY <3>1, <3>2
  <2>3. \A w \in delivered' : output'[<<w, "vhdx">>] = "whole"
    <3>0. delivered' = delivered
      BY <1>3
    <3>1. ASSUME NEW w \in delivered' PROVE output'[<<w, "vhdx">>] = "whole"
      <4>1. w \in delivered /\ w \in VMs /\ <<w, "vhdx">> # f
        BY <3>0 DEF IInv, TypeOK
      <4> QED  BY <4>1, <2>1, <1>4 DEF IInv, Exported
    <3> QED  BY <3>1
  <2> QED  BY <2>2, <2>3, <1>2, <1>3 DEF cluster, Exported
<1>9. Walked'
  BY <1>2, <1>3 DEF IInv, Walked
<1>10. (Lines /\ Answers)'
  BY <1>3 DEF dialog, IInv, Lines, Answers, Piped
<1>11. MigrationBehindCopy'
  BY <1>2, <1>3 DEF MigrationBehindCopy
<1> QED  BY <1>6, <1>7, <1>8, <1>9, <1>10, <1>11 DEF IInv

\* A run that aborts has created no migration, and its child has ended.
LEMMA AbortStep ==
  ASSUME IInv, Abort,
         UNCHANGED <<files, at, delivered, announced>>, open' = FALSE,
         phase \in {"export", "password", "copy", "login"},
         walk \notin {"walk", "file"}, walk' = walk \/ walk' = "failed"
  PROVE  IInv'
<1> USE DEF Abort, dialog, files, Migration!GiveUp
<1>1. stage = "discover" /\ source = None
  BY DEF IInv, Staged
<1>2. migration' = migration
  BY <1>1
<1>3. TypeOK' /\ Staged'
  BY <1>1, <1>2 DEF IInv, TypeOK, Staged
<1>4. Exported'
  BY <1>1 DEF IInv, Exported
<1>5. Walked'
  BY DEF IInv, Walked
<1>6. (Lines /\ Answers)'
  BY DEF IInv, Lines, Answers
<1>7. MigrationBehindCopy'
  BY DEF IInv, MigrationBehindCopy
<1> QED  BY <1>3, <1>4, <1>5, <1>6, <1>7 DEF IInv

LEMMA JoinStep == ASSUME IInv, Join PROVE IInv'
<1> USE DEF Join, Export!Close
<1>1. phase = "export" /\ UNCHANGED <<run, dialog, copied, child, files, cluster, delivered, announced>>
  BY DEF IInv, TypeOK
<1>2. TypeOK'
  <2>1. UNCHANGED <<run, wish, terminal, lines, copied, walk, at, output, share>>
    BY <1>1 DEF dialog, child, files
  <2>2. UNCHANGED <<stage, vm, source, fresh, migration, migrating, migrated>>
    BY <1>1 DEF cluster
  <2>3. UNCHANGED <<delivered, announced>> /\ phase' = "copy?" /\ open' = FALSE
    BY <1>1
  <2>4. TypeOK
    BY DEF IInv
  <2>5. /\ run' \in 1 .. MaxRuns /\ wish' \in Wishes /\ terminal' \in BOOLEAN
        /\ lines' \in Seq(BOOLEAN) /\ copied' \in BOOLEAN
        /\ walk' \in {"prompt", "walk", "file", "done", "failed"}
        /\ at' \in 1 .. 2 * N + 1
    BY <2>1, <2>4 DEF TypeOK
  <2>6. /\ output' \in [Files -> Contents]
        /\ share' \in [Files -> Contents \cup {"damaged"}]
    BY <2>1, <2>4 DEF TypeOK
  <2>7. /\ stage' \in {"discover", "apply", "wait", "done", "error"}
        /\ vm' \in VMs /\ source' \in VMs \cup {None} /\ fresh' \in BOOLEAN
        /\ migration' \in {"absent", "pending", "running", "Succeeded", "Failed",
                           "Canceled"}
        /\ migrating' \in VMs \cup {None} /\ migrated' \subseteq VMs
    BY <2>2, <2>4 DEF TypeOK
  <2>8. /\ delivered' \subseteq VMs /\ announced' \subseteq delivered'
        /\ open' \in BOOLEAN /\ phase' = "copy?" /\ (open' <=> phase' = "export")
    BY <2>3, <2>4 DEF TypeOK
  <2> QED  BY <2>5, <2>6, <2>7, <2>8 DEF TypeOK
<1>3. Staged'
  BY <1>1 DEF cluster, IInv, Staged
<1>4. (Exported /\ Walked)'
  BY <1>1 DEF files, cluster, IInv, Exported, Walked, Listed
<1>5. (Lines /\ Answers)'
  BY <1>1 DEF dialog, IInv, Lines, Answers
<1>6. MigrationBehindCopy'
  BY <1>1 DEF files, IInv, MigrationBehindCopy
<1> QED  BY <1>2, <1>3, <1>4, <1>5, <1>6 DEF IInv

LEMMA ExportFailsStep == ASSUME IInv, ExportFails PROVE IInv'
<1>1. phase = "export" /\ walk = "prompt"
  BY DEF ExportFails, Export!Close, IInv, TypeOK, Walked
<1> QED  BY <1>1, AbortStep DEF ExportFails, Export!Close

-----------------------------------------------------------------------------
(* The questions *)

\* What a reader leaves of at most two lines.
LEMMA LinesTaken ==
  ASSUME NEW S, NEW a \in S, NEW b \in S
  PROVE  /\ <<>> \in Seq(S) /\ <<a>> \in Seq(S) /\ <<a, b>> \in Seq(S)
         /\ Len(<<>>) = 0 /\ Len(<<a>>) = 1 /\ Len(<<a, b>>) = 2
         /\ <<a>>[1] = a /\ <<a, b>>[1] = a
         /\ SubSeq(<<a>>, 2, 1) = <<>>
         /\ SubSeq(<<a, b>>, 2, 2) = <<b>>
         /\ SubSeq(<<a, b>>, 3, 2) = <<>>
<1>1. SubSeq(<<a>>, 2, 1) = <<>> /\ SubSeq(<<a, b>>, 3, 2) = <<>>
  BY SubSeqEmpty
<1>2. SubSeq(<<a, b>>, 2, 2) = <<b>>
  <2>1. \A i \in 2 .. 2 : <<a, b>>[i] \in S
    OBVIOUS
  <2>2. /\ SubSeq(<<a, b>>, 2, 2) \in Seq(S)
        /\ Len(SubSeq(<<a, b>>, 2, 2)) = 1
        /\ SubSeq(<<a, b>>, 2, 2)[1] = <<a, b>>[2]
    BY <2>1, SubSeqProperties
  <2>3. <<b>> \in Seq(S) /\ Len(<<b>>) = 1 /\ <<b>>[1] = <<a, b>>[2]
    OBVIOUS
  <2>4. ASSUME NEW s \in Seq(S), NEW t \in Seq(S), Len(s) = 1, Len(t) = 1, s[1] = t[1]
        PROVE  s = t
    BY <2>4, SeqEqual
  <2> QED  BY <2>2, <2>3, <2>4
<1> QED  BY <1>1, <1>2

LEMMA PipedType ==
  ASSUME NEW w \in Wishes, NEW l \in Piped(w) PROVE l \in Seq(BOOLEAN)
<1>1. w["copy"] \in BOOLEAN /\ w["migrate"] \in BOOLEAN
  BY DEF Wishes
<1>2. l = <<>> \/ l = <<w["copy"]>> \/ l = <<w["copy"], w["migrate"]>>
  BY DEF Piped
<1>3. /\ <<>> \in Seq(BOOLEAN) /\ <<w["copy"]>> \in Seq(BOOLEAN)
      /\ <<w["copy"], w["migrate"]>> \in Seq(BOOLEAN)
  BY <1>1, LinesTaken
<1> QED  BY <1>2, <1>3

LEMMA AskCopyStep == ASSUME IInv, AskCopy PROVE IInv'
<1>1. PICK answer \in BOOLEAN :
        AskYesNo("copy", answer) /\ phase' = IF answer THEN "password" ELSE "migrate?"
  BY DEF AskCopy
<1>2. /\ phase = "copy?" /\ phase' \in {"password", "migrate?"}
      /\ UNCHANGED <<run, copied, child, files, export, cluster, wish, terminal>>
  BY <1>1 DEF AskCopy, AskYesNo, dialog
<1> DEFINE c == wish["copy"]
           m == wish["migrate"]
<1>3. c \in BOOLEAN /\ m \in BOOLEAN /\ ~ copied
  BY <1>2 DEF IInv, TypeOK, Wishes, Walked
<1>4. /\ lines' \in Seq(BOOLEAN)
      /\ terminal => lines' = <<>> /\ answer = c
      /\ ~ terminal => lines' \in {<<>>, <<m>>} /\ (answer => c)
  <2>1. CASE terminal
    BY <1>1, <2>1 DEF AskYesNo, dialog, IInv, TypeOK, Lines
  <2>2. CASE ~ terminal
    <3>1. lines \in Piped(wish)
      BY <1>2, <2>2 DEF IInv, Lines
    <3>2. CASE lines = <<>>
      <4>1. ~ answer /\ lines' = <<>>
        BY <1>1, <2>2, <3>2, Len(lines) = 0 DEF AskYesNo
      <4> QED  BY <4>1, <2>2
    <3>3. CASE lines = <<c>>
      <4>1. PICK k \in 1 .. 1 : answer = lines[1] /\ lines' = SubSeq(lines, k + 1, 1)
        <5>1. Len(lines) = 1 /\ lines # <<>>
          BY <3>3
        <5> QED  BY <1>1, <2>2, <5>1 DEF AskYesNo
      <4>2. answer = c /\ lines' = <<>>
        BY <4>1, <3>3, <1>3, LinesTaken
      <4> QED  BY <4>2, <2>2
    <3>4. CASE lines = <<c, m>>
      <4>1. PICK k \in 1 .. 2 : answer = lines[1] /\ lines' = SubSeq(lines, k + 1, 2)
        <5>1. Len(lines) = 2 /\ lines # <<>>
          BY <3>4
        <5> QED  BY <1>1, <2>2, <5>1 DEF AskYesNo
      <4>2. k = 1 \/ k = 2
        OBVIOUS
      <4>3. answer = c /\ (lines' = <<m>> \/ lines' = <<>>)
        BY <4>1, <4>2, <3>4, <1>3, LinesTaken
      <4> QED  BY <4>3, <2>2, <1>3, LinesTaken
    <3>5. lines = <<>> \/ lines = <<c>> \/ lines = <<c, m>>
      BY <3>1 DEF Piped
    <3> QED  BY <3>2, <3>3, <3>4, <3>5
  <2> QED  BY <2>1, <2>2
<1>5. TypeOK' /\ Staged'
  BY <1>2, <1>4 DEF files, export, cluster, IInv, TypeOK, Staged
<1>6. (Exported /\ Walked)'
  BY <1>2 DEF files, export, cluster, IInv, Exported, Walked, Listed
<1>7. Lines'
  BY <1>2, <1>4 DEF Lines
<1>8. Answers'
  BY <1>1, <1>2, <1>3, <1>4 DEF Answers
<1>9. MigrationBehindCopy'
  BY <1>2, <1>3 DEF MigrationBehindCopy
<1> QED  BY <1>5, <1>6, <1>7, <1>8, <1>9 DEF IInv

LEMMA AskMigrateStep == ASSUME IInv, AskMigrate PROVE IInv'
<1>1. PICK answer \in BOOLEAN :
        /\ AskYesNo("migrate", answer)
        /\ IF answer THEN phase' = "login" /\ UNCHANGED cluster
           ELSE phase' = "skipped" /\ Migration!GiveUp
  BY DEF AskMigrate
<1>2. /\ phase = "migrate?" /\ stage = "discover" /\ source = None
      /\ phase' \in {"login", "skipped"}
      /\ UNCHANGED <<run, copied, child, files, export, wish, terminal>>
  BY <1>1 DEF AskMigrate, AskYesNo, dialog, IInv, Staged
<1>3. /\ UNCHANGED <<vm, source, fresh, migration, migrating, migrated>>
      /\ stage' = IF answer THEN "discover" ELSE "error"
      /\ phase' = IF answer THEN "login" ELSE "skipped"
  BY <1>1, <1>2 DEF Migration!GiveUp, cluster
<1> DEFINE m == wish["migrate"]
<1>4. m \in BOOLEAN
  BY DEF IInv, TypeOK, Wishes
<1>5. /\ lines' \in Seq(BOOLEAN)
      /\ terminal => lines' = <<>> /\ answer = m
      /\ ~ terminal => (answer => m)
  <2>1. CASE terminal
    BY <1>1, <2>1 DEF AskYesNo, dialog, IInv, TypeOK, Lines
  <2>2. CASE ~ terminal
    <3>1. CASE lines = <<>>
      <4>1. ~ answer /\ lines' = <<>>
        BY <1>1, <2>2, <3>1, Len(lines) = 0 DEF AskYesNo
      <4> QED  BY <4>1, <2>2
    <3>2. CASE lines = <<m>>
      <4>1. PICK k \in 1 .. 1 : answer = lines[1] /\ lines' = SubSeq(lines, k + 1, 1)
        <5>1. Len(lines) = 1 /\ lines # <<>>
          BY <3>2
        <5> QED  BY <1>1, <2>2, <5>1 DEF AskYesNo
      <4>2. answer = m /\ lines' = <<>>
        BY <4>1, <3>2, <1>4, LinesTaken
      <4> QED  BY <4>2, <2>2
    <3>3. lines = <<>> \/ lines = <<m>>
      BY <1>2, <2>2 DEF IInv, Lines
    <3> QED  BY <3>1, <3>2, <3>3
  <2> QED  BY <2>1, <2>2
<1>6. TypeOK'
  BY <1>2, <1>3, <1>5 DEF files, export, IInv, TypeOK
<1>7. Staged'
  BY <1>2, <1>3 DEF IInv, Staged
<1>8. (Exported /\ Walked)'
  BY <1>2, <1>3 DEF files, export, IInv, Exported, Walked
<1>9. Lines'
  BY <1>2, <1>5 DEF Lines
<1>10. Answers'
  BY <1>2, <1>3, <1>4, <1>5 DEF IInv, Answers
<1>11. MigrationBehindCopy'
  BY <1>2 DEF files, IInv, MigrationBehindCopy
<1> QED  BY <1>6, <1>7, <1>8, <1>9, <1>10, <1>11 DEF IInv

-----------------------------------------------------------------------------
(* The copy *)

LEMMA EnterPasswordStep == ASSUME IInv, EnterPassword PROVE IInv'
<1>1. /\ phase = "password" /\ phase' = "copy" /\ walk' = "walk" /\ at' = at
      /\ UNCHANGED <<run, dialog, copied, files, export, cluster>>
  BY DEF EnterPassword, Copy!Begin, Copy!Turns, files
<1>2. ~ copied
  BY <1>1 DEF IInv, Walked
<1>3. at = 1
  BY <1>1 DEF IInv, Walked
<1>4. TypeOK' /\ Staged'
  BY <1>1 DEF dialog, files, export, cluster, IInv, TypeOK, Staged
<1>5. Exported'
  BY <1>1 DEF files, export, cluster, IInv, Exported, Listed
<1>6. Walked'
  BY <1>1, <1>2, <1>3 DEF Walked
<1>7. Lines' /\ Answers'
  BY <1>1 DEF dialog, IInv, Lines, Answers
<1>8. MigrationBehindCopy'
  BY <1>1, <1>2 DEF MigrationBehindCopy
<1> QED  BY <1>4, <1>5, <1>6, <1>7, <1>8 DEF IInv

(* A step of the child changes nothing but the share and its own state.    *)
LEMMA ChildStep ==
  ASSUME IInv, Child, walk \in {"walk", "file"},
         walk' \in {"walk", "file", "done", "failed"}, at' \in 1 .. 2 * N + 1,
         share' \in [Files -> Contents \cup {"damaged"}], Walked'
  PROVE  IInv'
<1> USE DEF Child
<1>1. phase = "copy" /\ ~ copied
  BY DEF IInv, Walked
<1>2. TypeOK' /\ Staged'
  BY DEF dialog, export, cluster, IInv, TypeOK, Staged
<1>3. Exported'
  BY DEF export, cluster, IInv, Exported, Listed
<1>4. Lines' /\ Answers'
  BY DEF dialog, IInv, Lines, Answers
<1>5. MigrationBehindCopy'
  BY <1>1 DEF MigrationBehindCopy
<1> QED  BY <1>2, <1>3, <1>4, <1>5 DEF IInv

(* The names on the share are all different.                               *)
LEMMA FileAtOnce ==
  ASSUME NEW i \in Walk, NEW j \in Walk, FileAt(i) = FileAt(j)
  PROVE  i = j
<1>1. N \in Nat /\ i \in Nat /\ j \in Nat
  BY ToolAssumption DEF Walk
<1>2. (i + 1) \div 2 = (j + 1) \div 2 /\ (i % 2 = 1 <=> j % 2 = 1)
  BY DEF FileAt
<1> QED  BY <1>1, <1>2

\* The walk goes on without a change of the share, or it ends.
LEMMA WalkStep ==
  ASSUME IInv, PassFile \/ OpenFails \/ CopyFails \/ WalkEnds PROVE IInv'
<1>1. N \in Nat /\ at \in 1 .. 2 * N + 1
  BY ToolAssumption DEF IInv, TypeOK
<1>2. /\ Child /\ walk \in {"walk", "file"} /\ share' = share
      /\ \/ /\ walk = "walk" /\ walk' = "walk" /\ at \in Walk /\ at' = at + 1
            /\ output[FileAt(at)] = "absent"
         \/ walk' = "failed" /\ at' = at
         \/ walk = "walk" /\ walk' = "done" /\ at = 2 * N + 1 /\ at' = at
  BY DEF PassFile, OpenFails, CopyFails, WalkEnds, Copy!Skip, Copy!Passes,
         Copy!OpenFails, Copy!CopyFails, Copy!End, Copy!Turns, Copy!Entry, Walk
<1>3. at' \in 1 .. 2 * N + 1
  BY <1>1, <1>2 DEF Walk
<1>4. phase' = "copy" /\ ~ copied' /\ UNCHANGED <<output, share>>
  BY <1>2 DEF Child, IInv, Walked
<1>5. walk' # "failed" =>
        \A i \in 1 .. at' - 1 :
          output[FileAt(i)] # "absent" =>
            share[FileAt(i)] \in {output[FileAt(i)], "damaged"}
  <2> SUFFICES ASSUME walk' # "failed", NEW i \in 1 .. at' - 1,
                      output[FileAt(i)] # "absent"
               PROVE  share[FileAt(i)] \in {output[FileAt(i)], "damaged"}
    OBVIOUS
  <2>1. i # at => i \in 1 .. at - 1
    BY <1>1, <1>2
  <2>2. i # at
    BY <1>1, <1>2
  <2> QED  BY <1>2, <2>1, <2>2 DEF IInv, Walked
<1>6. Walked'
  BY <1>2, <1>4, <1>5 DEF Walked
<1>7. share' \in [Files -> Contents \cup {"damaged"}]
  BY <1>2 DEF IInv, TypeOK
<1> QED  BY <1>2, <1>3, <1>6, <1>7, ChildStep

\* What the walk has passed stays as it is while the next file is written.
LEMMA FileStep ==
  ASSUME IInv, OpenFile \/ CopyFile PROVE IInv'
<1> DEFINE f == FileAt(at)
<1>1. N \in Nat /\ Child
  BY ToolAssumption DEF OpenFile, CopyFile
<1>2. at \in Walk /\ output[f] # "absent" /\ walk \in {"walk", "file"}
  BY DEF OpenFile, CopyFile, Copy!Open, Copy!Copied, Copy!Turns, Copy!Entry, Walk,
         IInv, Walked
<1>3. f \in Files /\ output[f] \in Contents
  BY <1>2, FileAtType DEF IInv, TypeOK
<1>4. [i \in Walk |-> FileAt(i)][at] = f /\ [i \in Walk |-> output[FileAt(i)]][at] = output[f]
  BY <1>2
<1>5. \/ /\ walk' = "file" /\ at' = at
         /\ share' = [share EXCEPT ![f] = "partial"]
      \/ /\ walk' = "walk" /\ at' = at + 1
         /\ \E c \in {output[f], "damaged"} : share' = [share EXCEPT ![f] = c]
  BY <1>4 DEF OpenFile, CopyFile, Copy!Open, Copy!Copied, Copy!Turns
<1>6. share' \in [Files -> Contents \cup {"damaged"}]
  BY <1>3, <1>5 DEF IInv, TypeOK, Contents
<1>7. at' \in 1 .. 2 * N + 1
  BY <1>1, <1>2, <1>5 DEF Walk
<1>8. ASSUME NEW i \in 1 .. at' - 1, output[FileAt(i)] # "absent"
      PROVE  share'[FileAt(i)] \in {output[FileAt(i)], "damaged"}
  <2>1. i \in Walk /\ (i \in 1 .. at - 1 \/ (i = at /\ at' = at + 1))
    BY <1>1, <1>2, <1>5 DEF Walk
  <2>2. CASE i = at /\ at' = at + 1
    <3>1. at # at + 1
      BY <1>1, <1>2 DEF Walk
    <3> QED  BY <1>3, <1>5, <2>2, <3>1 DEF IInv, TypeOK
  <2>3. CASE i \in 1 .. at - 1
    <3>1. FileAt(i) # f
      <4>1. i # at
        BY <1>1, <1>2, <2>3 DEF Walk
      <4> QED  BY <1>2, <2>1, <4>1, FileAtOnce
    <3>2. share'[FileAt(i)] = share[FileAt(i)]
      BY <1>3, <1>5, <2>1, <3>1, FileAtType DEF IInv, TypeOK
    <3> QED  BY <1>2, <1>8, <2>3, <3>2 DEF IInv, Walked
  <2> QED  BY <2>1, <2>2, <2>3
<1>9. Walked'
  <2>1. phase' = "copy" /\ ~ copied' /\ output' = output
    BY <1>1, <1>2 DEF Child, IInv, Walked
  <2> HIDE DEF f
  <2>2. walk' = "file" => at' \in Walk /\ output'[FileAt(at')] # "absent"
    BY <1>2, <1>5, <2>1 DEF f
  <2> QED  BY <1>5, <1>8, <2>1, <2>2 DEF Walked
<1> QED  BY <1>1, <1>2, <1>5, <1>6, <1>7, <1>9, ChildStep

\* The child ends behind the last file.
LEMMA ChildEndsStep == ASSUME IInv, ChildEnds PROVE IInv'
<1>1. /\ phase = "copy" /\ phase' = "migrate?" /\ walk = "done"
      /\ copied' = TRUE
      /\ UNCHANGED <<run, dialog, walk, at, files, export, cluster>>
  BY DEF ChildEnds
<1>2. N \in Nat /\ at - 1 = 2 * N
  BY <1>1, ToolAssumption DEF IInv, Walked
<1>3. TypeOK' /\ Staged'
  BY <1>1 DEF dialog, files, export, cluster, IInv, TypeOK, Staged
<1>4. Exported'
  BY <1>1 DEF files, export, cluster, IInv, Exported, Listed
<1>5. Walked'
  BY <1>1 DEF files, IInv, Walked
<1>6. Lines' /\ Answers'
  BY <1>1 DEF dialog, IInv, Lines, Answers
<1>7. MigrationBehindCopy'
  <2>1. ASSUME NEW f \in Files, output[f] # "absent"
        PROVE  share[f] \in {output[f], "damaged"}
    <3>1. PICK i \in Walk : FileAt(i) = f
      BY FilesCovered
    <3>2. i \in 1 .. at - 1
      BY <1>2 DEF Walk
    <3> QED  BY <1>1, <2>1, <3>1, <3>2 DEF IInv, Walked
  <2> QED  BY <2>1, <1>1 DEF files, MigrationBehindCopy
<1> QED  BY <1>3, <1>4, <1>5, <1>6, <1>7 DEF IInv

LEMMA FailsStep ==
  ASSUME IInv, PasswordFails \/ ChildFails \/ LoginFails PROVE IInv'
<1>1. /\ phase \in {"password", "copy", "login"} /\ Abort
      /\ UNCHANGED <<files, at, export>>
      /\ walk \notin {"walk", "file"}
      /\ walk' = walk \/ walk' = "failed"
  BY DEF PasswordFails, ChildFails, LoginFails, Copy!Refuse, Copy!Turns,
         IInv, Walked
<1>2. open' = FALSE
  BY <1>1 DEF export, IInv, TypeOK
<1> QED  BY <1>1, <1>2, AbortStep DEF export

-----------------------------------------------------------------------------
(* The migration *)

\* Between the copy and the end of the run, only the migration moves.
LEMMA MigrationStep ==
  ASSUME IInv, TypeOK', Staged',
         phase' = phase \/ (phase' = "over" /\ phase = "migrate"),
         source' = source \/ (source' \in Listed /\ phase = "migrate"),
         UNCHANGED <<run, dialog, copied, child, files, export>>
  PROVE  IInv'
<1>1. Exported'
  BY DEF files, export, IInv, TypeOK, Exported, Listed
<1>2. Walked'
  BY DEF files, IInv, Walked
<1>3. Lines' /\ Answers'
  BY DEF dialog, IInv, Lines, Answers
<1>4. MigrationBehindCopy'
  BY DEF files, IInv, MigrationBehindCopy
<1> QED  BY <1>1, <1>2, <1>3, <1>4 DEF IInv

LEMMA LoginStep == ASSUME IInv, Login PROVE IInv'
<1> USE DEF Login
<1>1. TypeOK' /\ Staged'
  BY DEF dialog, files, export, cluster, IInv, TypeOK, Staged
<1>2. (Exported /\ Walked)'
  BY DEF files, export, cluster, IInv, Exported, Walked, Listed
<1>3. Lines' /\ Answers'
  BY DEF dialog, IInv, Lines, Answers
<1>4. MigrationBehindCopy'
  BY DEF files, IInv, MigrationBehindCopy
<1> QED  BY <1>1, <1>2, <1>3, <1>4 DEF IInv

LEMMA DiscoverStep == ASSUME IInv, Discover PROVE IInv'
<1>1. source' \in VMs
  BY DEF Discover, Listed
<1>2. TypeOK'
  BY <1>1 DEF Discover, Migration!Discover, dialog, files, export, IInv, TypeOK
<1>3. source' # None
  BY <1>1, ToolAssumption
<1>4. Staged'
  BY <1>3 DEF Discover, Migration!Discover, IInv, Staged
<1> QED  BY <1>2, <1>4, MigrationStep DEF Discover

LEMMA MigrateStep == ASSUME IInv, Migrate PROVE IInv'
<1> USE DEF Migration!Create, Migration!Succeed, Migration!GiveUp, Migration!Created
<1>1. UNCHANGED <<run, dialog, copied, child, files, export, vm, source, fresh, migrating, migrated>>
  BY DEF Migrate
<1>2. TypeOK'
  BY <1>1 DEF Migrate, dialog, files, export, IInv, TypeOK
<1>3. Staged'
  BY <1>1 DEF Migrate, IInv, Staged
<1> QED  BY <1>1, <1>2, <1>3, MigrationStep DEF Migrate

LEMMA ForkliftStep == ASSUME IInv, Forklift PROVE IInv'
<1>1. UNCHANGED <<phase, run, dialog, copied, child, files, export, stage, vm, source, fresh>>
  BY DEF Forklift, Migration!Forklift, Migration!Start, Migration!Finish, Migration!Stop,
         Migration!run
<1>2. /\ migration' \in {"running", "Succeeded", "Failed", "Canceled"}
      /\ migration \in {"pending", "running"}
      /\ migration' = "running" => migrating' \in IF fresh THEN {vm} \cup Known ELSE VMs
      /\ migration' # "running" => migrating' = migrating
      /\ migration' = "Succeeded" => migration = "running" /\ migrated' = migrated \cup {migrating}
      /\ migration' # "Succeeded" => migrated' = migrated
  BY DEF Forklift, Migration!Forklift, Migration!Start, Migration!Finish, Migration!Stop
<1>3. TypeOK'
  <2>1. migrating' \in VMs \cup {None} /\ migrated' \subseteq VMs
    BY <1>2, ToolAssumption DEF IInv, TypeOK, Staged
  <2> QED  BY <1>1, <1>2, <2>1 DEF dialog, files, export, IInv, TypeOK
<1>4. Staged'
  <2>1. fresh /\ migration' \in {"running", "Succeeded"} =>
          migrating' \in {vm} \cup Known
    BY <1>2 DEF IInv, Staged
  <2>2. fresh /\ migration' = "Succeeded" => migrated' \cap ({vm} \cup Known) # {}
    BY <1>2, <2>1
  <2>3. migration' = "running" => migrating' \in VMs
    BY <1>2, ToolAssumption DEF IInv, TypeOK
  <2> QED  BY <1>1, <1>2, <2>1, <2>2, <2>3 DEF IInv, TypeOK, Staged
<1>5. UNCHANGED <<run, dialog, copied, child, files, export>>
  BY <1>1
<1>6. phase' = phase \/ (phase' = "over" /\ phase = "migrate")
  BY <1>1
<1>7. source' = source \/ (source' \in Listed /\ phase = "migrate")
  BY <1>1
<1> QED  BY <1>3, <1>4, <1>5, <1>6, <1>7, MigrationStep

\* A new run knows whether a migration was there.
LEMMA RerunStep == ASSUME IInv, Rerun PROVE IInv'
<1> USE DEF Rerun, Migration!NextRun
<1>1. run' \in 1 .. MaxRuns
  BY ToolAssumption DEF IInv, TypeOK
<1>2. lines' \in Seq(BOOLEAN)
  <2>1. wish' \in Wishes /\ lines' \in IF terminal' THEN {<<>>} ELSE Piped(wish')
    OBVIOUS
  <2>2. CASE lines' = <<>>
    BY <2>2
  <2>3. CASE lines' \in Piped(wish')
    BY <2>1, <2>3, PipedType
  <2> QED  BY <2>1, <2>2, <2>3
<1>3. 1 \in 1 .. 2 * N + 1
  BY ToolAssumption
<1>4. TypeOK'
  BY <1>1, <1>2, <1>3 DEF files, IInv, TypeOK
<1>5. Staged'
  BY DEF IInv, Staged
<1>6. Exported'
  BY DEF Exported
<1>7. Walked'
  BY DEF Walked
<1>8. Lines'
  BY DEF Lines
<1>9. Answers' /\ MigrationBehindCopy'
  BY DEF Answers, MigrationBehindCopy
<1> QED  BY <1>4, <1>5, <1>6, <1>7, <1>8, <1>9 DEF IInv

-----------------------------------------------------------------------------
(* The theorems *)

LEMMA Initially == Init => IInv
<1> SUFFICES ASSUME Init PROVE IInv
  OBVIOUS
<1> USE DEF Init, Export!Init, Migration!Init, Copy!Init
<1>1. N \in Nat /\ MaxRuns \in Nat \ {0}
  BY ToolAssumption
<1>2. run \in 1 .. MaxRuns /\ at \in 1 .. 2 * N + 1
  BY <1>1
<1>3. lines \in Seq(BOOLEAN)
  <2>1. CASE lines = <<>>
    BY <2>1
  <2>2. CASE lines \in Piped(wish)
    BY <2>2, PipedType
  <2> QED  BY <2>1, <2>2
<1>4. TypeOK
  BY <1>2, <1>3 DEF TypeOK, Contents
<1>5. Staged /\ Exported
  BY DEF Staged, Exported
<1>6. Walked
  BY DEF Walked
<1>7. Lines
  BY DEF Lines
<1>8. Answers /\ MigrationBehindCopy
  BY DEF Answers, MigrationBehindCopy
<1> QED  BY <1>4, <1>5, <1>6, <1>7, <1>8 DEF IInv

LEMMA Inductive == IInv /\ [Next]_vars => IInv'
<1> SUFFICES ASSUME IInv, [Next]_vars PROVE IInv'
  OBVIOUS
<1>1. ASSUME NEW v \in VMs, Download(v) \/ Deliver(v) \/ OpenOvf(v) \/ Announce(v)
      PROVE  IInv'
  BY <1>1, DownloadStep, OvfStep
<1>2. CASE Join \/ ExportFails
  BY <1>2, JoinStep, ExportFailsStep
<1>3. CASE AskCopy \/ AskMigrate
  BY <1>3, AskCopyStep, AskMigrateStep
<1>4. CASE \/ EnterPassword \/ PassFile \/ OpenFile \/ OpenFails \/ CopyFile
           \/ CopyFails \/ WalkEnds \/ ChildEnds
  BY <1>4, EnterPasswordStep, WalkStep, FileStep, ChildEndsStep
<1>5. CASE PasswordFails \/ ChildFails \/ LoginFails
  BY <1>5, FailsStep
<1>6. CASE Login \/ Discover \/ Migrate \/ Forklift \/ Rerun
  BY <1>6, LoginStep, DiscoverStep, MigrateStep, ForkliftStep, RerunStep
<1>7. CASE UNCHANGED vars
  BY <1>7 DEF vars, dialog, files, export, cluster, IInv, TypeOK, Staged, Exported,
              Listed, Walked, Lines, Answers, MigrationBehindCopy
<1> QED  BY <1>1, <1>2, <1>3, <1>4, <1>5, <1>6, <1>7
         DEF Next, Tool, Exporting, Copying, Over

THEOREM Invariance == Spec => []IInv
  BY Initially, Inductive, PTL DEF Spec

(***************************************************************************)
(* Every variable keeps to its type, and main exports exactly as long as   *)
(* workers may write (main.go:58-182).                                     *)
(***************************************************************************)
THEOREM TypeCorrect == Spec => []TypeOK
<1>1. IInv => TypeOK
  BY DEF IInv
<1> QED  BY <1>1, Invariance, PTL

(***************************************************************************)
(* Nothing happens that the user did not ask for, however the lines of a   *)
(* pipe are split between the readers of the questions (utils.go:42-48).   *)
(***************************************************************************)
THEOREM NothingUnasked == Spec => []Answers
<1>1. IInv => Answers
  BY DEF IInv
<1> QED  BY <1>1, Invariance, PTL

(***************************************************************************)
(* Behind a copy that main takes for done, every file of the output        *)
(* directory is on the share as it is, or else damaged                     *)
(* (nfs_server_utils.go:147-170).                                          *)
(***************************************************************************)
THEOREM CopyIsThere == Spec => []MigrationBehindCopy
<1>1. IInv => MigrationBehindCopy
  BY DEF IInv
<1> QED  BY <1>1, Invariance, PTL

(***************************************************************************)
(* A migration that a run has created for a VM it has exported and copied  *)
(* works on that VM or on the one of the constant id, with the OVF and the *)
(* disk of the run's VM on the share, each whole or damaged                *)
(* (main.go:161-180, ocpUtils.go:774-786).                                 *)
(***************************************************************************)
THEOREM FreshEndToEnd == Spec => []EndToEnd
<1>1. IInv => EndToEnd
  <2> SUFFICES ASSUME IInv, fresh, copied, vm \in announced, migration # "absent"
               PROVE  /\ migration \in {"running", "Succeeded"} =>
                           migrating \in {vm} \cup Known
                      /\ \A k \in Kinds : share[<<vm, k>>] \in {"whole", "damaged"}
                      /\ stage = "done" => migrated \cap ({vm} \cup Known) # {}
                      /\ Listed = {vm} => source = vm
    BY DEF EndToEnd
  <2>1. source # None /\ vm \in VMs /\ vm \in delivered
    BY DEF IInv, TypeOK, Staged
  <2>2. ASSUME NEW k \in Kinds PROVE share[<<vm, k>>] \in {"whole", "damaged"}
    <3>1. <<vm, k>> \in Files
      BY <2>1 DEF Files
    <3>2. output[<<vm, k>>] = "whole"
      BY <2>1 DEF Kinds, IInv, Exported
    <3> QED  BY <3>1, <3>2 DEF IInv, MigrationBehindCopy
  <2>3. Listed = {vm} => source = vm
    BY <2>1 DEF IInv, Exported
  <2> QED  BY <2>2, <2>3 DEF IInv, Staged
<1> QED  BY <1>1, Invariance, PTL

(***************************************************************************)
(* The share stands still under a migration that a run has created, to the *)
(* end of that run (main.go:164-180).                                      *)
(***************************************************************************)
THEOREM ShareStands == Spec => ShareStable
<1>1. IInv /\ [Next]_vars => [share' # share /\ fresh => migration = "absent"]_vars
  <2> SUFFICES ASSUME IInv, Next, share' # share, fresh PROVE migration = "absent"
    OBVIOUS
  <2>1. OpenFile \/ CopyFile
    BY DEF Next, Tool, Exporting, Copying, Over, Forklift, Rerun, Download, Deliver,
           OpenOvf, Announce, Join, ExportFails, Abort, AskCopy, AskMigrate,
           EnterPassword, PasswordFails, PassFile, OpenFails, CopyFails, WalkEnds,
           Copy!Begin, Copy!Refuse, Copy!Skip, Copy!Passes, Copy!OpenFails,
           Copy!CopyFails, Copy!End,
           ChildEnds, ChildFails, Login, LoginFails, Discover, Migrate, files, vars
  <2>2. phase = "copy"
    BY <2>1 DEF OpenFile, CopyFile, Copy!Open, Copy!Copied, Copy!Turns, IInv, Walked
  <2> QED  BY <2>2 DEF IInv, Walked, Staged
<1> QED  BY <1>1, Invariance, PTL DEF Spec, ShareStable
=============================================================================
