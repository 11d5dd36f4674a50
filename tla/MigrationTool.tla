--------------------------- MODULE MigrationTool ---------------------------
(***************************************************************************)
(* main (src/cmd/main.go) around its three parts, over several runs of the *)
(* tool on one output directory, share and cluster: the export, a question *)
(* and the copy to the share by a child process, a question, the login and *)
(* the migration.                                                          *)
(*                                                                         *)
(* The export, the copy and the migration are what ExportPromise,          *)
(* CopyPromise and MigrationPromise say of them; VmExport, NfsCopy and     *)
(* OvaMigration keep those.  Every VM has one disk and a name of its own,  *)
(* and the output directory has no other in it that could be unreadable.   *)
(***************************************************************************)
EXTENDS Naturals, Sequences

CONSTANTS
  N,        (* the VMs, in the order of the names of their OVFs            *)
  MaxRuns,  (* bound: runs of the tool                                     *)
  Known,    (* the VM, if any, whose id is in the plan of every VM         *)
  None

VMs   == 1 .. N
Kinds == {"ovf", "vhdx"}

ASSUME ToolAssumption ==
  /\ N \in Nat \ {0}
  /\ MaxRuns \in Nat \ {0}
  /\ Known \subseteq VMs
  /\ None \notin VMs

VARIABLES
  phase,     (* where main stands                                          *)
  run,       (* the number of the run                                      *)
  wish,      (* what the user wants                                        *)
  terminal,  (* standard input is a terminal                               *)
  lines,     (* else: the answers that are left in it                      *)
  copied,    (* history: the copy of this run has ended well              *)
  walk, at,  (* CopyPromise: the child process and the file it is at      *)
  output,    (* each file of the output directory, of a VM and a kind      *)
  share,     (* each file of the share                                     *)
  delivered, announced, open,                             (* ExportPromise *)
  stage, vm, source, fresh, migration, migrating, migrated (* MigrationPromise *)

Export    == INSTANCE ExportPromise
Migration == INSTANCE MigrationPromise

dialog == <<wish, terminal, lines>>
files  == <<output, share>>
cluster == <<stage, vm, source, fresh, migration, migrating, migrated>>
export == <<delivered, announced, open>>
child  == <<walk, at>>
vars   == <<phase, run, dialog, copied, child, files, export, cluster>>

Files    == VMs \X Kinds
Contents == {"absent", "partial", "whole"}

\* The order of the walk: v.ovf, then v.vhdx.
FileAt(i) == <<(i + 1) \div 2, IF i % 2 = 1 THEN "ovf" ELSE "vhdx">>

Walk == 1 .. 2 * N

Copy == INSTANCE CopyPromise WITH
  N <- 2 * N, Name <- [i \in Walk |-> FileAt(i)],
  Absent <- "absent", Partial <- "partial", Damaged <- "damaged",
  stage <- walk, source <- [i \in Walk |-> output[FileAt(i)]]

\* A user at a terminal answers when asked.  One who pipes the answers may
\* leave out the last ones, and does not want what they ask.
Wishes == [{"copy", "migrate"} -> BOOLEAN]

Piped(w) ==
  {l \in {<<>>, <<w["copy"]>>, <<w["copy"], w["migrate"]>>} :
     /\ w["copy"] => Len(l) > 0
     /\ w["migrate"] => Len(l) > 1}

TypeOK ==
  /\ phase \in {"export", "copy?", "password", "copy", "migrate?", "login",
                "migrate", "skipped", "over"}
  /\ run \in 1 .. MaxRuns
  /\ wish \in Wishes
  /\ terminal \in BOOLEAN
  /\ lines \in Seq(BOOLEAN)
  /\ copied \in BOOLEAN
  /\ walk \in {"prompt", "walk", "file", "done", "failed"}
  /\ at \in 1 .. 2 * N + 1
  /\ output \in [Files -> Contents]
  /\ share \in [Files -> Contents \cup {"damaged"}]
  /\ delivered \subseteq VMs /\ announced \subseteq delivered /\ open \in BOOLEAN
  /\ stage \in {"discover", "apply", "wait", "done", "error"}
  /\ vm \in VMs /\ source \in VMs \cup {None} /\ fresh \in BOOLEAN
  /\ migration \in {"absent", "pending", "running", "Succeeded", "Failed", "Canceled"}
  /\ migrating \in VMs \cup {None}
  /\ migrated \subseteq VMs
  /\ open <=> phase = "export"

Init ==
  /\ phase = "export"
  /\ run = 1
  /\ wish \in Wishes
  /\ terminal \in BOOLEAN
  /\ lines \in IF terminal THEN {<<>>} ELSE Piped(wish)
  /\ copied = FALSE
  /\ Copy!Init
  /\ output = [f \in Files |-> "absent"]
  /\ share = [f \in Files |-> "absent"]
  /\ Export!Init
  /\ Migration!Init

-----------------------------------------------------------------------------
(* The export *)

\* The download truncates what an earlier run has left.
Download(v) ==
  /\ open
  /\ v \notin delivered
  /\ output[<<v, "vhdx">>] # "partial"
  /\ output' = [output EXCEPT ![<<v, "vhdx">>] = "partial"]
  /\ UNCHANGED <<phase, run, dialog, copied, child, share, export, cluster>>

Deliver(v) ==
  /\ Export!Deliver(v)
  /\ output[<<v, "vhdx">>] = "partial"
  /\ output' = [output EXCEPT ![<<v, "vhdx">>] = "whole"]
  /\ UNCHANGED <<phase, run, dialog, copied, child, share, cluster>>

\* os.WriteFile: the error of either step is dropped.
OpenOvf(v) ==
  /\ open
  /\ v \in delivered \ announced
  /\ output[<<v, "ovf">>] # "partial"
  /\ output' = [output EXCEPT ![<<v, "ovf">>] = "partial"]
  /\ UNCHANGED <<phase, run, dialog, copied, child, share, export, cluster>>

Announce(v) ==
  /\ Export!Announce(v)
  /\ output[<<v, "ovf">>] = "partial"
  /\ output' = [output EXCEPT ![<<v, "ovf">>] = "whole"]
  /\ UNCHANGED <<phase, run, dialog, copied, child, share, cluster>>

\* Mutant: main does not wait for the workers.
JoinNobody ==
  /\ phase = "export"
  /\ phase' = "copy?"
  /\ UNCHANGED <<run, dialog, copied, child, files, export, cluster>>

\* wg.Wait: no worker writes any more.
Join ==
  /\ Export!Close
  /\ phase' = "copy?"
  /\ UNCHANGED <<run, dialog, copied, child, files, cluster>>

\* A run that ends here never gets to the cluster.
Abort ==
  /\ phase' = "over"
  /\ Migration!GiveUp
  /\ UNCHANGED <<run, dialog, copied>>

\* A worker panics, or the connection or the list of VMs fails at the start.
ExportFails == Export!Close /\ Abort /\ UNCHANGED <<child, files>>

-----------------------------------------------------------------------------
(* The questions *)

\* Mutant: the end of the input is taken for a yes.
YesAtEnd(q, answer) ==
  IF terminal THEN answer = wish[q] /\ UNCHANGED dialog
  ELSE /\ UNCHANGED <<wish, terminal>>
       /\ \/ lines = <<>> /\ answer /\ UNCHANGED lines
          \/ \E k \in 1 .. Len(lines) :
               /\ answer = lines[1]
               /\ lines' = SubSeq(lines, k + 1, Len(lines))

(***************************************************************************)
(* AskYesNo: the question's own reader takes as many lines as one read     *)
(* gives, which is one at a terminal and any number from a pipe, and uses  *)
(* the first of them; the others are lost.  The end of the input is a no.  *)
(***************************************************************************)
AskYesNo(q, answer) ==
  IF terminal THEN answer = wish[q] /\ UNCHANGED dialog
  ELSE /\ UNCHANGED <<wish, terminal>>
       /\ \/ lines = <<>> /\ ~ answer /\ UNCHANGED lines
          \/ \E k \in 1 .. Len(lines) :
               /\ answer = lines[1]
               /\ lines' = SubSeq(lines, k + 1, Len(lines))

AskCopy ==
  /\ phase = "copy?"
  /\ \E answer \in BOOLEAN :
       AskYesNo("copy", answer) /\ phase' = IF answer THEN "password" ELSE "migrate?"
  /\ UNCHANGED <<run, copied, child, files, export, cluster>>

\* The run ends without a migration, and without an error.
AskMigrate ==
  /\ phase = "migrate?"
  /\ \E answer \in BOOLEAN :
       /\ AskYesNo("migrate", answer)
       /\ IF answer THEN phase' = "login" /\ UNCHANGED cluster
          ELSE phase' = "skipped" /\ Migration!GiveUp
  /\ UNCHANGED <<run, copied, child, files, export>>

-----------------------------------------------------------------------------
(* The copy *)

\* The prompt reads from a terminal only.
EnterPassword ==
  /\ phase = "password"
  /\ terminal
  /\ phase' = "copy"
  /\ UNCHANGED <<run, dialog, copied, output, export, cluster>>
  /\ Copy!Begin

PasswordFails ==
  /\ phase = "password"
  /\ Abort
  /\ UNCHANGED <<files, export>>
  /\ Copy!Refuse

\* A step of the child process, which the others cannot see.
Child == UNCHANGED <<phase, run, dialog, copied, output, export, cluster>>

PassFile  == Child /\ Copy!Skip
OpenFile  == Child /\ Copy!Open
OpenFails == Child /\ Copy!OpenFails
CopyFile  == Child /\ Copy!Copied

\* Mutant: the walk goes on behind a file that failed.
CopyFailureSkipped ==
  /\ Child
  /\ walk = "file"
  /\ walk' = "walk"
  /\ at' = at + 1
  /\ UNCHANGED share

CopyFails == Child /\ Copy!CopyFails
WalkEnds  == Child /\ Copy!End

\* Mutant: the child is started and not waited for.
StartChildOnly ==
  /\ phase = "copy"
  /\ phase' = "migrate?"
  /\ copied' = TRUE
  /\ UNCHANGED <<run, dialog, child, files, export, cluster>>

\* cmd.Run returns with the child.
ChildEnds ==
  /\ phase = "copy"
  /\ walk = "done"
  /\ phase' = "migrate?"
  /\ copied' = TRUE
  /\ UNCHANGED <<run, dialog, child, files, export, cluster>>

ChildFails ==
  /\ phase = "copy"
  /\ walk = "failed"
  /\ Abort
  /\ UNCHANGED <<child, files, export>>

-----------------------------------------------------------------------------
(* The migration *)

Login ==
  /\ phase = "login"
  /\ phase' = "migrate"
  /\ UNCHANGED <<run, dialog, copied, child, files, export, cluster>>

LoginFails == phase = "login" /\ Abort /\ UNCHANGED <<child, files, export>>

Listed == {v \in VMs : output[<<v, "ovf">>] # "absent"}

\* The maps are made of the first OVF by name, complete or not.
Discover ==
  /\ phase = "migrate"
  /\ Migration!Discover
  /\ source' \in Listed
  /\ \A v \in Listed : source' <= v
  /\ \E v \in VMs : output[<<v, "vhdx">>] # "absent"
  /\ UNCHANGED <<phase, run, dialog, copied, child, files, export>>

Migrate ==
  /\ phase = "migrate"
  /\ Migration!Create \/ Migration!Succeed \/ Migration!GiveUp
  /\ phase' = IF stage' \in {"done", "error"} THEN "over" ELSE phase
  /\ UNCHANGED <<run, dialog, copied, child, files, export>>

Forklift ==
  /\ Migration!Forklift
  /\ UNCHANGED <<phase, run, dialog, copied, child, files, export>>

\* The tool is run again: the first VM of the list may be another by then.
Rerun ==
  /\ phase \in {"skipped", "over"}
  /\ run < MaxRuns
  /\ phase' = "export"
  /\ run' = run + 1
  /\ wish' \in Wishes
  /\ terminal' \in BOOLEAN
  /\ lines' \in IF terminal' THEN {<<>>} ELSE Piped(wish')
  /\ copied' = FALSE
  /\ walk' = "prompt" /\ at' = 1
  /\ delivered' = {} /\ announced' = {} /\ open' = TRUE
  /\ Migration!NextRun
  /\ UNCHANGED files

-----------------------------------------------------------------------------

Exporting ==
  \/ \E v \in VMs : Download(v) \/ Deliver(v) \/ OpenOvf(v) \/ Announce(v)
  \/ Join \/ ExportFails

Copying ==
  \/ EnterPassword \/ PasswordFails
  \/ PassFile \/ OpenFile \/ OpenFails \/ CopyFile \/ CopyFails \/ WalkEnds
  \/ ChildEnds \/ ChildFails

Tool ==
  \/ Exporting
  \/ AskCopy \/ Copying
  \/ AskMigrate \/ Login \/ LoginFails \/ Discover \/ Migrate

\* The bound on the runs is reached, and Forklift is at rest.
Over == phase \in {"skipped", "over"} /\ run = MaxRuns /\ UNCHANGED vars

Next == Tool \/ Forklift \/ Rerun \/ Over

Spec == Init /\ [][Next]_vars

-----------------------------------------------------------------------------
(* Properties *)

(***************************************************************************)
(* Nothing is copied or migrated that the user did not ask for, although   *)
(* one question may take the lines of the next; and at a terminal no       *)
(* answer is lost (utils.go:42-48, main.go:164-182).                       *)
(***************************************************************************)
Answers ==
  /\ phase \in {"password", "copy"} \/ copied => wish["copy"]
  /\ phase \in {"login", "migrate"} => wish["migrate"]
  /\ terminal /\ wish["copy"] /\ phase \in {"migrate?", "login", "migrate", "skipped"} =>
       copied
  /\ terminal /\ phase = "skipped" => ~ wish["migrate"]

(***************************************************************************)
(* Behind a copy that main takes for done, the share has every file of the *)
(* output directory as it is there, or else damaged (of another length, or *)
(* of a source cut short meanwhile: CopyPromise), whatever earlier runs    *)
(* left on either: the directory stands still from the join to the end of  *)
(* the run, and no file was passed over or is half written                 *)
(* (main.go:161-170, nfs_server_utils.go:147-170).                         *)
(***************************************************************************)
MigrationBehindCopy ==
  copied => \A f \in Files : output[f] # "absent" => share[f] \in {output[f], "damaged"}

(***************************************************************************)
(* A run that creates the migration, for a VM it has exported and copied:  *)
(* Forklift works on that VM, or on the one whose id stands in every plan; *)
(* the VM of the run has its OVF and its disk on the share as long as      *)
(* Forklift reads, each whole or damaged, never missing or half written;   *)
(* the success the run reports is of its own plan; and the maps are made   *)
(* of that VM too, unless output holds an OVF of another                   *)
(* (main.go:161-180, ocpUtils.go:441-459, 774-786, 876-899).               *)
(***************************************************************************)
EndToEnd ==
  fresh /\ copied /\ vm \in announced /\ migration # "absent" =>
    /\ migration \in {"running", "Succeeded"} => migrating \in {vm} \cup Known
    /\ \A k \in Kinds : share[<<vm, k>>] \in {"whole", "damaged"}
    /\ stage = "done" => migrated \cap ({vm} \cup Known) # {}
    /\ Listed = {vm} => source = vm

(***************************************************************************)
(* The share never changes under a migration, but by a run that found one  *)
(* an earlier run had left behind: when the deadline passed, Forklift may  *)
(* still read what that run overwrites (main.go:164-180).                  *)
(***************************************************************************)
ShareStable == [][share' # share /\ fresh => migration = "absent"]_vars

-----------------------------------------------------------------------------
(* The inductive invariant behind the safety properties *)

\* How far the migration can be in each phase, and what a fresh run knows of it.
Staged ==
  /\ phase \notin {"migrate", "skipped", "over"} => stage = "discover"
  /\ phase = "migrate" => stage \in {"discover", "apply", "wait"}
  /\ phase \in {"skipped", "over"} => stage \in {"done", "error"}
  /\ stage = "discover" => source = None
  /\ stage \in {"apply", "wait", "done"} => source # None
  /\ stage = "done" => migration = "Succeeded"
  /\ migration = "running" => migrating \in VMs
  /\ fresh => /\ stage \in {"discover", "apply"} => migration = "absent"
              /\ source = None => migration = "absent"
              /\ migration \in {"running", "Succeeded"} =>
                   migrating \in {vm} \cup Known
              /\ migration = "Succeeded" => migrated \cap ({vm} \cup Known) # {}

\* What the export says of the output directory.
Exported ==
  /\ \A v \in delivered : output[<<v, "vhdx">>] = "whole"
  /\ \A v \in announced : output[<<v, "ovf">>] = "whole"
  /\ source # None => ~ open /\ source \in Listed

\* What the walk has passed is on the share.
Walked ==
  /\ phase \in {"export", "copy?", "password"} => walk = "prompt"
  /\ walk = "prompt" => at = 1
  /\ walk \in {"walk", "file"} => phase = "copy"
  /\ walk = "file" => at \in Walk /\ output[FileAt(at)] # "absent"
  /\ walk = "done" => at = 2 * N + 1
  /\ walk \in {"walk", "file", "done"} =>
       \A i \in 1 .. at - 1 :
         output[FileAt(i)] # "absent" =>
           share[FileAt(i)] \in {output[FileAt(i)], "damaged"}
  /\ phase = "copy" => ~ copied
  /\ copied => phase \in {"migrate?", "login", "migrate", "skipped", "over"}

\* The lines that are left are those of the questions to come.
Lines ==
  /\ terminal => lines = <<>>
  /\ ~ terminal =>
       /\ phase \in {"export", "copy?"} => lines \in Piped(wish)
       /\ phase \in {"password", "copy", "migrate?"} =>
            lines \in {<<>>, <<wish["migrate"]>>}

IInv ==
  /\ TypeOK /\ Staged /\ Exported /\ Walked /\ Lines
  /\ Answers /\ MigrationBehindCopy
=============================================================================
