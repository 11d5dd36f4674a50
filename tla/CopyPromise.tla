---------------------------- MODULE CopyPromise ----------------------------
(***************************************************************************)
(* What the copy to the NFS share promises to what comes after it: the     *)
(* files are copied one by one in the order of the walk; a walk that goes  *)
(* on behind a file has left it whole or damaged: of another length than   *)
(* its source, or from a source that was cut short meanwhile; what else    *)
(* there is on the share stays as it is.                                   *)
(***************************************************************************)
EXTENDS Naturals

CONSTANTS
  N,        (* the entries of the directory                                *)
  Name,     (* of each entry on the share                                  *)
  Absent,   (* an entry that is not to be copied                           *)
  Partial,  (* a file on the share that is being written                   *)
  Damaged   (* of another length than its source, or of one cut short      *)

VARIABLES
  stage,   (* "prompt", "walk", "file", "done" or "failed"                 *)
  at,      (* the entry the walk is at                                     *)
  source,  (* what each entry holds                                        *)
  share    (* what each file of the share holds                            *)

vars == <<stage, at, source, share>>

Entry == 1 .. N

\* Whatever earlier copies have left on the share.
Init == stage = "prompt" /\ at = 1

Turns(from, to) == stage = from /\ stage' = to

Begin  == Turns("prompt", "walk") /\ UNCHANGED <<at, source, share>>
Refuse == Turns("prompt", "failed") /\ UNCHANGED <<at, source, share>>

Passes ==
  /\ stage = "walk"
  /\ at \in Entry
  /\ at' = at + 1
  /\ UNCHANGED <<stage, source, share>>

Skip == Passes /\ source[at] = Absent

\* An entry of a directory that cannot be read.
Overlook == Passes

Open ==
  /\ Turns("walk", "file")
  /\ at \in Entry
  /\ source[at] # Absent
  /\ share' = [share EXCEPT ![Name[at]] = Partial]
  /\ UNCHANGED <<at, source>>

OpenFails ==
  /\ Turns("walk", "failed")
  /\ at \in Entry
  /\ source[at] # Absent
  /\ UNCHANGED <<at, source, share>>

Copied ==
  /\ Turns("file", "walk")
  /\ at' = at + 1
  /\ \E c \in {source[at], Damaged} : share' = [share EXCEPT ![Name[at]] = c]
  /\ UNCHANGED source

CopyFails == Turns("file", "failed") /\ UNCHANGED <<at, source, share>>

End ==
  /\ Turns("walk", "done")
  /\ at = N + 1
  /\ UNCHANGED <<at, source, share>>

Next ==
  \/ Begin \/ Refuse
  \/ Skip \/ Overlook \/ End
  \/ Open \/ OpenFails \/ Copied \/ CopyFails

Spec == Init /\ [][Next]_vars
=============================================================================
