------------------------------ MODULE NfsCopy ------------------------------
(***************************************************************************)
(* The copy of the output directory to the NFS share (src/nfs).  The tool  *)
(* runs itself under sudo; that process walks the directory in lexical     *)
(* order and copies each .vhdx and .ovf file under its base name, by       *)
(* sendfile(2) and, if a call fails, by io.Copy into the same open file.   *)
(* The kernel advances the offset passed to sendfile; the loop advances it *)
(* once more.                                                              *)
(*                                                                         *)
(* A file is the sequence of the source's block numbers; 0 is a block an   *)
(* earlier run left on the share.  The tool itself leaves the sources      *)
(* alone, as main has joined the export; another program may cut one short *)
(* while it is copied, so that sendfile, or io.Copy, meets its end early.  *)
(***************************************************************************)
EXTENDS Naturals, Sequences

CONSTANTS
  N,       (* the entries of the output directory, in the order of the walk *)
  Wanted,  (* those with the extension .vhdx or .ovf                        *)
  Names,   (* file names on the share                                       *)
  Name,    (* d.Name() of each entry: subdirectories are flattened          *)
  Size,    (* blocks of each entry, as the Stat at its opening finds it     *)
  Chunk,   (* chunkSize                                                     *)
  Shrinking (* those another program may cut short during their copy        *)

Entry == 1 .. N

ASSUME DirectoryAssumption ==
  /\ N \in Nat
  /\ Wanted \subseteq Entry
  /\ Name \in [Entry -> Names]
  /\ Size \in [Entry -> Nat]
  /\ Shrinking \subseteq Entry
  /\ Chunk \in Nat \ {0}

VARIABLES
  phase,       (* "prompt", "walk", "send", "copy", "done" or "failed"     *)
  at,          (* the entry the walk is at                                 *)
  offset,      (* of sendfile, then of io.Copy, in the open source         *)
  share,       (* the files on the share                                   *)
  owner,       (* the entry this run made each of them from, 0 for none    *)
  report,      (* how the tool said an entry was copied                    *)
  overlooked,  (* entries of directories that could not be read            *)
  cut          (* entries whose source was cut short during their copy     *)

vars == <<phase, at, offset, share, owner, report, overlooked, cut>>

Target == Name[at]

TypeOK ==
  /\ phase \in {"prompt", "walk", "send", "copy", "done", "failed"}
  /\ at \in 1 .. N + 1
  /\ offset \in Nat
  /\ share \in [Names -> Seq(Nat)]
  /\ owner \in [Names -> 0 .. N]
  /\ report \in [Entry -> {"none", "sendfile", "copy"}]
  /\ overlooked \subseteq Entry
  /\ cut \subseteq Shrinking
  /\ phase \in {"send", "copy"} => at \in Wanted

\* The share may hold files of earlier runs.
Init ==
  /\ phase = "prompt"
  /\ at = 1
  /\ offset = 0
  /\ share \in [Names -> {<<>>, <<0>>}]
  /\ owner = [n \in Names |-> 0]
  /\ report = [e \in Entry |-> "none"]
  /\ overlooked = {}
  /\ cut = {}

-----------------------------------------------------------------------------
(* CopyToNFSServer, RunCopyWithSudo *)

Prompt ==
  /\ phase = "prompt"
  /\ phase' = "walk"
  /\ UNCHANGED <<at, offset, share, owner, report, overlooked, cut>>

\* No server path, no password, or sudo refuses it.
PromptFails ==
  /\ phase = "prompt"
  /\ phase' = "failed"
  /\ UNCHANGED <<at, offset, share, owner, report, overlooked, cut>>

-----------------------------------------------------------------------------
(* CopyFilesNfsServer *)

Skip ==
  /\ phase = "walk"
  /\ at \in Entry \ Wanted
  /\ at' = at + 1
  /\ UNCHANGED <<phase, offset, share, owner, report, overlooked, cut>>

\* A directory that cannot be read is skipped without an error.
Overlook ==
  /\ phase = "walk"
  /\ at \in Entry
  /\ at' = at + 1
  /\ overlooked' = overlooked \cup {at}
  /\ UNCHANGED <<phase, offset, share, owner, report, cut>>

WalkDone ==
  /\ phase = "walk"
  /\ at = N + 1
  /\ phase' = "done"
  /\ UNCHANGED <<at, offset, share, owner, report, overlooked, cut>>

-----------------------------------------------------------------------------
(* CopyFile *)

Open(content) ==
  /\ phase = "walk"
  /\ at \in Wanted
  /\ phase' = "send"
  /\ offset' = 0
  /\ share' = [share EXCEPT ![Target] = content]
  /\ owner' = [owner EXCEPT ![Target] = at]
  /\ UNCHANGED <<at, report, overlooked, cut>>

\* Mutant: the file on the share opened without truncating it.
OpenKeepingContent == Open(share[Target])

\* Mutant: the extensions .vhdx and .ovf not compared.
OpenAnything ==
  /\ phase = "walk"
  /\ at \in Entry
  /\ phase' = "send"
  /\ offset' = 0
  /\ share' = [share EXCEPT ![Target] = <<>>]
  /\ owner' = [owner EXCEPT ![Target] = at]
  /\ UNCHANGED <<at, report, overlooked, cut>>

OpenFile == Open(<<>>)

Fails(from) ==
  /\ phase = from
  /\ phase' = "failed"
  /\ UNCHANGED <<at, offset, share, owner, report, overlooked, cut>>

\* An error ends the walk; so does the tool.
OpenFails == at \in Wanted /\ Fails("walk")

\* CopyFile returns nil and the walk goes on.
Copied(how) ==
  /\ report' = [report EXCEPT ![at] = how]
  /\ phase' = "walk"
  /\ at' = at + 1
  /\ UNCHANGED <<offset, share, owner, overlooked, cut>>

Write(n) ==
  share' = [share EXCEPT ![Target] = @ \o [i \in 1 .. n |-> offset + i]]

(***************************************************************************)
(* Another program cuts the source short: it ends at the offset of the     *)
(* copy or before it.  (An end that the copy has still to reach is a cut   *)
(* at the moment it reaches it.)  An io.Copy that starts over behind it    *)
(* still finds what is left.                                               *)
(***************************************************************************)
CutShort ==
  /\ phase \in {"send", "copy"}
  /\ at \in Shrinking \ cut
  /\ cut' = cut \cup {at}
  /\ UNCHANGED <<phase, at, offset, share, owner, report, overlooked>>

Send(limit) ==
  /\ phase = "send"
  /\ at \notin cut
  /\ \E n \in 1 .. Size[at] - offset :
       /\ n <= limit
       /\ Write(n)
       /\ offset' = (offset + n) + n
  /\ UNCHANGED <<phase, at, owner, report, overlooked, cut>>

\* Mutant: one call for all of the rest, whatever its size.
SendfileUnlimited == Send(Size[at])

\* One call of sendfile, which may transfer less than it was asked for.
Sendfile == Send(Chunk)

\* Mutant: the loop not left when a call transfers nothing.
SendNothingAgain ==
  /\ phase = "send"
  /\ offset < Size[at]
  /\ at \in cut
  /\ UNCHANGED vars

\* A call that transfers nothing ends the loop, and the copy, in success.
SendNothing ==
  /\ phase = "send"
  /\ offset < Size[at]
  /\ at \in cut
  /\ Copied("sendfile")

SendDone ==
  /\ phase = "send"
  /\ offset >= Size[at]
  /\ Copied("sendfile")

\* Mutant: the fallback goes on where sendfile stopped.
SendFailsAtOffset ==
  /\ phase = "send"
  /\ offset < Size[at] \/ offset = 0
  /\ phase' = "copy"
  /\ UNCHANGED <<at, offset, share, owner, report, overlooked, cut>>

\* The Stat before the first call, or a call, fails.
\* sendfile moved its own offset and not that of the open source, so that
\* io.Copy reads from the start; the target's goes on behind what was sent.
SendFails ==
  /\ phase = "send"
  /\ offset < Size[at] \/ offset = 0
  /\ phase' = "copy"
  /\ offset' = 0
  /\ UNCHANGED <<at, share, owner, report, overlooked, cut>>

CopyBlock ==
  /\ phase = "copy"
  /\ offset < Size[at]
  /\ Write(1)
  /\ offset' = offset + 1
  /\ UNCHANGED <<phase, at, owner, report, overlooked, cut>>

\* io.Copy has met the end of the source.
CopyDone ==
  /\ phase = "copy"
  /\ offset >= Size[at] \/ at \in cut
  /\ Copied("copy")

\* Mutant: an entry that could not be copied is logged and the walk goes on.
CopyErrorIgnored ==
  /\ phase = "copy"
  /\ phase' = "walk"
  /\ at' = at + 1
  /\ UNCHANGED <<offset, share, owner, report, overlooked, cut>>

CopyFails == Fails("copy")

Over == phase \in {"done", "failed"} /\ UNCHANGED vars

-----------------------------------------------------------------------------

GoesOn ==
  \/ Prompt
  \/ Skip \/ WalkDone
  \/ OpenFile
  \/ Sendfile \/ SendNothing \/ SendDone
  \/ CopyBlock \/ CopyDone

GoesWrong ==
  \/ PromptFails
  \/ Overlook
  \/ OpenFails
  \/ SendFails
  \/ CopyFails

Next == GoesOn \/ GoesWrong \/ CutShort \/ Over

Spec == Init /\ [][Next]_vars

(***************************************************************************)
(* One sequential process: it goes on as long as its system calls return.  *)
(* None of them has to fail for that.                                      *)
(***************************************************************************)
FairSpec == Spec /\ WF_vars(GoesOn)

-----------------------------------------------------------------------------
(* Properties *)

\* The tool said it copied the entry, and its file is still that one.
There(e) == report[e] # "none" /\ owner[Name[e]] = e

Whole(e) == [i \in 1 .. Size[e] |-> i]

Intact(e) == share[Name[e]] = Whole(e)

(***************************************************************************)
(* A file larger than the chunk never arrives whole by sendfile: it is     *)
(* always too short (nfs_server_utils.go:71-88).                           *)
(***************************************************************************)
Truncated ==
  \A e \in Entry :
    There(e) /\ report[e] = "sendfile" /\ Size[e] > Chunk =>
      Len(share[Name[e]]) < Size[e]

(***************************************************************************)
(* Comparing lengths would find every bad copy: a file that was reported   *)
(* as copied and is as long as its source equals it, after any number of   *)
(* short transfers and a fallback at any of them, unless the source was    *)
(* cut short between the two (nfs_server_utils.go:70-88, 116-144).         *)
(***************************************************************************)
LengthTells ==
  \A e \in Entry \ cut :
    There(e) /\ Len(share[Name[e]]) = Size[e] => Intact(e)

(***************************************************************************)
(* The fallback loses nothing: whatever sendfile had sent before, the file *)
(* ends with the whole source, as long as that is left alone               *)
(* (nfs_server_utils.go:123-144).                                          *)
(***************************************************************************)
FallbackKeepsSource ==
  \A e \in Entry \ cut :
    There(e) /\ report[e] = "copy" =>
      LET file == share[Name[e]]
          lead == Len(file) - Size[e]
      IN  Len(file) >= Size[e] /\ SubSeq(file, lead + 1, Len(file)) = Whole(e)

(***************************************************************************)
(* Behind a walk that succeeded, a name on the share belongs to the last   *)
(* wanted entry of that name that was not overlooked, and was copied from  *)
(* it: entries of one base name never mix, and one run leaves nothing of   *)
(* an earlier one under its names (nfs_server_utils.go:147-170).           *)
(***************************************************************************)
LastWins ==
  phase = "done" =>
    \A e \in Wanted \ overlooked :
      /\ report[e] # "none"
      /\ \/ owner[Name[e]] = e
         \/ \E f \in Wanted \ overlooked :
              f > e /\ Name[f] = Name[e] /\ owner[Name[e]] = f
      /\ \A i \in 1 .. Len(share[Name[e]]) : share[Name[e]][i] # 0

\* What is on the share under a name: of an earlier run, being written, or of
\* an entry that the tool said it copied.
Held(n) ==
  LET e == owner[n]
  IN  CASE e = 0 -> <<"old", 0>>
        [] e # 0 /\ report[e] = "none" -> <<"partial", 0>>
        [] e # 0 /\ report[e] # "none" /\ share[n] = Whole(e) -> <<"entry", e>>
        [] /\ e # 0 /\ report[e] # "none" /\ share[n] # Whole(e)
           /\ Len(share[n]) # Size[e] \/ e \in cut -> <<"damaged", 0>>
        [] OTHER -> <<"mixed", 0>>

Promise == INSTANCE CopyPromise WITH
  Absent <- <<"absent", 0>>, Partial <- <<"partial", 0>>, Damaged <- <<"damaged", 0>>,
  stage <- IF phase \in {"send", "copy"} THEN "file" ELSE phase,
  source <- [e \in Entry |-> IF e \in Wanted THEN <<"entry", e>> ELSE <<"absent", 0>>],
  share <- [n \in Names |-> Held(n)]

(***************************************************************************)
(* The copy keeps the promise to main: block by block, by short transfers  *)
(* and the fallback, it leaves each file that was reported as copied       *)
(* either whole or damaged: of another length, or of a source that was cut *)
(* short meanwhile; no other is touched (nfs_server_utils.go:55-170).      *)
(***************************************************************************)
KeepsPromise == Promise!Spec

(***************************************************************************)
(* The walk ends, by success or by failure: a call of sendfile makes       *)
(* progress or ends its loop, even behind a source that was cut short      *)
(* (nfs_server_utils.go:71-88, 148-169).                                   *)
(***************************************************************************)
WalkEnds == <>(phase \in {"done", "failed"})

-----------------------------------------------------------------------------
(* The inductive invariant behind Truncated *)

\* Entries are reported in the order of the walk, each behind its copy.
Reported == \A e \in Entry : report[e] # "none" => e < at

Sending ==
  phase = "send" =>
    /\ offset = 2 * Len(share[Target])
    /\ Size[at] > Chunk => Len(share[Target]) < Size[at]

Owned ==
  /\ phase \in {"send", "copy"} => owner[Target] = at
  /\ \A n \in Names : owner[n] # 0 => Name[owner[n]] = n

IInv == TypeOK /\ Reported /\ Sending /\ Owned /\ Truncated

-----------------------------------------------------------------------------
(* The inductive invariant behind LengthTells, FallbackKeepsSource and      *)
(* LastWins                                                                *)

\* The file's last k blocks are the first k of the source.
EndsWith(file, k) ==
  k <= Len(file) /\ \A i \in 1 .. k : file[Len(file) - k + i] = i

\* A file as long as its source while sendfile is at it came by one call.
Growing ==
  /\ phase = "send" =>
       /\ Len(share[Target]) <= Size[at]
       /\ Len(share[Target]) = Size[at] => Intact(at)
  /\ phase = "copy" => offset <= Size[at] /\ EndsWith(share[Target], offset)

Fallen ==
  \A e \in Entry \ cut :
    There(e) /\ report[e] = "copy" => EndsWith(share[Name[e]], Size[e])

\* What the walk has passed is on the share, unless a later entry took its place.
Passed ==
  /\ phase = "done" => at = N + 1
  /\ overlooked \subseteq 1 .. at - 1
  /\ \A n \in Names : owner[n] <= at
  /\ phase \in {"prompt", "walk"} => \A n \in Names : owner[n] < at
  /\ \A e \in Wanted \ overlooked :
       e < at =>
         /\ report[e] # "none"
         /\ \/ owner[Name[e]] = e
            \/ \E f \in Wanted \ overlooked :
                 f > e /\ Name[f] = Name[e] /\ owner[Name[e]] = f

\* What this run made holds no block of an earlier one.
Fresh ==
  \A n \in Names :
    owner[n] # 0 => \A i \in 1 .. Len(share[n]) : share[n][i] # 0

Contents == Growing /\ LengthTells /\ Fallen /\ Passed /\ Fresh

-----------------------------------------------------------------------------
(* The measure behind WalkEnds *)

\* How far the copy of one entry is.
Place ==
  CASE phase = "prompt" -> 1
    [] phase = "walk"   -> 2
    [] phase = "send"   -> 3
    [] phase = "copy"   -> 4
    [] OTHER            -> 5

\* A step goes to the next entry, or on with this one, or moves the offset,
\* which has not reached the end of the source before it, or cuts a source.
Further ==
  \/ at < at'
  \/ at' = at /\ Place < Place'
  \/ at' = at /\ Place' = Place /\ offset < offset' /\ offset < Size[at]
  \/ at' = at /\ Place' = Place /\ offset' = offset /\ cut \subseteq cut' /\ cut # cut'

-----------------------------------------------------------------------------
(* What the tool says *)

\* What the tool says behind the sendfile loop (nfs_server_utils.go:119):
\* "Copied %s to %s using sendfile".
CopiedIsIntact ==
  \A e \in Entry : There(e) /\ report[e] = "sendfile" => Intact(e)
=============================================================================
