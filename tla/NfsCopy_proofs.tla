--------------------------- MODULE NfsCopy_proofs ---------------------------
(***************************************************************************)
(* For any directory and any chunk size: the sendfile loop counts every    *)
(* block twice, a file larger than the chunk arrives truncated, a bad copy *)
(* of a source left alone always has another length, the fallback sends    *)
(* the whole source, a name ends as the last entry that has it, and        *)
(* NfsCopy implements CopyPromise.                                         *)
(***************************************************************************)
EXTENDS NfsCopy, TLAPS, SequenceTheorems

USE DEF Entry

LEMMA TypeStep == TypeOK /\ [Next]_vars => TypeOK'
<1> SUFFICES ASSUME TypeOK, [Next]_vars PROVE TypeOK'
  OBVIOUS
<1> USE DirectoryAssumption DEF TypeOK
<1>1. ASSUME NEW n \in Nat, at \in Entry PROVE
        [share EXCEPT ![Target] = @ \o [i \in 1 .. n |-> offset + i]]
          \in [Names -> Seq(Nat)]
  <2>1. [i \in 1 .. n |-> offset + i] \in Seq(Nat)
    OBVIOUS
  <2>2. Target \in Names
    BY <1>1 DEF Target
  <2>3. share[Target] \o [i \in 1 .. n |-> offset + i] \in Seq(Nat)
    BY <2>1, <2>2
  <2> QED  BY <2>3
<1>0. at \in Entry => at + 1 \in 1 .. N + 1
  OBVIOUS
<1>2. CASE Prompt \/ PromptFails
  BY <1>2 DEF Prompt, PromptFails
<1>3. CASE Skip \/ Overlook
  BY <1>0, <1>3 DEF Skip, Overlook
<1>4. CASE WalkDone \/ Over \/ UNCHANGED vars
  BY <1>4 DEF WalkDone, Over, vars
<1>5. CASE OpenFile
  <2>0. at \in 0 .. N /\ <<>> \in Seq(Nat)
    BY <1>5 DEF OpenFile, Open
  <2>1. share' \in [Names -> Seq(Nat)]
    BY <1>5, <2>0 DEF OpenFile, Open
  <2>2. owner' \in [Names -> 0 .. N]
    BY <1>5, <2>0 DEF OpenFile, Open
  <2> QED  BY <1>5, <2>1, <2>2 DEF OpenFile, Open
<1>6. CASE OpenFails \/ CopyFails
  BY <1>6 DEF OpenFails, CopyFails, Fails
<1>7. CASE Sendfile
  <2>1. PICK n \in 1 .. Size[at] - offset : Write(n) /\ offset' = (offset + n) + n
    BY <1>7 DEF Sendfile, Send
  <2>2. at \in Entry /\ Size[at] \in Nat
    BY <1>7 DEF Sendfile, Send
  <2>3. n \in Nat
    BY <2>2
  <2>4. share' \in [Names -> Seq(Nat)]
    BY <1>1, <2>1, <2>2, <2>3 DEF Write
  <2>5. offset' \in Nat
    BY <2>1, <2>3
  <2> QED  BY <1>7, <2>4, <2>5 DEF Sendfile, Send
<1>8. CASE SendDone \/ SendNothing \/ CopyDone
  <2>1. \E how \in {"sendfile", "copy"} : report' = [report EXCEPT ![at] = how]
    BY <1>8 DEF SendDone, SendNothing, CopyDone, Copied
  <2>2. report' \in [Entry -> {"none", "sendfile", "copy"}]
    BY <2>1
  <2>3. at \in Entry /\ at' = at + 1
    BY <1>8 DEF SendDone, SendNothing, CopyDone, Copied
  <2> QED  BY <1>0, <1>8, <2>2, <2>3 DEF SendDone, SendNothing, CopyDone, Copied
<1>9. CASE SendFails
  BY <1>9 DEF SendFails
<1>10. CASE CopyBlock
  <2>1. share' \in [Names -> Seq(Nat)]
    BY <1>1, <1>10 DEF CopyBlock, Write
  <2>2. offset + 1 \in Nat
    OBVIOUS
  <2> QED  BY <1>10, <2>1, <2>2 DEF CopyBlock
<1>11. CASE CutShort
  BY <1>11 DEF CutShort
<1> QED  BY <1>2, <1>3, <1>4, <1>5, <1>6, <1>7, <1>8, <1>9, <1>10, <1>11
         DEF Next, GoesOn, GoesWrong

\* Only the source that is being copied is seen to be cut short.
LEMMA CutStays ==
  ASSUME [Next]_vars, NEW e, e # at
  PROVE  e \in cut' <=> e \in cut
<1>1. cut' = cut \/ CutShort
  BY DEF Next, GoesOn, GoesWrong, Prompt, PromptFails, Skip, Overlook, WalkDone,
    OpenFile, Open, OpenFails, Fails, Sendfile, Send, SendNothing, SendDone,
    SendFails, CopyBlock, CopyDone, Copied, CopyFails, Over, vars
<1> QED  BY <1>1 DEF CutShort

\* What a step may change of an entry that was reported before.
LEMMA ThereStays ==
  ASSUME IInv, [Next]_vars, NEW e \in Entry, There(e)', e < at
  PROVE  There(e) /\ report'[e] = report[e] /\ share'[Name[e]] = share[Name[e]]
<1> USE DirectoryAssumption DEF IInv, TypeOK, There
<1>1. CASE OpenFile
  BY <1>1 DEF OpenFile, Open, Target
<1>2. CASE Sendfile
  <2>1. Target # Name[e]
    BY <1>2 DEF Sendfile, Send, Owned
  <2> QED  BY <1>2, <2>1 DEF Sendfile, Send, Write
<1>3. CASE CopyBlock
  <2>1. Target # Name[e]
    BY <1>3 DEF CopyBlock, Owned
  <2> QED  BY <1>3, <2>1 DEF CopyBlock, Write
<1>4. CASE SendDone \/ SendNothing \/ CopyDone
  BY <1>4, SMTT(30) DEF SendDone, SendNothing, CopyDone, Copied
<1>5. CASE UNCHANGED <<share, owner, report>>
  BY <1>5
<1> QED  BY <1>1, <1>2, <1>3, <1>4, <1>5 DEF Next, GoesOn, GoesWrong, Prompt, PromptFails, Skip,
  Overlook, WalkDone, OpenFails, Fails, SendFails, CopyFails, CutShort, Over, vars

\* Half the steps of the offset are blocks; a large file stays short.
LEMMA SendingStep == IInv /\ [Next]_vars => Sending'
<1> SUFFICES ASSUME IInv, [Next]_vars, phase' = "send" PROVE Sending'
  BY DEF Sending
<1> USE DirectoryAssumption DEF IInv, TypeOK
<1>1. CASE OpenFile
  <2>1. at' = at /\ at \in Entry /\ offset' = 0 /\ share'[Target] = <<>>
    BY <1>1 DEF OpenFile, Open, Target
  <2>2. Len(<<>>) = 0
    OBVIOUS
  <2> QED  BY <2>1, <2>2 DEF Sending, Target
<1>2. CASE Sendfile
  <2>1. PICK n \in 1 .. Size[at] - offset :
          n <= Chunk /\ Write(n) /\ offset' = (offset + n) + n
    BY <1>2 DEF Sendfile, Send
  <2>2. at' = at /\ at \in Entry /\ Size[at] \in Nat /\ phase = "send"
    BY <1>2 DEF Sendfile, Send
  <2> DEFINE l == Len(share[Target])
  <2>3. l \in Nat /\ offset = 2 * l
    BY <2>2 DEF Sending, Target
  <2>4. Len(share'[Target]) = l + n
    <3>1. [i \in 1 .. n |-> offset + i] \in Seq(Nat) /\ n \in Nat
      BY <2>2
    <3>2. Len([i \in 1 .. n |-> offset + i]) = n
      BY <3>1
    <3>3. share'[Target] = share[Target] \o [i \in 1 .. n |-> offset + i]
      BY <2>1, <2>2 DEF Write, Target
    <3> QED  BY <2>2, <3>1, <3>2, <3>3 DEF Target
  <2> HIDE DEF l
  <2>5. offset' = 2 * (l + n)
    BY <2>1, <2>2, <2>3
  <2>6. Size[at] > Chunk => l + n < Size[at]
    <3>1. n \in Nat /\ n <= Size[at] - 2 * l
      BY <2>2, <2>3
    <3> QED  BY <2>1, <2>2, <2>3, <3>1
  <2> QED  BY <2>2, <2>4, <2>5, <2>6 DEF Sending, Target
<1>3. CASE CutShort \/ UNCHANGED vars
  BY <1>3 DEF CutShort, vars, Sending, Target
<1> QED  BY <1>1, <1>2, <1>3 DEF Next, GoesOn, GoesWrong, Prompt, PromptFails, Skip, Overlook,
  WalkDone, OpenFails, Fails, SendDone, SendNothing, CutShort, SendFails, CopyBlock, CopyDone, Copied,
  CopyFails, Over

LEMMA TruncatedStep == IInv /\ [Next]_vars => Truncated'
<1> SUFFICES ASSUME IInv, [Next]_vars, NEW e \in Entry, There(e)',
                    report'[e] = "sendfile", Size[e] > Chunk
             PROVE  Len(share'[Name[e]]) < Size[e]
  BY DEF Truncated
<1>1. CASE e < at
  BY <1>1, ThereStays DEF IInv, Truncated
<1>2. CASE ~ e < at
  <2>1. report[e] = "none"
    BY <1>2 DEF IInv, Reported
  <2>2. (SendDone \/ SendNothing) /\ e = at
    BY <2>1, DirectoryAssumption DEF Next, GoesOn, GoesWrong, Prompt, PromptFails, Skip, Overlook,
      WalkDone, OpenFile, Open, OpenFails, Fails, Sendfile, Send, SendDone,
      SendNothing, CutShort, SendFails, CopyBlock, CopyDone, Copied, CopyFails, Over, vars, IInv, TypeOK
  <2> QED  BY <2>2 DEF SendDone, SendNothing, Copied, IInv, Sending, Target
<1> QED  BY <1>1, <1>2

LEMMA OrderStep == IInv /\ [Next]_vars => Reported' /\ Owned'
<1> SUFFICES ASSUME IInv, [Next]_vars PROVE Reported' /\ Owned'
  OBVIOUS
<1> USE DirectoryAssumption DEF IInv, TypeOK, Reported, Owned, Target
<1>1. CASE Skip \/ Overlook
  BY <1>1 DEF Skip, Overlook
<1>2. CASE SendDone \/ SendNothing \/ CopyDone
  <2>1. at \in Entry /\ at' = at + 1 /\ phase' = "walk" /\ owner' = owner
    BY <1>2 DEF SendDone, SendNothing, CopyDone, Copied
  <2>2. ASSUME NEW e \in Entry, e # at PROVE report'[e] = report[e]
    BY <1>2, <2>2 DEF SendDone, SendNothing, CopyDone, Copied
  <2>3. Owned'
    BY <2>1 DEF Owned
  <2>4. Reported'
    BY <2>1, <2>2
  <2> QED  BY <2>3, <2>4
<1>3. CASE OpenFile
  BY <1>3 DEF OpenFile, Open
<1>4. CASE Sendfile \/ CopyBlock \/ SendFails \/ CutShort
  BY <1>4 DEF Sendfile, Send, CopyBlock, SendFails, CutShort
<1>5. CASE UNCHANGED <<at, report, owner>> /\ phase' \notin {"send", "copy"}
  BY <1>5
<1>6. CASE UNCHANGED vars
  BY <1>6 DEF vars
<1> QED  BY <1>1, <1>2, <1>3, <1>4, <1>5, <1>6 DEF Next, GoesOn, GoesWrong, Prompt, PromptFails,
  WalkDone, OpenFails, Fails, CopyFails, Over

LEMMA Invariance == Spec => []IInv
<1>1. Init => IInv
  <2> SUFFICES ASSUME Init PROVE IInv
    OBVIOUS
  <2>1. TypeOK
    <3>1. <<>> \in Seq(Nat) /\ <<0>> \in Seq(Nat)
      OBVIOUS
    <3>2. share \in [Names -> Seq(Nat)]
      BY <3>1 DEF Init
    <3> QED  BY <3>2, DirectoryAssumption DEF Init, TypeOK
  <2> QED  BY <2>1 DEF Init, IInv, Reported, Sending, Owned, Truncated, There
<1>2. IInv /\ [Next]_vars => IInv'
  BY TypeStep, SendingStep, TruncatedStep, OrderStep DEF IInv
<1> QED  BY <1>1, <1>2, PTL DEF Spec

\* Every variable keeps its type.
THEOREM TypeCorrect == Spec => []TypeOK
<1>1. IInv => TypeOK
  BY DEF IInv
<1> QED  BY Invariance, <1>1, PTL

\* No file larger than the chunk survives sendfile (nfs_server_utils.go:70-88).
THEOREM LargeFilesTruncated == Spec => []Truncated
<1>1. IInv => Truncated
  BY DEF IInv
<1> QED  BY Invariance, <1>1, PTL

-----------------------------------------------------------------------------
(* What is in the files *)

\* A write keeps what the file had and puts the source's next blocks behind it.
LEMMA Appended ==
  ASSUME TypeOK, at \in Entry, NEW n \in Nat, Write(n)
  PROVE  LET old == share[Target]  new == share'[Target] IN
         /\ Len(new) = Len(old) + n
         /\ \A k \in 1 .. Len(old) : new[k] = old[k]
         /\ \A i \in 1 .. n : new[Len(old) + i] = offset + i
         /\ \A m \in Names : m # Target => share'[m] = share[m]
<1> USE DirectoryAssumption DEF TypeOK
<1> DEFINE old == share[Target]
           more == [i \in 1 .. n |-> offset + i]
<1>1. more \in Seq(Nat) /\ Len(more) = n
  OBVIOUS
<1>2. Target \in Names /\ old \in Seq(Nat)
  BY DEF Target
<1>3. share'[Target] = old \o more /\ \A m \in Names : m # Target => share'[m] = share[m]
  BY <1>2 DEF Write
<1>4. \A i \in 1 .. n : more[i] = offset + i
  OBVIOUS
<1> HIDE DEF old, more
<1>5. Len(old) \in Nat
  BY <1>2, LenProperties
<1>6. /\ Len(old \o more) = Len(old) + n
      /\ \A k \in 1 .. Len(old) + n :
           (old \o more)[k] = IF k <= Len(old) THEN old[k] ELSE more[k - Len(old)]
  BY <1>1, <1>2, ConcatProperties
<1>7. /\ \A k \in 1 .. Len(old) : k \in 1 .. Len(old) + n /\ k <= Len(old)
      /\ \A i \in 1 .. n : /\ Len(old) + i \in 1 .. Len(old) + n
                            /\ ~ Len(old) + i <= Len(old)
                            /\ (Len(old) + i) - Len(old) = i
  BY <1>5
<1>8. /\ \A k \in 1 .. Len(old) : (old \o more)[k] = old[k]
      /\ \A i \in 1 .. n : (old \o more)[Len(old) + i] = more[i]
  BY <1>6, <1>7
<1> QED  BY <1>3, <1>4, <1>6, <1>8 DEF old

LEMMA EndOfFile ==
  ASSUME NEW l \in Nat, NEW k \in Nat, NEW n \in Nat, l + k = n,
         NEW s, \A i \in 1 .. n : s[i] \in Nat
  PROVE  /\ SubSeq(s, l + 1, n) \in Seq(Nat)
         /\ Len(SubSeq(s, l + 1, n)) = k
         /\ \A i \in 1 .. k : SubSeq(s, l + 1, n)[i] = s[l + i]
<1> DEFINE m == l + 1
<1>1. m \in Int /\ n \in Int /\ \A i \in m .. n : s[i] \in Nat
  OBVIOUS
<1>2. n - m + 1 = k /\ (m <= n <=> k # 0) /\ \A i \in 1 .. k : m + i - 1 = l + i
  OBVIOUS
<1> HIDE DEF m
<1>3. /\ SubSeq(s, m, n) \in Seq(Nat)
      /\ Len(SubSeq(s, m, n)) = IF m <= n THEN n - m + 1 ELSE 0
      /\ \A i \in 1 .. n - m + 1 : SubSeq(s, m, n)[i] = s[m + i - 1]
  BY <1>1, SubSeqProperties
<1>4. SubSeq(s, m, n) \in Seq(Nat) /\ Len(SubSeq(s, m, n)) = k
  BY <1>2, <1>3
<1>5. \A i \in 1 .. k : SubSeq(s, m, n)[i] = s[l + i]
  BY <1>2, <1>3
<1> QED  BY <1>4, <1>5 DEF m

\* A sequence that holds the numbers of its places is all of a source.
LEMMA Identity ==
  ASSUME NEW e \in Entry, NEW s \in Seq(Nat), Len(s) = Size[e],
         \A i \in 1 .. Size[e] : s[i] = i
  PROVE  s = Whole(e)
<1>1. Size[e] \in Nat
  BY DirectoryAssumption
<1>2. Whole(e) \in Seq(Nat) /\ Len(Whole(e)) = Size[e]
  BY <1>1 DEF Whole
<1>3. \A i \in 1 .. Size[e] : Whole(e)[i] = i
  BY DEF Whole
<1> QED  BY <1>2, <1>3, SeqEqual

LEMMA GrowingStep == TypeOK /\ Sending /\ Growing /\ [Next]_vars => Growing'
<1> SUFFICES ASSUME TypeOK, Sending, Growing, [Next]_vars PROVE Growing'
  OBVIOUS
<1> USE DirectoryAssumption DEF TypeOK
<1>1. CASE OpenFile
  <2>1. /\ at' = at /\ at \in Entry /\ phase' = "send"
        /\ share'[Target] = <<>>
    BY <1>1 DEF OpenFile, Open, Target
  <2>2. Size[at] = 0 => <<>> = Whole(at)
    BY <2>1 DEF Whole
  <2> QED  BY <2>1, <2>2 DEF Growing, Intact, Target
<1>2. CASE Sendfile
  <2>1. PICK n \in 1 .. Size[at] - offset : Write(n)
    BY <1>2 DEF Sendfile, Send
  <2>2. /\ at' = at /\ at \in Entry /\ Size[at] \in Nat
        /\ phase = "send" /\ phase' = "send"
    BY <1>2 DEF Sendfile, Send
  <2> DEFINE l == Len(share[Target])
             new == share'[Target]
  <2>3. l \in Nat /\ offset = 2 * l
    BY <2>2 DEF Sending, Target
  <2>4. n \in Nat \ {0} /\ n <= Size[at] - 2 * l
    BY <2>2, <2>3
  <2>5. /\ Len(new) = l + n
        /\ \A i \in 1 .. n : new[l + i] = offset + i
    BY <2>1, <2>2, <2>4, Appended
  <2>6. new \in Seq(Nat)
    BY <2>2, TypeStep DEF Target
  <2> HIDE DEF l, new
  <2>7. Len(new) <= Size[at] /\ (Len(new) = Size[at] => l = 0 /\ n = Size[at])
    BY <2>2, <2>3, <2>4, <2>5
  <2>8. ASSUME Len(new) = Size[at] PROVE new = Whole(at)
    <3>1. l = 0 /\ n = Size[at] /\ offset = 0
      BY <2>3, <2>7, <2>8
    <3>2. \A i \in 1 .. Size[at] : new[i] = i
      <4>1. \A i \in 1 .. Size[at] : l + i = i /\ offset + i = i
        BY <3>1
      <4> QED  BY <2>5, <3>1, <4>1
    <3> QED  BY <2>2, <2>6, <2>8, <3>2, Identity
  <2> QED  BY <2>2, <2>7, <2>8 DEF Growing, Intact, Target, new, Whole
<1>3. CASE SendFails
  <2>1. at' = at /\ at \in Entry /\ share' = share /\ offset' = 0 /\ phase' = "copy"
    BY <1>3 DEF SendFails
  <2>2. Len(share[Target]) \in Nat
    BY <2>1 DEF Target
  <2> QED  BY <2>1, <2>2 DEF Growing, EndsWith, Target
<1>4. CASE CopyBlock
  <2>1. /\ at' = at /\ at \in Entry /\ phase = "copy" /\ phase' = "copy"
        /\ Write(1) /\ offset' = offset + 1 /\ offset + 1 <= Size[at]
    BY <1>4 DEF CopyBlock
  <2> DEFINE old == share[Target]
             new == share'[Target]
  <2>2. /\ Len(new) = Len(old) + 1
        /\ \A k \in 1 .. Len(old) : new[k] = old[k]
        /\ \A i \in 1 .. 1 : new[Len(old) + i] = offset + i
    <3>1. 1 \in Nat
      OBVIOUS
    <3> QED  BY <2>1, <3>1, Appended
  <2>3. Len(old) \in Nat /\ offset \in Nat
    BY <2>1 DEF Target
  <2>4. offset <= Len(old) /\ \A i \in 1 .. offset : old[Len(old) - offset + i] = i
    BY <2>1 DEF Growing, EndsWith
  <2> HIDE DEF old, new
  <2>5. ASSUME NEW i \in 1 .. offset + 1
        PROVE  new[Len(new) - (offset + 1) + i] = i
    <3>1. Len(new) - (offset + 1) + i = Len(old) - offset + i
      BY <2>2, <2>3
    <3>2. CASE i \in 1 .. offset
      <4>1. Len(old) - offset + i \in 1 .. Len(old)
        BY <2>3, <2>4, <3>2
      <4> QED  BY <2>2, <2>4, <3>1, <3>2, <4>1
    <3>3. CASE i = offset + 1
      BY <2>2, <2>3, <3>1, <3>3
    <3> QED  BY <2>3, <3>2, <3>3
  <2>6. EndsWith(new, offset + 1)
    BY <2>2, <2>3, <2>4, <2>5 DEF EndsWith
  <2> QED  BY <2>1, <2>6 DEF Growing, Target, new
<1>5. CASE phase' \notin {"send", "copy"}
  BY <1>5 DEF Growing
<1>6. CASE CutShort \/ UNCHANGED vars
  BY <1>6 DEF CutShort, vars, Growing, EndsWith, Intact, Whole, Target
<1> QED  BY <1>1, <1>2, <1>3, <1>4, <1>5, <1>6 DEF Next, GoesOn, GoesWrong, Prompt, PromptFails,
  Skip, Overlook, WalkDone, OpenFails, Fails, SendDone, SendNothing, CutShort, CopyDone, Copied, CopyFails,
  Over

\* An entry that is reported now and was not before is the one the walk is at.
LEMMA JustCopied ==
  ASSUME IInv, [Next]_vars, NEW e \in Entry, report'[e] # "none", ~ e < at
  PROVE  /\ e = at /\ UNCHANGED <<share, owner, cut>>
         /\ \/ (SendDone \/ SendNothing) /\ report'[e] = "sendfile"
            \/ CopyDone /\ report'[e] = "copy"
<1>1. report[e] = "none"
  BY DEF IInv, Reported
<1>2. (SendDone \/ SendNothing \/ CopyDone) /\ e = at
  BY <1>1, DirectoryAssumption DEF Next, GoesOn, GoesWrong, Prompt, PromptFails, Skip, Overlook,
    WalkDone, OpenFile, Open, OpenFails, Fails, Sendfile, Send, SendDone,
    SendNothing, CutShort, SendFails, CopyBlock, CopyDone, Copied, CopyFails, Over, vars, IInv, TypeOK
<1> QED  BY <1>2 DEF SendDone, SendNothing, CopyDone, Copied, IInv, TypeOK

\* A file that ends with all of a source and is as long is that source.
LEMMA AllOfIt ==
  ASSUME TypeOK, NEW e \in Entry, EndsWith(share[Name[e]], Size[e]),
         Len(share[Name[e]]) = Size[e]
  PROVE  Intact(e)
<1> USE DirectoryAssumption DEF TypeOK
<1> DEFINE file == share[Name[e]]
<1>1. file \in Seq(Nat) /\ Size[e] \in Nat
  OBVIOUS
<1>2. \A i \in 1 .. Size[e] : file[i] = i
  <2>1. \A i \in 1 .. Size[e] : Len(file) - Size[e] + i = i
    BY <1>1
  <2> QED  BY <2>1 DEF EndsWith
<1>3. file = Whole(e)
  BY <1>1, <1>2, Identity
<1> QED  BY <1>3 DEF Intact

LEMMA ArrivedStep ==
  IInv /\ Contents /\ [Next]_vars => LengthTells' /\ Fallen'
<1> SUFFICES ASSUME IInv, Contents, [Next]_vars, NEW e \in Entry \ cut', There(e)'
             PROVE  /\ Len(share'[Name[e]]) = Size[e] => Intact(e)'
                    /\ report'[e] = "copy" => EndsWith(share'[Name[e]], Size[e])
  BY DEF LengthTells, Fallen, EndsWith
<1>1. CASE e < at
  <2>1. e \in Entry \ cut
    BY <1>1, CutStays DEF IInv, TypeOK
  <2>2. There(e) /\ report'[e] = report[e] /\ share'[Name[e]] = share[Name[e]]
    BY <1>1, ThereStays
  <2> QED  BY <2>1, <2>2 DEF Contents, LengthTells, Fallen, Intact, Whole
<1>2. CASE ~ e < at
  <2>1. /\ e = at /\ UNCHANGED <<share, owner, cut>>
        /\ \/ (SendDone \/ SendNothing) /\ report'[e] = "sendfile"
           \/ CopyDone /\ report'[e] = "copy"
    BY <1>2, JustCopied DEF There
  <2>2. CASE (SendDone \/ SendNothing) /\ report'[e] = "sendfile"
    BY <2>1, <2>2 DEF SendDone, SendNothing, Contents, Growing, Intact, Whole, Target
  <2>3. CASE CopyDone /\ report'[e] = "copy"
    <3>0. e \notin cut
      BY <2>1
    <3>1. offset = Size[e] /\ EndsWith(share[Name[e]], offset)
      BY <2>1, <2>3, <3>0, DirectoryAssumption DEF CopyDone, Contents, Growing, Target, IInv, TypeOK
    <3>2. Len(share[Name[e]]) = Size[e] => Intact(e)
      BY <3>1, AllOfIt DEF IInv
    <3> QED  BY <2>1, <3>1, <3>2 DEF Intact, Whole
  <2> QED  BY <2>1, <2>2, <2>3
<1> QED  BY <1>1, <1>2

LEMMA PassedStep == IInv /\ Passed /\ [Next]_vars => Passed'
<1> SUFFICES ASSUME IInv, Passed, [Next]_vars PROVE Passed'
  OBVIOUS
<1> USE DirectoryAssumption DEF IInv, TypeOK
<1> DEFINE Live == Wanted \ overlooked
           Kept(e) == /\ report[e] # "none"
                      /\ \/ owner[Name[e]] = e
                         \/ \E f \in Live :
                              f > e /\ Name[f] = Name[e] /\ owner[Name[e]] = f
<1>0. ASSUME NEW e \in Live, e < at PROVE Kept(e)
  BY <1>0 DEF Passed
<1>1. CASE Skip
  <2>1. /\ at \in Entry \ Wanted /\ at' = at + 1 /\ phase' = "walk"
        /\ phase = "walk" /\ UNCHANGED <<owner, report, overlooked>>
    BY <1>1 DEF Skip
  <2>2. ASSUME NEW e \in Live, e < at' PROVE Kept(e)'
    <3>0. e \in Entry /\ e # at /\ e < at + 1
      BY <2>1, <2>2
    <3>1. e < at
      BY <3>0
    <3>2. Kept(e)
      BY <1>0, <3>1
    <3> QED  BY <2>1, <3>2
  <2>3. overlooked' \subseteq 1 .. at' - 1
    BY <2>1 DEF Passed
  <2>4. \A m \in Names : owner'[m] < at'
    BY <2>1 DEF Passed
  <2> QED  BY <2>1, <2>2, <2>3, <2>4 DEF Passed
<1>2. CASE Overlook
  <2>1. /\ at \in Entry /\ at' = at + 1 /\ overlooked' = overlooked \cup {at}
        /\ phase' = "walk" /\ phase = "walk" /\ UNCHANGED <<owner, report>>
    BY <1>2 DEF Overlook
  <2>2. overlooked' \subseteq 1 .. at' - 1
    BY <2>1 DEF Passed
  <2>3. ASSUME NEW e \in Wanted \ overlooked', e < at' PROVE Kept(e)'
    <3>1. e \in Live /\ e < at
      BY <2>1, <2>3
    <3>2. Kept(e)
      BY <1>0, <3>1
    <3>3. owner[Name[e]] < at
      BY <2>1, <3>1 DEF Passed
    <3>4. \A f \in Live : owner[Name[e]] = f => f \in Wanted \ overlooked'
      BY <2>1, <3>3
    <3> QED  BY <2>1, <3>2, <3>4
  <2>4. \A m \in Names : owner'[m] < at'
    BY <2>1 DEF Passed
  <2> QED  BY <2>1, <2>2, <2>3, <2>4 DEF Passed
<1>3. CASE OpenFile
  <2>1. /\ at \in Wanted /\ at' = at /\ phase' = "send"
        /\ owner' = [owner EXCEPT ![Target] = at]
        /\ UNCHANGED <<report, overlooked>>
    BY <1>3 DEF OpenFile, Open
  <2>2. at \in Live
    BY <2>1 DEF Passed
  <2>3. ASSUME NEW e \in Live, e < at PROVE Kept(e)'
    <3>1. Kept(e)
      BY <1>0, <2>3
    <3>2. CASE Name[e] = Target
      <4>1. owner'[Name[e]] = at /\ at > e /\ Name[at] = Name[e]
        BY <2>1, <2>3, <3>2 DEF Target
      <4> QED  BY <2>1, <2>2, <3>1, <4>1
    <3>3. CASE Name[e] # Target
      BY <2>1, <3>1, <3>3
    <3> QED  BY <3>2, <3>3
  <2>4. \A m \in Names : owner'[m] <= at'
    BY <2>1 DEF Passed
  <2> QED  BY <2>1, <2>3, <2>4 DEF Passed
<1>4. CASE SendDone \/ SendNothing \/ CopyDone
  <2>1. /\ at \in Wanted /\ at' = at + 1 /\ phase' = "walk"
        /\ owner[Target] = at
        /\ UNCHANGED <<owner, overlooked>>
    BY <1>4 DEF SendDone, SendNothing, CopyDone, Copied, Owned
  <2>2. \A e \in Entry : e # at => report'[e] = report[e]
    BY <1>4 DEF SendDone, SendNothing, CopyDone, Copied
  <2>3. report'[at] # "none"
    BY <1>4, <2>1 DEF SendDone, SendNothing, CopyDone, Copied
  <2>4. ASSUME NEW e \in Live, e < at' PROVE Kept(e)'
    <3>1. CASE e = at
      BY <2>1, <2>3, <3>1 DEF Target
    <3>2. CASE e < at
      <4>1. Kept(e) /\ report'[e] = report[e]
        BY <1>0, <2>2, <3>2
      <4> QED  BY <2>1, <4>1
    <3>3. e = at \/ e < at
      BY <2>1, <2>4
    <3> QED  BY <3>1, <3>2, <3>3
  <2>6. \A m \in Names : owner'[m] < at'
    BY <2>1 DEF Passed
  <2>5. overlooked' \subseteq 1 .. at' - 1
    BY <2>1 DEF Passed
  <2> QED  BY <2>1, <2>4, <2>5, <2>6 DEF Passed
<1>5. CASE /\ UNCHANGED <<at, owner, report, overlooked>>
           /\ phase' = "done" => at = N + 1
           /\ phase' \in {"prompt", "walk"} => phase \in {"prompt", "walk"}
  BY <1>5 DEF Passed
<1> QED  BY <1>1, <1>2, <1>3, <1>4, <1>5 DEF Next, GoesOn, GoesWrong, Prompt, PromptFails,
  WalkDone, OpenFails, Fails, Sendfile, Send, SendFails, CopyBlock, CopyFails,
  CutShort, Over, vars, Passed

LEMMA FreshStep == IInv /\ Fresh /\ [Next]_vars => Fresh'
<1> SUFFICES ASSUME IInv, Fresh, [Next]_vars PROVE Fresh'
  OBVIOUS
<1> USE DirectoryAssumption DEF IInv, TypeOK
<1>1. CASE OpenFile
  <2>1. /\ share' = [share EXCEPT ![Target] = <<>>]
        /\ owner' = [owner EXCEPT ![Target] = at]
    BY <1>1 DEF OpenFile, Open
  <2>2. Len(<<>>) = 0
    OBVIOUS
  <2> QED  BY <2>1, <2>2 DEF Fresh
<1>2. ASSUME at \in Entry, Owned, phase \in {"send", "copy"}, NEW n \in Nat, Write(n),
             owner' = owner
      PROVE  Fresh'
  <2> DEFINE old == share[Target]
             new == share'[Target]
  <2>1. Target \in Names /\ owner[Target] # 0
    BY <1>2 DEF Target, Owned
  <2>2. old \in Seq(Nat) /\ \A k \in 1 .. Len(old) : old[k] # 0
    BY <2>1 DEF Fresh
  <2>3. /\ Len(new) = Len(old) + n
        /\ \A k \in 1 .. Len(old) : new[k] = old[k]
        /\ \A i \in 1 .. n : new[Len(old) + i] = offset + i
        /\ \A m \in Names : m # Target => share'[m] = share[m]
    BY <1>2, Appended
  <2> HIDE DEF old, new
  <2>5. Len(old) \in Nat
    BY <2>2, LenProperties
  <2>4. ASSUME NEW k \in 1 .. Len(new) PROVE new[k] # 0
    <3>0. k \in 1 .. Len(old) + n
      BY <2>3
    <3>1. CASE k \in 1 .. Len(old)
      BY <2>2, <2>3, <3>1
    <3>2. CASE k \notin 1 .. Len(old)
      <4>1. k - Len(old) \in 1 .. n /\ Len(old) + (k - Len(old)) = k
        BY <2>5, <3>0, <3>2
      <4>2. new[k] = offset + (k - Len(old))
        BY <2>3, <4>1
      <4> QED  BY <4>1, <4>2
    <3> QED  BY <3>1, <3>2
  <2> QED  BY <1>2, <2>3, <2>4 DEF Fresh, new
<1>3. CASE Sendfile
  <2>1. PICK n \in 1 .. Size[at] - offset : Write(n)
    BY <1>3 DEF Sendfile, Send
  <2>2. at \in Entry /\ phase = "send" /\ owner' = owner
    BY <1>3 DEF Sendfile, Send
  <2>3. n \in Nat
    BY <2>2
  <2> QED  BY <1>2, <2>1, <2>2, <2>3
<1>4. CASE CopyBlock
  <2>1. at \in Entry /\ phase = "copy" /\ owner' = owner /\ Write(1)
    BY <1>4 DEF CopyBlock
  <2> QED  BY <1>2, <2>1
<1>5. CASE UNCHANGED <<share, owner>>
  BY <1>5 DEF Fresh
<1> QED  BY <1>1, <1>3, <1>4, <1>5 DEF Next, GoesOn, GoesWrong, Prompt, PromptFails, Skip,
  Overlook, WalkDone, OpenFails, Fails, SendDone, SendNothing, CutShort, SendFails, CopyDone, Copied,
  CopyFails, Over, vars

LEMMA ContentInvariance == Spec => []Contents
<1>1. Init => Contents
  BY DirectoryAssumption DEF Init, Contents, Growing, LengthTells, Fallen, Passed,
    Fresh, There
<1>2. IInv /\ Contents /\ [Next]_vars => Contents'
  BY GrowingStep, ArrivedStep, PassedStep, FreshStep DEF Contents, IInv
<1> QED  BY Invariance, <1>1, <1>2, PTL DEF Spec

\* A reported copy as long as its source equals it, for every chunk size and
\* every sequence of short transfers and fallbacks, unless the source was cut
\* short meanwhile (nfs_server_utils.go:70-144).
THEOREM LengthIsEnough == Spec => []LengthTells
<1>1. Contents => LengthTells
  BY DEF Contents
<1> QED  BY ContentInvariance, <1>1, PTL

\* A file that came by the fallback ends with its whole source
\* (nfs_server_utils.go:123-144).
THEOREM FallbackIsWhole == Spec => []FallbackKeepsSource
<1>1. IInv /\ Contents => FallbackKeepsSource
  <2> SUFFICES ASSUME IInv, Contents, NEW e \in Entry \ cut, There(e), report[e] = "copy"
               PROVE  LET file == share[Name[e]]
                          lead == Len(file) - Size[e]
                      IN  /\ Len(file) >= Size[e]
                          /\ SubSeq(file, lead + 1, Len(file)) = Whole(e)
    BY DEF FallbackKeepsSource
  <2> USE DirectoryAssumption DEF IInv, TypeOK
  <2> DEFINE file == share[Name[e]]
             lead == Len(file) - Size[e]
             part == SubSeq(file, lead + 1, Len(file))
  <2>1. file \in Seq(Nat) /\ Size[e] \in Nat
    OBVIOUS
  <2>2. Size[e] <= Len(file) /\ \A i \in 1 .. Size[e] : file[lead + i] = i
    BY DEF Contents, Fallen, EndsWith
  <2> HIDE DEF file
  <2>3. Len(file) \in Nat /\ \A i \in 1 .. Len(file) : file[i] \in Nat
    BY <2>1, LenProperties
  <2>4. lead \in Nat /\ lead + Size[e] = Len(file)
    BY <2>1, <2>2, <2>3 DEF lead
  <2>5. /\ part \in Seq(Nat)
        /\ Len(part) = Size[e]
        /\ \A i \in 1 .. Size[e] : part[i] = file[lead + i]
    <3>1. /\ SubSeq(file, lead + 1, Len(file)) \in Seq(Nat)
          /\ Len(SubSeq(file, lead + 1, Len(file))) = Size[e]
          /\ \A i \in 1 .. Size[e] :
               SubSeq(file, lead + 1, Len(file))[i] = file[lead + i]
      <4>1. lead + Size[e] = Len(file) /\ Size[e] \in Nat
        BY <2>1, <2>4
      <4> HIDE DEF lead
      <4> QED  BY ONLY <2>3, <2>4, <4>1, EndOfFile
    <3> QED  BY <3>1
  <2>6. part = Whole(e)
    BY <2>2, <2>5, Identity
  <2> QED  BY <2>1, <2>2, <2>3, <2>6 DEF file, lead
<1> QED  BY Invariance, ContentInvariance, <1>1, PTL

\* Behind a walk that succeeded each name is its last entry's
\* (nfs_server_utils.go:147-170).
THEOREM LastEntryWins == Spec => []LastWins
<1>1. IInv /\ Contents => LastWins
  <2> SUFFICES ASSUME IInv, Contents, phase = "done", NEW e \in Wanted \ overlooked
               PROVE  /\ report[e] # "none"
                      /\ \/ owner[Name[e]] = e
                         \/ \E f \in Wanted \ overlooked :
                              f > e /\ Name[f] = Name[e] /\ owner[Name[e]] = f
                      /\ \A i \in 1 .. Len(share[Name[e]]) : share[Name[e]][i] # 0
    BY DEF LastWins
  <2> USE DirectoryAssumption DEF IInv, TypeOK, Contents
  <2>1. e < at
    BY DEF Passed
  <2>2. /\ report[e] # "none"
        /\ \/ owner[Name[e]] = e
           \/ \E f \in Wanted \ overlooked :
                f > e /\ Name[f] = Name[e] /\ owner[Name[e]] = f
    BY <2>1 DEF Passed
  <2>3. owner[Name[e]] # 0 /\ Name[e] \in Names
    BY <2>2
  <2> QED  BY <2>2, <2>3 DEF Fresh
<1> QED  BY Invariance, ContentInvariance, <1>1, PTL

-----------------------------------------------------------------------------
(* The promise to main *)

(* A name that a step leaves alone is held as before. *)
LEMMA HeldStays ==
  ASSUME NEW n \in Names, share'[n] = share[n], owner'[n] = owner[n],
         owner[n] # 0 =>
           /\ report'[owner[n]] = report[owner[n]]
           /\ report[owner[n]] = "none" \/ (owner[n] \in cut' <=> owner[n] \in cut)
  PROVE  Held(n)' = Held(n)
BY DEF Held, Whole

LEMMA PromiseStep ==
  ASSUME IInv, Contents, IInv', Contents', [Next]_vars
  PROVE  [Promise!Next]_(Promise!vars)
<1> USE DirectoryAssumption DEF IInv, TypeOK
<1> DEFINE held == [n \in Names |-> Held(n)]
<1>1. UNCHANGED <<share, owner, report>> => UNCHANGED held
  <2> SUFFICES ASSUME UNCHANGED <<share, owner, report>>, NEW n \in Names
               PROVE  Held(n)' = Held(n)
    OBVIOUS
  <2>1. ASSUME owner[n] # 0, report[owner[n]] # "none"
        PROVE  owner[n] \in cut' <=> owner[n] \in cut
    <3>1. owner[n] \in Entry
      BY <2>1
    <3>2. owner[n] # at
      BY <2>1, <3>1 DEF Reported
    <3> QED  BY <3>2, CutStays
  <2> QED  BY <2>1, HeldStays
<1>2. CASE Prompt \/ PromptFails
  <2>1. Promise!Begin \/ Promise!Refuse
    BY <1>1, <1>2 DEF Prompt, PromptFails, Promise!Begin, Promise!Refuse, Promise!Turns
  <2> QED  BY <2>1 DEF Promise!Next
<1>3. CASE Skip \/ Overlook
  <2>1. Promise!Overlook
    BY <1>1, <1>3 DEF Skip, Overlook, Promise!Overlook, Promise!Passes, Promise!Entry
  <2> QED  BY <2>1 DEF Promise!Next
<1>4. CASE WalkDone
  <2>1. Promise!End
    BY <1>1, <1>4 DEF WalkDone, Promise!End, Promise!Turns
  <2> QED  BY <2>1 DEF Promise!Next
<1>5. CASE OpenFile
  <2>1. /\ at \in Wanted /\ at \in Entry /\ Target \in Names
        /\ owner' = [owner EXCEPT ![Target] = at]
        /\ share' = [share EXCEPT ![Target] = <<>>]
        /\ UNCHANGED <<at, report>>
    BY <1>5 DEF OpenFile, Open, Target
  <2>2. report[at] = "none"
    BY <2>1 DEF Reported
  <2>3. Held(Target)' = <<"partial", 0>>
    BY <2>1, <2>2 DEF Held, Target
  <2>4. \A n \in Names : n # Target => Held(n)' = Held(n)
    BY <1>5, <2>1, HeldStays DEF OpenFile, Open
  <2>5. held' = [held EXCEPT ![Name[at]] = <<"partial", 0>>]
    BY <2>1, <2>3, <2>4 DEF Target
  <2> HIDE DEF held
  <2>6. Promise!Open
    BY <1>5, <2>1, <2>5
       DEF OpenFile, Open, Promise!Open, Promise!Turns, Promise!Entry, held
  <2> QED  BY <2>6 DEF Promise!Next
<1>6. CASE OpenFails
  <2>1. Promise!OpenFails
    BY <1>1, <1>6
       DEF OpenFails, Fails, Promise!OpenFails, Promise!Turns, Promise!Entry
  <2> QED  BY <2>1 DEF Promise!Next
<1>7. CASE Sendfile \/ CopyBlock
  <2> PICK target \in Names : target = Name[at]
    BY <1>7 DEF Sendfile, Send, CopyBlock
  <2>1. /\ phase \in {"send", "copy"} /\ phase' = phase /\ at \in Entry
        /\ UNCHANGED <<at, owner, report, cut>>
        /\ \A n \in Names : n # target => share'[n] = share[n]
    BY <1>7 DEF Sendfile, Send, CopyBlock, Write, Target
  <2>2. owner[target] = at /\ report[at] = "none" /\ at # 0
    BY <2>1 DEF Owned, Reported, Target
  <2>3. Held(target)' = Held(target)
    BY <2>1, <2>2 DEF Held
  <2>4. ASSUME NEW n \in Names
        PROVE  Held(n)' = Held(n)
    <3>1. CASE n = target
      BY <2>3, <3>1
    <3>2. CASE n # target
      BY <2>1, <3>2, HeldStays
    <3> QED  BY <3>1, <3>2
  <2>5. UNCHANGED held
    BY <2>4
  <2> HIDE DEF held
  <2> QED  BY <2>1, <2>5 DEF Promise!vars, held
<1>8. CASE SendDone \/ SendNothing \/ CopyDone
  <2>1. /\ phase \in {"send", "copy"} /\ phase' = "walk" /\ at \in Entry
        /\ at \in Wanted /\ at' = at + 1 /\ UNCHANGED <<share, owner, cut>>
        /\ report'[at] # "none"
        /\ \A e \in Entry : e # at => report'[e] = report[e]
    BY <1>8 DEF SendDone, SendNothing, CopyDone, Copied
  <2> PICK e \in Entry : e = at
    BY <2>1
  <2> PICK target \in Names : target = Name[e]
    OBVIOUS
  <2>2. owner[target] = e /\ e # 0
    BY <2>1 DEF Owned, Target
  <2>3. ASSUME NEW n \in Names, n # target
        PROVE  Held(n)' = Held(n)
    <3>1. owner[n] # 0 => owner[n] \in Entry /\ Name[owner[n]] = n
      <4>1. owner[n] # 0 => Name[owner[n]] = n
        BY DEF Owned
      <4>2. owner[n] \in 0 .. N
        BY ONLY TypeOK, n \in Names DEF TypeOK
      <4> QED  BY ONLY <4>1, <4>2, DirectoryAssumption
    <3>2. owner[n] # 0 => owner[n] # e
      BY <2>3, <3>1
    <3> QED  BY <2>1, <3>1, <3>2, HeldStays
  <2>4. Held(target)' \in {<<"entry", e>>, <<"damaged", 0>>}
    <3>1. owner'[target] = e /\ report'[e] # "none"
      BY <2>1, <2>2
    <3>2. e \notin cut' /\ Len(share'[target]) = Size[e] => share'[target] = Whole(e)
      BY <3>1 DEF Contents, LengthTells, There, Intact, Whole
    <3>3. CASE share'[target] = Whole(e)
      BY <2>2, <3>1, <3>3 DEF Held, Whole
    <3>4. CASE share'[target] # Whole(e)
      BY <2>2, <3>1, <3>2, <3>4 DEF Held, Whole
    <3> QED  BY <3>3, <3>4
  <2>5. \E c \in {<<"entry", at>>, <<"damaged", 0>>} :
          held' = [held EXCEPT ![Name[at]] = c]
    <3>1. held' = [n \in Names |-> Held(n)']
      OBVIOUS
    <3>2. \A n \in Names : held'[n] = IF n = target THEN Held(target)' ELSE held[n]
      BY <2>3
    <3>3. held' = [held EXCEPT ![target] = Held(target)']
      BY <3>1, <3>2
    <3> HIDE DEF held
    <3> QED  BY <2>4, <3>3
  <2> HIDE DEF held
  <2>6. Promise!Copied
    BY <2>1, <2>5 DEF Promise!Copied, Promise!Turns, held
  <2> QED  BY <2>6 DEF Promise!Next
<1>9. CASE CopyFails
  <2>1. Promise!CopyFails
    BY <1>1, <1>9 DEF CopyFails, Fails, Promise!CopyFails, Promise!Turns
  <2> QED  BY <2>1 DEF Promise!Next
<1>10. CASE SendFails \/ CutShort \/ Over \/ UNCHANGED vars
  BY <1>1, <1>10 DEF SendFails, CutShort, Over, vars, Promise!vars
<1> QED  BY <1>2, <1>3, <1>4, <1>5, <1>6, <1>7, <1>8, <1>9, <1>10 DEF Next, GoesOn, GoesWrong

\* The copy keeps the promise of CopyPromise: a walk that goes on behind a
\* file has left it whole or damaged (of another length than its source, or of
\* a source cut short meanwhile), and no other file was touched
\* (nfs_server_utils.go:55-170).
THEOREM Refinement == Spec => KeepsPromise
<1>1. Init => Promise!Init
  BY DEF Init, Promise!Init
<1> QED  BY Invariance, ContentInvariance, <1>1, PromiseStep, PTL
         DEF Spec, KeepsPromise, Promise!Spec

-----------------------------------------------------------------------------
(* The measure *)

LEMMA FurtherStep ==
  ASSUME TypeOK, GoesOn \/ GoesWrong \/ CutShort
  PROVE  Further
<1> USE DEF Further, Place
<1>1. at \in Nat /\ offset \in Nat
  BY DirectoryAssumption DEF TypeOK
<1>2. CASE Prompt \/ PromptFails \/ WalkDone \/ OpenFails \/ CopyFails
  BY <1>2 DEF Prompt, PromptFails, WalkDone, OpenFails, CopyFails, Fails
<1>3. CASE Skip \/ Overlook \/ SendDone \/ SendNothing \/ CopyDone
  BY <1>1, <1>3 DEF Skip, Overlook, SendDone, SendNothing, CopyDone, Copied
<1>4. CASE OpenFile \/ SendFails
  BY <1>4 DEF OpenFile, Open, SendFails
<1>5. CASE Sendfile
  <2>1. phase = "send" /\ phase' = phase /\ at' = at
    BY <1>5 DEF Sendfile, Send
  <2>2. at \in Wanted /\ Size[at] \in Nat
    BY <2>1, DirectoryAssumption DEF TypeOK
  <2>3. PICK n \in 1 .. Size[at] - offset : offset' = (offset + n) + n
    BY <1>5 DEF Sendfile, Send
  <2>4. offset < offset' /\ offset < Size[at]
    BY <1>1, <2>2, <2>3
  <2> QED  BY <2>1, <2>4
<1>6. CASE CopyBlock
  BY <1>1, <1>6 DEF CopyBlock
<1>7. CASE CutShort
  BY <1>7 DEF CutShort
<1> QED  BY <1>2, <1>3, <1>4, <1>5, <1>6, <1>7 DEF GoesOn, GoesWrong

\* However short the transfers are, every step brings the walk nearer to its
\* end or cuts one more source: entries, places, offsets and the sources that
\* can be cut have a bound, and no step lowers the first of them that it
\* changes (nfs_server_utils.go:71-88, 148-169).
THEOREM WalkGetsOn ==
  Spec => [](at <= N + 1 /\ Place <= 5 /\ cut \subseteq Shrinking) /\ [][Further]_vars
<1>1. TypeOK => at <= N + 1 /\ Place <= 5 /\ cut \subseteq Shrinking
  BY DirectoryAssumption DEF TypeOK, Place
<1>2. TypeOK /\ [Next]_vars => [Further]_vars
  BY FurtherStep DEF Next, Over
<1> QED  BY <1>1, <1>2, TypeCorrect, PTL DEF Spec
=============================================================================
