-------------------------- MODULE FtpStore_proofs --------------------------
(***************************************************************************)
(* The uploads of FtpStore: types, and every invariant of its run, for     *)
(* every number of calls, sessions, versions and blocks.                   *)
(*                                                                         *)
(* TimeInv says that nothing is dated later than now, CallInv and          *)
(* ResultInv where a call of which kind and with which result can be,      *)
(* ViewInv that what the server said still holds when it is used, FileInv  *)
(* that a file not older than the local one is a beginning of it, PutInv   *)
(* what the transfer has written so far, StoredInv what is stored under    *)
(* which name after it, FinalInv that the final name is only ever given to *)
(* a complete file.  Each is preserved by one lemma (...Next) with one     *)
(* case per action; actions that need an argument of their own have it in  *)
(* a lemma before.                                                         *)
(***************************************************************************)
EXTENDS FtpStore, SequenceTheorems, TLAPS

\* The assumptions on the bounds, one fact each.
LEMMA Bounds ==
    /\ MaxLen \in Nat \ {0} /\ MaxCalls \in Nat \ {0} /\ MaxSessions \in Nat \ {0}
    /\ MaxVersion \in Nat \ {0} /\ Gap \in Nat \ {0, 1}
  BY BoundsAssumption, TimeAssumption

-----------------------------------------------------------------------------
(* Blocks.                                                                 *)

LEMMA WholeSeq ==
    ASSUME NEW v \in 0 .. MaxVersion, NEW n \in 0 .. MaxLen
    PROVE  Whole(v, n) \in Seq(Block) /\ Len(Whole(v, n)) = n
<1>1. \A i \in 1 .. n : <<v, i>> \in Block
  BY Bounds DEF Block
<1> QED
  BY <1>1 DEF Whole

LEMMA WholeAppend ==
    ASSUME NEW v \in 0 .. MaxVersion, NEW n \in Nat, n < MaxLen
    PROVE  Append(Whole(v, n), <<v, n + 1>>) = Whole(v, n + 1)
<1>1. n \in 0 .. MaxLen /\ n + 1 \in 0 .. MaxLen
  BY Bounds
<1>2. Whole(v, n) \in Seq(Block) /\ Len(Whole(v, n)) = n
  BY <1>1, WholeSeq
<1>3. Whole(v, n + 1) \in Seq(Block) /\ Len(Whole(v, n + 1)) = n + 1
  BY <1>1, WholeSeq
<1>4. <<v, n + 1>> \in Block
  BY <1>1, Bounds DEF Block
<1>5. Append(Whole(v, n), <<v, n + 1>>) \in Seq(Block)
  BY <1>2, <1>4
<1>6. Len(Append(Whole(v, n), <<v, n + 1>>)) = n + 1
  BY <1>2, <1>4, AppendProperties
<1>7. ASSUME NEW i \in 1 .. n + 1
      PROVE  Append(Whole(v, n), <<v, n + 1>>)[i] = Whole(v, n + 1)[i]
  <2>1. CASE i = n + 1
    BY <1>2, <1>4, <2>1, AppendProperties DEF Whole
  <2>2. CASE i # n + 1
    <3>1. i \in 1 .. n
      BY <2>2
    <3> QED
      BY <1>2, <1>4, <3>1, AppendProperties DEF Whole
  <2> QED
    BY <2>1, <2>2
<1> QED
  BY <1>3, <1>5, <1>6, <1>7, SeqEqual

LEMMA WholeEmpty == ASSUME NEW v PROVE Whole(v, 0) = <<>>
  BY DEF Whole

LEMMA WholeSame ==
    ASSUME NEW s \in Seq(Block)
    PROVE  SubSeq(s, 1, 0) = <<>> /\ SubSeq(s, 1, Len(s)) = s
  OBVIOUS

-----------------------------------------------------------------------------
(* Types.                                                                  *)

FileRecord == [there : BOOLEAN, blocks : Seq(Block), mtime : Nat]
Reasons == {"append", "undated", "sendfile", "seek", "misdated"}

ScalarTypeOK ==
    /\ pc \in {"idle", "probe", "ask", "decide", "start", "put", "end", "rename",
               "displace", "again", "utime", "unlink"}
    /\ calls \in 0 .. MaxCalls /\ sessions \in 1 .. MaxSessions
    /\ zaction \in {"none", "same", "resume", "append", "overwrite"}
    /\ cmd \in {"STOR", "APPE"}
    /\ wanted \in 0 .. MaxLen /\ from \in 0 .. MaxLen
    /\ result \in Results
    /\ server \subseteq Features
    /\ direct \in BOOLEAN
RecordTypeOK ==
    /\ call \in CallRecord
    /\ has \in [{"REST", "APPE"} -> {"unknown", "yes", "no"}]
    /\ view \in [size : Nat \cup {Unknown}, mdtm : Nat \cup {Unknown}]
    /\ batch \in [start : Nat, mtime : Nat]
    /\ net \in [up : BOOLEAN, owed : BOOLEAN, canceled : BOOLEAN]
FileTypeOK ==
    /\ remote \in [Names -> FileRecord]
    /\ taint \in [Names -> SUBSET Reasons]
    /\ local \in LocalRecord /\ was \in LocalRecord
    /\ clock \in Nat
    /\ lens \in [0 .. MaxVersion -> 0 .. MaxLen]

LEMMA TypeParts == TypeOK <=> ScalarTypeOK /\ RecordTypeOK /\ FileTypeOK
  BY DEF TypeOK, ScalarTypeOK, RecordTypeOK, FileTypeOK, FileRecord, Reasons

\* The fields the actions read.
LEMMA Fields ==
    ASSUME TypeOK
    PROVE  /\ local.ver \in 0 .. MaxVersion /\ local.len \in 0 .. MaxLen
           /\ local.mtime \in Nat /\ local.there \in BOOLEAN
           /\ view.size \in Nat \cup {Unknown} /\ view.mdtm \in Nat \cup {Unknown}
           /\ Dst \in Names /\ wanted \in 0 .. MaxLen /\ from \in 0 .. MaxLen /\ clock \in Nat
           /\ DOMAIN remote = Names /\ DOMAIN taint = Names
<1>1. /\ local.ver \in 0 .. MaxVersion /\ local.len \in 0 .. MaxLen
      /\ local.mtime \in Nat /\ local.there \in BOOLEAN
  BY DEF TypeOK, LocalRecord
<1>2. view.size \in Nat \cup {Unknown} /\ view.mdtm \in Nat \cup {Unknown}
  BY DEF TypeOK
<1>3. Dst \in Names
  BY DEF Dst, Names
<1>4. DOMAIN remote = Names /\ DOMAIN taint = Names
  BY DEF TypeOK
<1> QED
  BY <1>1, <1>2, <1>3, <1>4 DEF TypeOK

LEMMA Numbers ==
    ASSUME TypeOK
    PROVE  /\ local.ver \in Nat /\ local.len \in Nat /\ local.mtime \in Nat
           /\ wanted \in Nat /\ from \in Nat /\ clock \in Nat
           /\ local.len <= MaxLen /\ local.ver <= MaxVersion
  BY Fields, Bounds

LEMMA RemoteFile ==
    ASSUME TypeOK, NEW n \in Names
    PROVE  /\ remote[n].blocks \in Seq(Block) /\ Len(remote[n].blocks) \in Nat
           /\ remote[n].there \in BOOLEAN /\ remote[n].mtime \in Nat
           /\ taint[n] \subseteq Reasons
<1>1. remote[n] \in FileRecord
  BY DEF TypeOK, FileRecord
<1>2. remote[n].blocks \in Seq(Block) /\ remote[n].there \in BOOLEAN /\ remote[n].mtime \in Nat
  BY <1>1 DEF FileRecord
<1>3. taint[n] \subseteq Reasons
  BY DEF TypeOK, Reasons
<1> QED
  BY <1>2, <1>3, LenProperties

-----------------------------------------------------------------------------
(* What the actions that are cases of one another have in common.          *)

\* What it takes to find a remote file the same, or worth resuming.
LEMMA Guessed ==
    ASSUME TypeOK, Decision \in {"same", "resume"}
    PROVE  /\ call.resume /\ ~call.append
           /\ view.size \in Nat
           /\ view.mdtm # Unknown => local.mtime <= view.mdtm + 1
           /\ Decision = "same" => view.size = local.len
           /\ Decision = "resume" => view.size < local.len
<1>1. call.resume /\ ~call.append /\ Decision = Guess
  BY DEF Decision
<1>2. Guess \in {"same", "resume"}
  BY <1>1
<1>3. ~(view.mdtm # Unknown /\ local.mtime > view.mdtm + 1)
  BY <1>2 DEF Guess
<1>4. Guess = "same" => local.len = view.size
  BY <1>3 DEF Guess
<1>5. Guess = "resume" => view.size # Unknown /\ local.len > view.size
  BY <1>3 DEF Guess
<1>6. local.len \in Nat /\ local.mtime \in Nat
  BY Numbers
<1>7. view.size \in Nat
  BY <1>2, <1>4, <1>5, <1>6, Fields
<1>8. view.mdtm # Unknown => local.mtime <= view.mdtm + 1
  BY <1>3, <1>6, Fields DEF Unknown
<1>9. Guess = "resume" => view.size < local.len
  BY <1>5
<1> QED
  BY <1>1, <1>4, <1>7, <1>8, <1>9

\* The start point that the decision came to is one that holds, or noted as one that
\* does not.
Sound(command, startPoint, position, reasons) ==
    /\ startPoint = 0 \/ (command = "STOR" /\ Decision = "resume" /\ startPoint = view.size)
    /\ command = "STOR" /\ startPoint = 0 => position = 0
    /\ reasons = {} => \/ command = "STOR" /\ startPoint = 0
                       \/ Decision = "resume" /\ view.mdtm # Unknown /\ position = view.size

LEMMA Decided ==
    ASSUME TypeOK, DecidePlain \/ ResumeBinary \/ ResumeAscii
    PROVE  /\ pc = "decide" /\ zaction' \in {"resume", "append", "overwrite"}
           /\ \E command \in {"STOR", "APPE"}, startPoint \in 0 .. MaxLen,
                 position \in 0 .. MaxLen, reasons \in SUBSET Reasons :
                /\ TransferBy(command, startPoint, position, reasons)
                /\ Sound(command, startPoint, position, reasons)
<1>1. 0 \in 0 .. MaxLen
  BY Bounds
<1>2. Undated \in SUBSET Reasons
  BY DEF Undated, Reasons
<1>3. Undated = {} => view.mdtm # Unknown
  BY DEF Undated
<1>4. Decision = "resume" => view.size \in 0 .. MaxLen
  <2>1. SUFFICES ASSUME Decision = "resume" PROVE view.size \in 0 .. MaxLen
    OBVIOUS
  <2>2. view.size \in Nat /\ view.size < local.len
    BY <2>1, Guessed
  <2> QED
    BY <2>2, Numbers, Bounds
<1>5. CASE DecidePlain
  <2>1. CASE Decision = "append"
    <3>1. TransferBy("APPE", 0, 0, {"append"}) /\ zaction' = "append" /\ pc = "decide"
      BY <1>5, <2>1 DEF DecidePlain
    <3>2. Sound("APPE", 0, 0, {"append"})
      BY DEF Sound
    <3> QED
      BY <1>1, <3>1, <3>2 DEF Reasons
  <2>2. CASE Decision = "overwrite"
    <3>1. TransferBy("STOR", 0, 0, {}) /\ zaction' = "overwrite" /\ pc = "decide"
      BY <1>5, <2>2 DEF DecidePlain
    <3>2. Sound("STOR", 0, 0, {})
      BY DEF Sound
    <3> QED
      BY <1>1, <3>1, <3>2
  <2> QED
    BY <1>5, <2>1, <2>2 DEF DecidePlain
<1>6. CASE ResumeBinary
  <2>1. pc = "decide" /\ zaction' = "resume" /\ Decision = "resume"
    BY <1>6 DEF ResumeBinary
  <2>2. CASE has.REST = "no"
    <3>1. TransferBy("STOR", 0, 0, {})
      BY <1>6, <2>2 DEF ResumeBinary
    <3>2. Sound("STOR", 0, 0, {})
      BY DEF Sound
    <3> QED
      BY <1>1, <2>1, <3>1, <3>2
  <2>3. CASE has.REST # "no" /\ call.sendfile
    <3>1. TransferBy("STOR", view.size, 0, Undated \cup {"sendfile"})
      BY <1>6, <2>3 DEF ResumeBinary
    <3>2. Sound("STOR", view.size, 0, Undated \cup {"sendfile"})
      BY <2>1 DEF Sound
    <3>3. Undated \cup {"sendfile"} \in SUBSET Reasons
      BY <1>2 DEF Reasons
    <3> QED
      BY <1>1, <1>4, <2>1, <3>1, <3>2, <3>3
  <2>4. CASE has.REST # "no" /\ ~call.sendfile
    <3>1. TransferBy("STOR", view.size, view.size, Undated)
      BY <1>6, <2>4 DEF ResumeBinary
    <3>2. Sound("STOR", view.size, view.size, Undated)
      BY <1>3, <2>1 DEF Sound
    <3> QED
      BY <1>2, <1>4, <2>1, <3>1, <3>2
  <2> QED
    BY <2>2, <2>3, <2>4
<1>7. CASE ResumeAscii
  <2>1. pc = "decide" /\ Decision = "resume"
    BY <1>7 DEF ResumeAscii
  <2>2. CASE zaction' = "append" /\ TransferBy("APPE", 0, view.size, Undated)
    <3>1. Sound("APPE", 0, view.size, Undated)
      BY <1>3, <2>1 DEF Sound
    <3> QED
      BY <1>1, <1>2, <1>4, <2>1, <2>2, <3>1
  <2>3. CASE zaction' = "resume" /\ TransferBy("STOR", 0, 0, {})
    <3>1. Sound("STOR", 0, 0, {})
      BY DEF Sound
    <3> QED
      BY <1>1, <2>1, <2>3, <3>1
  <2>4. CASE zaction' = "append" /\ TransferBy("APPE", 0, 0, {"seek"})
    <3>1. Sound("APPE", 0, 0, {"seek"})
      BY DEF Sound
    <3> QED
      BY <1>1, <2>1, <2>4, <3>1 DEF Reasons
  <2> QED
    BY <1>7, <2>2, <2>3, <2>4 DEF ResumeAscii
<1> QED
  BY <1>5, <1>6, <1>7

\* How a transfer starts: as it was meant to, with APPE instead, or from the beginning.
StartsAs(command, offset, position) ==
    \/ wanted = 0 /\ command = cmd /\ offset = 0 /\ position = from
    \/ wanted # 0 /\ command = "STOR" /\ offset = wanted /\ position = from
    \/ wanted # 0 /\ command = "APPE" /\ offset = 0 /\ position = from
    \/ wanted # 0 /\ command = "STOR" /\ offset = 0 /\ position = 0
Written(command, offset) ==
    /\ remote' = [remote EXCEPT ![Dst] =
         [there |-> TRUE, mtime |-> clock,
          blocks |-> IF command = "APPE" THEN remote[Dst].blocks
                     ELSE SubSeq(remote[Dst].blocks, 1, offset)]]
    /\ taint' = IF command = "STOR" /\ offset = 0 THEN [taint EXCEPT ![Dst] = {}] ELSE taint

LEMMA StartedAs ==
    ASSUME TypeOK, TransferStarts
    PROVE  /\ pc = "start" /\ net.up /\ StartUnchanged
           /\ net' \in {[net EXCEPT !.canceled = FALSE], [net EXCEPT !.owed = TRUE, !.canceled = FALSE]}
           /\ (pc' = "put" /\ result' = result) \/ (pc' = "idle" /\ result' = "failed")
           /\ \E rest \in {has.REST, "no"} : has' = [has EXCEPT !.REST = rest]
           /\ \E command \in {"STOR", "APPE"}, offset \in 0 .. MaxLen, position \in 0 .. MaxLen :
                /\ wanted' = offset /\ from' = position
                /\ Written(command, offset) /\ StartsAs(command, offset, position)
                /\ (pc' = "idle" => command = "STOR" /\ offset = 0 /\ position = 0)
<1>1. pc = "start" /\ net.up /\ StartUnchanged
  BY DEF TransferStarts
<1>2. PICK s \in Started :
         /\ wanted' = s[2] /\ from' = s[3]
         /\ remote' = [remote EXCEPT ![Dst] =
              [there |-> TRUE, mtime |-> clock,
               blocks |-> IF s[1] = "APPE" THEN @.blocks ELSE SubSeq(@.blocks, 1, s[2])]]
         /\ taint' = IF s[1] = "STOR" /\ s[2] = 0 THEN [taint EXCEPT ![Dst] = {}] ELSE taint
         /\ \E rest \in IF wanted = 0 \/ s[2] # 0 THEN {has.REST} ELSE {has.REST, "no"} :
              has' = [has EXCEPT !.REST = rest]
         /\ \/ pc' = "put" /\ UNCHANGED result /\ net' = [net EXCEPT !.canceled = FALSE]
            \/ /\ s = <<"STOR", 0, 0>> /\ wanted # 0 /\ ~call.sendfile
               /\ pc' = "idle" /\ result' = "failed"
               /\ net' = [net EXCEPT !.owed = TRUE, !.canceled = FALSE]
  BY Zenon DEF TransferStarts
<1>3. \E rest \in {has.REST, "no"} : has' = [has EXCEPT !.REST = rest]
  BY <1>2
<1>4. wanted = 0 => s = <<cmd, 0, from>>
  BY Zenon DEF Started
<1>5. wanted # 0 => s = <<"STOR", wanted, from>> \/ s = <<"APPE", 0, from>> \/ s = <<"STOR", 0, 0>>
  BY Zenon DEF Started
<1>6. StartsAs(s[1], s[2], s[3])
  BY <1>4, <1>5 DEF StartsAs
<1>7. s[1] \in {"STOR", "APPE"} /\ s[2] \in 0 .. MaxLen /\ s[3] \in 0 .. MaxLen
  BY <1>4, <1>5, Bounds DEF TypeOK
<1>8. Written(s[1], s[2])
  BY <1>2, Zenon DEF Written
<1>9. /\ net' \in {[net EXCEPT !.canceled = FALSE], [net EXCEPT !.owed = TRUE, !.canceled = FALSE]}
      /\ (pc' = "put" /\ result' = result) \/ (pc' = "idle" /\ result' = "failed")
  BY <1>2
<1>10. pc' = "idle" => s[1] = "STOR" /\ s[2] = 0 /\ s[3] = 0
  BY <1>2
<1> QED
  BY <1>1, <1>2, <1>3, <1>6, <1>7, <1>8, <1>9, <1>10

\* What a transfer starts with, name by name.
LEMMA WrittenTo ==
    ASSUME TypeOK, NEW command, NEW offset, Written(command, offset)
    PROVE  /\ remote'[Dst].there /\ remote'[Dst].mtime = clock
           /\ remote'[Dst].blocks = IF command = "APPE" THEN remote[Dst].blocks
                                    ELSE SubSeq(remote[Dst].blocks, 1, offset)
           /\ taint'[Dst] = IF command = "STOR" /\ offset = 0 THEN {} ELSE taint[Dst]
           /\ \A n \in Names \ {Dst} : remote'[n] = remote[n] /\ taint'[n] = taint[n]
  BY Fields DEF Written

\* The rename, whether it is the first or the second.
LEMMA Renamed ==
    ASSUME Rename \/ RenameAgain
    PROVE  \E otherwise \in {"displace", "utime"} :
             /\ pc \in {"rename", "again"}
             /\ Renames("utime", otherwise) /\ (otherwise = "displace" => pc = "rename")
             /\ otherwise = "utime" => pc = "again"
  BY DEF Rename, RenameAgain

LEMMA RenamedAs ==
    ASSUME TypeOK, NEW otherwise, Renames("utime", otherwise)
    PROVE  \E done \in BOOLEAN, told \in BOOLEAN :
             /\ done => net.up /\ remote["temp"].there
             /\ remote' = IF done THEN [temp |-> NoFile, final |-> remote["temp"]] ELSE remote
             /\ taint' = IF done THEN [temp |-> {}, final |-> taint["temp"]] ELSE taint
             /\ net' = [net EXCEPT !.up = @ /\ told]
             /\ result' = IF done /\ told THEN "ok" ELSE "rename"
             /\ pc' = IF done /\ told THEN "utime" ELSE otherwise
             /\ UNCHANGED <<has, was, lens, direct>> /\ EndUnchanged
  BY Zenon DEF Renames

\* The other actions that write to a remote file, name by name.
LEMMA PutTo ==
    ASSUME TypeOK, PutBlock
    PROVE  /\ remote'[Dst].there = remote[Dst].there /\ remote'[Dst].mtime = clock
           /\ remote'[Dst].blocks = Append(remote[Dst].blocks, <<local.ver, from + 1>>)
           /\ \A n \in Names \ {Dst} : remote'[n] = remote[n]
           /\ UNCHANGED <<local, was, clock, lens, taint, direct, call, cmd, zaction>>
           /\ pc = "put" /\ from < local.len /\ from' = from + 1 /\ pc' = "put" /\ result' = result
<1>1. remote \in [Names -> FileRecord] /\ Dst \in Names
  BY Fields DEF TypeOK, FileRecord
<1>2. /\ from' = from + 1
      /\ remote' = [remote EXCEPT ![Dst].blocks = Append(@, <<local.ver, from'>>),
                                  ![Dst].mtime = clock]
  BY DEF PutBlock
<1>3. remote' = [remote EXCEPT ![Dst] = [remote[Dst] EXCEPT
                    !.blocks = Append(remote[Dst].blocks, <<local.ver, from + 1>>), !.mtime = clock]]
  BY <1>1, <1>2
<1>4. remote[Dst] \in FileRecord
  BY <1>1
<1>5. /\ remote'[Dst].there = remote[Dst].there /\ remote'[Dst].mtime = clock
      /\ remote'[Dst].blocks = Append(remote[Dst].blocks, <<local.ver, from + 1>>)
  BY <1>1, <1>3, <1>4 DEF FileRecord
<1>6. \A n \in Names \ {Dst} : remote'[n] = remote[n]
  BY <1>1, <1>3
<1>7. UNCHANGED <<local, was, clock, lens, taint, direct, call, cmd, zaction>>
  BY DEF PutBlock, LoopUnchanged, history
<1>8. pc = "put" /\ from < local.len /\ pc' = "put" /\ result' = result
  BY DEF PutBlock
<1> QED
  BY <1>2, <1>5, <1>6, <1>7, <1>8

\* Setting the time changes no block.
LEMMA DatedTo ==
    ASSUME TypeOK, Utime, NEW n \in Names
    PROVE  /\ remote'[n].there = remote[n].there /\ remote'[n].blocks = remote[n].blocks
           /\ taint[n] \subseteq taint'[n]
           /\ \/ remote'[n].mtime = remote[n].mtime
              \/ /\ n = "final" /\ remote'[n].mtime = local.mtime
                 /\ result # "ok" \/ (call.temp /\ cmd = "APPE") => taint'[n] # {}
<1>1. /\ remote \in [Names -> FileRecord] /\ taint \in [Names -> SUBSET Reasons]
      /\ "final" \in Names /\ remote["final"] \in FileRecord
  BY DEF TypeOK, FileRecord, Names, Reasons
<1>2. PICK done \in BOOLEAN :
         /\ remote' = IF done THEN [remote EXCEPT !["final"].mtime = local.mtime] ELSE remote
         /\ taint' = IF done /\ (result # "ok" \/ (call.temp /\ cmd = "APPE"))
                     THEN [taint EXCEPT !["final"] = @ \cup {"misdated"}] ELSE taint
  BY DEF Utime
<1>3. taint[n] \subseteq taint'[n]
  BY <1>1, <1>2
<1>4. CASE ~done \/ n # "final"
  <2>1. remote'[n] = remote[n]
    BY <1>1, <1>2, <1>4
  <2> QED
    BY <1>3, <2>1
<1>5. CASE done /\ n = "final"
  <2>1. remote' = [remote EXCEPT !["final"] = [remote["final"] EXCEPT !.mtime = local.mtime]]
    BY <1>1, <1>2, <1>5
  <2>2. remote'[n] = [remote["final"] EXCEPT !.mtime = local.mtime]
    BY <1>1, <1>5, <2>1
  <2>3. /\ remote'[n].there = remote[n].there /\ remote'[n].blocks = remote[n].blocks
        /\ remote'[n].mtime = local.mtime
    BY <1>1, <1>5, <2>2 DEF FileRecord
  <2>4. result # "ok" \/ (call.temp /\ cmd = "APPE") => taint'[n] # {}
    BY <1>1, <1>2, <1>5
  <2> QED
    BY <1>3, <1>5, <2>3, <2>4
<1> QED
  BY <1>4, <1>5

\* What a decision to send leaves as it was.
LEMMA DecidedFiles ==
    ASSUME TypeOK, DecidePlain \/ ResumeBinary \/ ResumeAscii
    PROVE  /\ UNCHANGED <<remote, local, was, clock, lens, direct, call, calls, result>>
           /\ \A n \in Names \ {Dst} : taint'[n] = taint[n]
           /\ taint[Dst] \subseteq taint'[Dst] /\ pc = "decide" /\ pc' = "start"
<1>1. PICK command \in {"STOR", "APPE"}, startPoint \in 0 .. MaxLen, position \in 0 .. MaxLen,
           reasons \in SUBSET Reasons : TransferBy(command, startPoint, position, reasons)
  BY Decided
<1>2. UNCHANGED <<remote, local, was, clock, lens, direct, call, calls, result>> /\ pc' = "start"
  BY <1>1 DEF TransferBy, DecideUnchanged, world
<1>3. taint' = [taint EXCEPT ![Dst] = @ \cup reasons]
  BY <1>1 DEF TransferBy
<1>4. pc = "decide"
  BY Decided
<1> QED
  BY <1>2, <1>3, <1>4, Fields

\* Deleting the local file changes nothing but that it is there.
LEMMA UnlinkedTo ==
    ASSUME TypeOK, Unlink
    PROVE  /\ local'.ver = local.ver /\ local'.len = local.len /\ local'.mtime = local.mtime
           /\ UNCHANGED <<remote, taint, was, clock, lens, direct, calls, call, cmd, zaction>>
           /\ pc = "unlink" /\ pc' = "idle" /\ (result' = result \/ result' = "unlink")
<1>1. local \in LocalRecord
  BY DEF TypeOK
<1>2. local' = local \/ local' = [local EXCEPT !.there = FALSE]
  BY DEF Unlink
<1>3. local'.ver = local.ver /\ local'.len = local.len /\ local'.mtime = local.mtime
  BY <1>1, <1>2 DEF LocalRecord
<1>4. /\ UNCHANGED <<remote, taint, was, clock, lens, direct, calls, call, cmd, zaction>>
      /\ pc = "unlink" /\ pc' = "idle" /\ (result' = result \/ result' = "unlink")
  BY DEF Unlink, history
<1> QED
  BY <1>3, <1>4

LEMMA CallFields ==
    ASSUME TypeOK
    PROVE  /\ call.op \in {"file", "mem"} /\ call.temp \in BOOLEAN /\ call.delete \in BOOLEAN
           /\ cmd \in {"STOR", "APPE"}
  BY DEF TypeOK, CallRecord


LEMMA PairType ==
    ASSUME NEW S, NEW a \in S, NEW b \in S
    PROVE  [temp |-> a, final |-> b] \in [Names -> S]
  BY DEF Names

LEMMA ReplaceType ==
    ASSUME NEW S, NEW f \in [Names -> S], NEW n \in Names, NEW a \in S
    PROVE  [f EXCEPT ![n] = a] \in [Names -> S]
  OBVIOUS

LEMMA FileType ==
    ASSUME NEW f \in FileRecord, NEW s \in Seq(Block), NEW t \in Nat
    PROVE  /\ [f EXCEPT !.mtime = t] \in FileRecord
           /\ [f EXCEPT !.blocks = s, !.mtime = t] \in FileRecord
           /\ [there |-> TRUE, blocks |-> s, mtime |-> t] \in FileRecord
           /\ [there |-> TRUE, mtime |-> t, blocks |-> s] \in FileRecord
  BY DEF FileRecord

LEMMA FilesType ==
    TypeOK => /\ remote \in [Names -> FileRecord] /\ taint \in [Names -> SUBSET Reasons]
              /\ "temp" \in Names /\ "final" \in Names /\ Dst \in Names
              /\ \A n \in Names : remote[n] \in FileRecord /\ taint[n] \in SUBSET Reasons
              /\ NoFile \in FileRecord
<1>1. TypeOK => remote \in [Names -> FileRecord] /\ taint \in [Names -> SUBSET Reasons]
  BY DEF TypeOK, FileRecord, Reasons
<1>2. "temp" \in Names /\ "final" \in Names /\ Dst \in Names
  BY DEF Names, Dst
<1>3. NoFile \in FileRecord
  BY DEF NoFile, FileRecord
<1> QED
  BY <1>1, <1>2, <1>3

LEMMA HasType ==
    ASSUME TypeOK, NEW rest \in {"unknown", "yes", "no"}
    PROVE  /\ has.REST \in {"unknown", "yes", "no"}
           /\ [has EXCEPT !.REST = rest] \in [{"REST", "APPE"} -> {"unknown", "yes", "no"}]
  BY DEF TypeOK

LEMMA TypeInit == Init => TypeOK
<1> SUFFICES ASSUME Init PROVE TypeOK
  OBVIOUS
<1> USE Bounds
<1>1. PICK n \in 1 .. MaxLen, old \in 0 .. 1 :
         /\ local = [there |-> TRUE, ver |-> 1, len |-> n, mtime |-> Gap]
         /\ remote = [temp |-> NoFile,
                      final |-> IF old = 0 THEN NoFile
                                ELSE [there |-> TRUE, blocks |-> Whole(0, old), mtime |-> 0]]
         /\ lens = [v \in 0 .. MaxVersion |-> CASE v = 0 -> old [] v = 1 -> n [] OTHER -> 0]
  BY DEF Init
<1>2. old \in 0 .. MaxLen /\ n \in 0 .. MaxLen
  OBVIOUS
<1>3. Whole(0, old) \in Seq(Block)
  BY <1>2, WholeSeq
<1>4. NoFile \in FileRecord
  BY DEF NoFile, FileRecord
<1>5. [there |-> TRUE, blocks |-> Whole(0, old), mtime |-> 0] \in FileRecord
  BY <1>3 DEF FileRecord
<1>6. remote \in [Names -> FileRecord]
  <2>1. PICK a \in FileRecord : remote = [temp |-> NoFile, final |-> a]
    BY <1>1, <1>4, <1>5
  <2> QED
    BY <1>4, <2>1, PairType
<1>7. lens \in [0 .. MaxVersion -> 0 .. MaxLen]
  BY <1>1, <1>2
<1>8. local \in LocalRecord
  BY <1>1, <1>2 DEF LocalRecord
<1>9. FileTypeOK
  BY <1>6, <1>7, <1>8 DEF Init, FileTypeOK, Reasons
<1>10. ScalarTypeOK
  <2>1. server \subseteq Features
    BY FeaturesAssumption DEF Init
  <2>2. calls \in 0 .. MaxCalls /\ sessions \in 1 .. MaxSessions
    BY DEF Init
  <2>3. wanted \in 0 .. MaxLen /\ from \in 0 .. MaxLen
    BY DEF Init
  <2> QED
    BY <2>1, <2>2, <2>3 DEF Init, ScalarTypeOK, Results
<1>11. RecordTypeOK
  <2>1. PICK appe \in NoAPPE : has = [REST |-> "unknown", APPE |-> appe]
    BY DEF Init
  <2>2. appe \in {"unknown", "no"}
    BY FeaturesAssumption
  <2> QED
    BY <2>1, <2>2 DEF Init, RecordTypeOK, NoCall, CallRecord, Unknown
<1> QED
  BY <1>9, <1>10, <1>11, TypeParts


LEMMA ScalarTypeNext == TypeOK /\ [Next]_vars => ScalarTypeOK'
<1> SUFFICES ASSUME TypeOK, [Next]_vars PROVE ScalarTypeOK'
  OBVIOUS
<1> USE Bounds DEF world, client, history, TypeOK, ScalarTypeOK, Results
<1>1. ASSUME NEW c \in Calls, Call(c) PROVE ScalarTypeOK'
  BY <1>1, CallsAssumption DEF Call, CallRecord
<1>2. CASE DecidePlain \/ ResumeBinary \/ ResumeAscii
  <2>1. PICK command \in {"STOR", "APPE"}, startPoint \in 0 .. MaxLen, position \in 0 .. MaxLen,
             reasons \in SUBSET Reasons : TransferBy(command, startPoint, position, reasons)
    BY <1>2, Decided
  <2>2. pc = "decide" /\ zaction' \in {"resume", "append", "overwrite"}
    BY <1>2, Decided
  <2> QED
    BY <2>1, <2>2 DEF TransferBy, DecideUnchanged
<1>3. CASE Rename \/ RenameAgain
  <2>1. PICK otherwise \in {"displace", "utime"} :
             /\ pc \in {"rename", "again"}
             /\ Renames("utime", otherwise) /\ (otherwise = "displace" => pc = "rename")
             /\ otherwise = "utime" => pc = "again"
    BY <1>3, Renamed
  <2>2. PICK done \in BOOLEAN, told \in BOOLEAN :
             /\ done => net.up /\ remote["temp"].there
             /\ remote' = IF done THEN [temp |-> NoFile, final |-> remote["temp"]] ELSE remote
             /\ taint' = IF done THEN [temp |-> {}, final |-> taint["temp"]] ELSE taint
             /\ net' = [net EXCEPT !.up = @ /\ told]
             /\ result' = IF done /\ told THEN "ok" ELSE "rename"
             /\ pc' = IF done /\ told THEN "utime" ELSE otherwise
             /\ UNCHANGED <<has, was, lens, direct>> /\ EndUnchanged
    BY <2>1, RenamedAs
  <2> QED
    BY <2>1, <2>2 DEF EndUnchanged
<1>4. CASE Probe
  BY <1>4 DEF Probe
<1>5. CASE Ask
  BY <1>5 DEF Ask
<1>6. CASE DecideSame
  BY <1>6 DEF DecideSame, DecideUnchanged, Undated
<1>7. CASE AsciiSeekFails \/ StartFails
  BY <1>7 DEF AsciiSeekFails, DecideUnchanged, StartFails, StartUnchanged
<1>8. CASE TransferStarts
  <2>1. /\ pc = "start" /\ StartUnchanged
        /\ (pc' = "put" /\ result' = result) \/ (pc' = "idle" /\ result' = "failed")
        /\ wanted' \in 0 .. MaxLen /\ from' \in 0 .. MaxLen
    BY <1>8, StartedAs
  <2> QED
    BY <2>1 DEF StartUnchanged
<1>9. CASE PutBlock
  <2>1. from \in Nat /\ from < local.len /\ local.len \in Nat /\ local.len <= MaxLen
    BY <1>9, Numbers DEF PutBlock
  <2>2. from' = from + 1
    BY <1>9 DEF PutBlock
  <2>3. from' \in 0 .. MaxLen
    BY <2>1, <2>2
  <2> QED
    BY <1>9, <2>3 DEF PutBlock, LoopUnchanged
<1>10. CASE PutEndOfFile
  BY <1>10 DEF PutEndOfFile, LoopUnchanged
<1>11. CASE PutFails
  BY <1>11 DEF PutFails, LoopUnchanged
<1>12. CASE Cancel
  BY <1>12 DEF Cancel, LoopUnchanged
<1>13. CASE End
  BY <1>13 DEF End, EndUnchanged
<1>14. CASE Displace
  BY <1>14 DEF Displace, EndUnchanged
<1>15. CASE Utime
  BY <1>15 DEF Utime, EndUnchanged
<1>16. CASE Unlink
  BY <1>16 DEF Unlink
<1>17. CASE ConnectionLost
  BY <1>17 DEF ConnectionLost
<1>18. CASE Edit
  BY <1>18 DEF Edit
<1>19. CASE Restart
  BY <1>19 DEF Restart
<1>20. CASE UNCHANGED vars
  BY <1>20 DEF vars
<1> QED
  BY <1>1, <1>2, <1>3, <1>4, <1>5, <1>6, <1>7, <1>8, <1>9, <1>10, <1>11, <1>12, <1>13,
     <1>14, <1>15, <1>16, <1>17, <1>18, <1>19, <1>20 DEF Next, Library

LEMMA RecordTypeNext == TypeOK /\ [Next]_vars => RecordTypeOK'
<1> SUFFICES ASSUME TypeOK, [Next]_vars PROVE RecordTypeOK'
  OBVIOUS
<1> USE Bounds DEF world, client, history, TypeOK, RecordTypeOK
<1>1. ASSUME NEW c \in Calls, Call(c) PROVE RecordTypeOK'
  <2>1. c \in CallRecord
    BY CallsAssumption
  <2>2. clock' \in Nat
    BY <1>1 DEF Call
  <2>3. batch' \in [start : Nat, mtime : Nat]
    BY <1>1, <2>2, Fields DEF Call
  <2> QED
    BY <1>1, <2>1, <2>3 DEF Call, Unknown
<1>2. CASE DecidePlain \/ ResumeBinary \/ ResumeAscii
  <2>1. PICK command \in {"STOR", "APPE"}, startPoint \in 0 .. MaxLen, position \in 0 .. MaxLen,
             reasons \in SUBSET Reasons : TransferBy(command, startPoint, position, reasons)
    BY <1>2, Decided
  <2>2. pc = "decide" /\ zaction' \in {"resume", "append", "overwrite"}
    BY <1>2, Decided
  <2> QED
    BY <2>1, <2>2 DEF TransferBy, DecideUnchanged
<1>3. CASE Rename \/ RenameAgain
  <2>1. PICK otherwise \in {"displace", "utime"} :
             /\ pc \in {"rename", "again"}
             /\ Renames("utime", otherwise) /\ (otherwise = "displace" => pc = "rename")
             /\ otherwise = "utime" => pc = "again"
    BY <1>3, Renamed
  <2>2. PICK done \in BOOLEAN, told \in BOOLEAN :
             /\ done => net.up /\ remote["temp"].there
             /\ remote' = IF done THEN [temp |-> NoFile, final |-> remote["temp"]] ELSE remote
             /\ taint' = IF done THEN [temp |-> {}, final |-> taint["temp"]] ELSE taint
             /\ net' = [net EXCEPT !.up = @ /\ told]
             /\ result' = IF done /\ told THEN "ok" ELSE "rename"
             /\ pc' = IF done /\ told THEN "utime" ELSE otherwise
             /\ UNCHANGED <<has, was, lens, direct>> /\ EndUnchanged
    BY <2>1, RenamedAs
  <2> QED
    BY <2>1, <2>2 DEF EndUnchanged
<1>4. CASE Probe
  BY <1>4 DEF Probe
<1>5. CASE Ask
  <2>1. remote[Dst].mtime \in Nat /\ Len(remote[Dst].blocks) \in Nat
    BY RemoteFile, Fields
  <2> QED
    BY <1>5, <2>1 DEF Ask
<1>6. CASE DecideSame
  BY <1>6 DEF DecideSame, DecideUnchanged, Undated
<1>0. CASE AsciiSeekFails
  BY <1>0 DEF AsciiSeekFails, DecideUnchanged
<1>7. CASE StartFails
  <2>1. PICK owed \in BOOLEAN : net' = [net EXCEPT !.owed = owed, !.canceled = FALSE]
    BY <1>7 DEF StartFails
  <2>2. PICK rest \in {"unknown", "yes", "no"} : has' = [has EXCEPT !.REST = rest]
    BY <1>7, HasType DEF StartFails
  <2>3. has' \in [{"REST", "APPE"} -> {"unknown", "yes", "no"}]
    BY <2>2, HasType
  <2> QED
    BY <1>7, <2>1, <2>3 DEF StartFails, StartUnchanged
<1>8. CASE TransferStarts
  <2>1. /\ StartUnchanged
        /\ net' \in {[net EXCEPT !.canceled = FALSE], [net EXCEPT !.owed = TRUE, !.canceled = FALSE]}
        /\ \E rest \in {has.REST, "no"} : has' = [has EXCEPT !.REST = rest]
    BY <1>8, StartedAs
  <2>2. has' \in [{"REST", "APPE"} -> {"unknown", "yes", "no"}]
    <3>1. PICK rest \in {has.REST, "no"} : has' = [has EXCEPT !.REST = rest]
      BY <2>1
    <3>2. rest \in {"unknown", "yes", "no"}
      BY HasType
    <3> QED
      BY <3>1, <3>2, HasType
  <2> QED
    BY <2>1, <2>2 DEF StartUnchanged
<1>9. CASE PutBlock
  BY <1>9 DEF PutBlock, LoopUnchanged
<1>10. CASE PutEndOfFile
  BY <1>10 DEF PutEndOfFile, LoopUnchanged
<1>11. CASE PutFails
  BY <1>11 DEF PutFails, LoopUnchanged
<1>12. CASE Cancel
  BY <1>12 DEF Cancel, LoopUnchanged
<1>13. CASE End
  BY <1>13 DEF End, EndUnchanged
<1>14. CASE Displace
  BY <1>14 DEF Displace, EndUnchanged
<1>15. CASE Utime
  BY <1>15 DEF Utime, EndUnchanged
<1>16. CASE Unlink
  BY <1>16 DEF Unlink
<1>17. CASE ConnectionLost
  BY <1>17 DEF ConnectionLost
<1>18. CASE Edit
  BY <1>18 DEF Edit
<1>19. CASE Restart
  BY <1>19 DEF Restart
<1>20. CASE UNCHANGED vars
  BY <1>20 DEF vars
<1> QED
  BY <1>0, <1>1, <1>2, <1>3, <1>4, <1>5, <1>6, <1>7, <1>8, <1>9, <1>10, <1>11, <1>12, <1>13,
     <1>14, <1>15, <1>16, <1>17, <1>18, <1>19, <1>20 DEF Next, Library

\* The actions that leave every file and what is noted of it as it is.
LEMMA FilesStand ==
    ASSUME Probe \/ Ask \/ AsciiSeekFails \/ StartFails \/ PutEndOfFile \/ PutFails \/ Cancel \/ End
           \/ ConnectionLost \/ Restart \/ UNCHANGED vars
    PROVE  /\ UNCHANGED <<remote, taint, local, was, clock, lens, direct, calls, call, cmd>>
           /\ ~AsciiSeekFails => UNCHANGED zaction
<1> USE DEF world, history, client
<1>1. CASE Probe \/ Ask
  BY <1>1 DEF Probe, Ask
<1>2. CASE AsciiSeekFails \/ StartFails
  BY <1>2 DEF AsciiSeekFails, DecideUnchanged, StartFails, StartUnchanged
<1>3. CASE PutEndOfFile \/ PutFails \/ Cancel
  BY <1>3 DEF PutEndOfFile, PutFails, Cancel, LoopUnchanged
<1>4. CASE End
  BY <1>4 DEF End, EndUnchanged
<1>5. CASE ConnectionLost \/ Restart
  BY <1>5 DEF ConnectionLost, Restart
<1>6. CASE UNCHANGED vars
  BY <1>6 DEF vars
<1> QED
  BY <1>1, <1>2, <1>3, <1>4, <1>5, <1>6

-----------------------------------------------------------------------------
(* What the server said.                                                   *)

Size(n) == Len(remote[n].blocks)
Unasked == view = [size |-> Unknown, mdtm |-> Unknown]

\* Nobody else writes to the remote files: what the server said of dstfile is still
\* so when it is decided what to do, and the start point when it is sent.
ViewInv ==
    /\ pc \in {"probe", "ask"} => Unasked
    /\ pc = "decide" /\ view.size # Unknown => remote[Dst].there /\ view.size = Size(Dst)
    /\ pc = "decide" /\ view.mdtm # Unknown => remote[Dst].there /\ view.mdtm = remote[Dst].mtime
    /\ pc = "start" => wanted <= Size(Dst)

LEMMA ViewNext == TypeOK /\ ViewInv /\ [Next]_vars => ViewInv'
<1> SUFFICES ASSUME TypeOK, ViewInv, [Next]_vars PROVE ViewInv'
  OBVIOUS
<1> USE DEF world, client, history, ViewInv, Unasked, Size, Dst
<1>1. ASSUME NEW c \in Calls, Call(c) PROVE ViewInv'
  <2>1. pc' \in {"idle", "probe", "decide"} /\ Unasked'
    BY <1>1 DEF Call
  <2> QED
    BY <2>1 DEF Unknown
<1>2. CASE DecidePlain \/ ResumeBinary \/ ResumeAscii
  <2>1. pc = "decide"
    BY <1>2, Decided
  <2>2. PICK command \in {"STOR", "APPE"}, startPoint \in 0 .. MaxLen, position \in 0 .. MaxLen,
             reasons \in SUBSET Reasons :
               /\ TransferBy(command, startPoint, position, reasons)
               /\ Sound(command, startPoint, position, reasons)
    BY <1>2, Decided
  <2>3. wanted' = startPoint /\ pc' = "start" /\ remote' = remote /\ call' = call
    BY <2>2 DEF TransferBy, DecideUnchanged
  <2>4. startPoint = 0 \/ startPoint = view.size
    BY <2>2 DEF Sound
  <2>5. Len(remote[Dst].blocks) \in Nat
    BY RemoteFile, Fields
  <2>6. startPoint \in Nat
    BY Bounds
  <2> QED
    BY <2>1, <2>3, <2>4, <2>5, <2>6 DEF Unknown
<1>3. CASE Rename \/ RenameAgain
  <2>1. pc' \in {"displace", "utime"}
    BY <1>3 DEF Rename, RenameAgain, Renames
  <2> QED
    BY <2>1
<1>4. CASE Displace \/ Utime \/ Unlink \/ Edit
  <2>1. pc' \in {"again", "utime", "unlink", "idle"}
    BY <1>4 DEF Displace, Utime, Unlink, Edit, client
  <2> QED
    BY <2>1
<1>5. CASE Probe
  BY <1>5 DEF Probe
<1>6. CASE Ask
  BY <1>6 DEF Ask
<1>7. CASE DecideSame
  BY <1>7 DEF DecideSame, DecideUnchanged, Undated
<1>8. CASE AsciiSeekFails \/ StartFails
  BY <1>8 DEF AsciiSeekFails, DecideUnchanged, StartFails, StartUnchanged
<1>9. CASE TransferStarts
  <2>1. pc' \in {"put", "idle"}
    BY <1>9, StartedAs
  <2> QED
    BY <2>1
<1>10. CASE PutBlock
  <2>1. pc' = "put"
    BY <1>10 DEF PutBlock
  <2> QED
    BY <2>1
<1>11. CASE PutEndOfFile
  BY <1>11 DEF PutEndOfFile, LoopUnchanged
<1>12. CASE PutFails
  BY <1>12 DEF PutFails, LoopUnchanged
<1>13. CASE Cancel
  BY <1>13 DEF Cancel, LoopUnchanged
<1>14. CASE End
  BY <1>14 DEF End, EndUnchanged
<1>15. CASE ConnectionLost
  BY <1>15 DEF ConnectionLost
<1>16. CASE Restart
  BY <1>16 DEF Restart
<1>17. CASE UNCHANGED vars
  BY <1>17 DEF vars
<1> QED
  BY <1>1, <1>2, <1>3, <1>4, <1>5, <1>6, <1>7, <1>8, <1>9, <1>10, <1>11, <1>12, <1>13,
     <1>14, <1>15, <1>16, <1>17 DEF Next, Library

LEMMA FileTypeNext == TypeOK /\ ViewInv /\ [Next]_vars => FileTypeOK'
<1> SUFFICES ASSUME TypeOK, ViewInv, [Next]_vars PROVE FileTypeOK'
  OBVIOUS
<1>1. ASSUME NEW c \in Calls, Call(c) PROVE FileTypeOK'
  <2>1. was' = local /\ clock' = clock + Gap /\ UNCHANGED <<remote, local, taint, lens>>
    BY <1>1 DEF Call
  <2>2. clock' \in Nat
    BY <2>1, Numbers, Bounds
  <2> QED
    BY <2>1, <2>2 DEF TypeOK, FileTypeOK, FileRecord, Reasons
<1>2. CASE Probe \/ Ask \/ AsciiSeekFails \/ StartFails \/ PutEndOfFile \/ PutFails \/ Cancel \/ End \/
            ConnectionLost \/ Restart \/ UNCHANGED vars
  BY <1>2, FilesStand DEF TypeOK, FileTypeOK, FileRecord, Reasons
<1>3. CASE DecidePlain \/ ResumeBinary \/ ResumeAscii
  <2>1. PICK command \in {"STOR", "APPE"}, startPoint \in 0 .. MaxLen, position \in 0 .. MaxLen,
             reasons \in SUBSET Reasons : TransferBy(command, startPoint, position, reasons)
    BY <1>3, Decided
  <2>2. taint' \in [Names -> SUBSET Reasons]
    BY <2>1 DEF TransferBy, TypeOK, Reasons
  <2> QED
    BY <2>1, <2>2 DEF TransferBy, DecideUnchanged, world, TypeOK, FileTypeOK, FileRecord
<1>4. CASE Rename \/ RenameAgain
  <2>1. PICK otherwise \in {"displace", "utime"} : Renames("utime", otherwise)
    BY <1>4, Renamed
  <2>2. PICK done \in BOOLEAN :
             /\ remote' = IF done THEN [temp |-> NoFile, final |-> remote["temp"]] ELSE remote
             /\ taint' = IF done THEN [temp |-> {}, final |-> taint["temp"]] ELSE taint
             /\ UNCHANGED <<has, was, lens, direct>> /\ EndUnchanged
    BY <2>1, RenamedAs
  <2>3. remote \in [Names -> FileRecord] /\ taint \in [Names -> SUBSET Reasons] /\ "temp" \in Names
    BY DEF TypeOK, FileRecord, Reasons, Names
  <2>4. NoFile \in FileRecord /\ remote["temp"] \in FileRecord /\ taint["temp"] \in SUBSET Reasons
    BY <2>3 DEF NoFile, FileRecord
  <2>5. remote' \in [Names -> FileRecord]
    BY <2>2, <2>3, <2>4, PairType
  <2>6. taint' \in [Names -> SUBSET Reasons]
    BY <2>2, <2>3, <2>4, PairType
  <2> QED
    BY <2>2, <2>5, <2>6 DEF EndUnchanged, TypeOK, FileTypeOK
<1>5. CASE DecideSame
  <2>1. Undated \subseteq Reasons
    BY DEF Undated, Reasons
  <2>2. taint' \in [Names -> SUBSET Reasons]
    BY <1>5, <2>1 DEF DecideSame, TypeOK, Reasons
  <2> QED
    BY <1>5, <2>2 DEF DecideSame, DecideUnchanged, world, TypeOK, FileTypeOK, FileRecord
<1>6. CASE TransferStarts
  <2>1. PICK command \in {"STOR", "APPE"}, offset \in 0 .. MaxLen, position \in 0 .. MaxLen :
           Written(command, offset) /\ StartsAs(command, offset, position)
    BY <1>6, StartedAs
  <2>2. pc = "start" /\ StartUnchanged
    BY <1>6, StartedAs
  <2>3. remote[Dst].blocks \in Seq(Block) /\ Dst \in Names /\ clock \in Nat
    BY RemoteFile, Fields
  <2>4. offset \in Nat /\ offset <= Len(remote[Dst].blocks)
    <3>1. offset = 0 \/ offset = wanted
      BY <2>1 DEF StartsAs
    <3>2. wanted <= Len(remote[Dst].blocks) /\ Len(remote[Dst].blocks) \in Nat /\ offset \in Nat
      BY <2>2, RemoteFile, Fields, Bounds DEF ViewInv, Size
    <3> QED
      BY <3>1, <3>2
  <2>5. SubSeq(remote[Dst].blocks, 1, offset) \in Seq(Block)
    BY <2>3, <2>4
  <2>6. PICK s \in Seq(Block) :
          remote' = [remote EXCEPT ![Dst] = [there |-> TRUE, mtime |-> clock, blocks |-> s]]
    BY <2>1, <2>3, <2>5 DEF Written
  <2>7. remote' \in [Names -> FileRecord]
    BY <2>3, <2>6, FileType, FilesType, ReplaceType
  <2>8. taint' \in [Names -> SUBSET Reasons]
    BY <2>1, FilesType DEF Written
  <2> QED
    BY <2>2, <2>7, <2>8 DEF StartUnchanged, TypeOK, FileTypeOK
<1>7. CASE PutBlock
  <2>1. local.ver \in 0 .. MaxVersion /\ from < local.len /\ from \in Nat /\ local.len \in 0 .. MaxLen
    BY <1>7, Fields, Numbers DEF PutBlock
  <2>2. <<local.ver, from'>> \in Block
    <3>1. from' = from + 1
      BY <1>7 DEF PutBlock
    <3>2. from' \in 1 .. MaxLen
      BY <2>1, <3>1, Bounds
    <3> QED
      BY <2>1, <3>2 DEF Block
  <2>3. Append(remote[Dst].blocks, <<local.ver, from'>>) \in Seq(Block)
    BY <2>2, RemoteFile, Fields
  <2>4. clock \in Nat
    BY Fields
  <2>5. PICK s \in Seq(Block) : remote' = [remote EXCEPT ![Dst].blocks = s, ![Dst].mtime = clock]
    BY <1>7, <2>3, FilesType DEF PutBlock
  <2>6. remote' = [remote EXCEPT ![Dst] = [remote[Dst] EXCEPT !.blocks = s, !.mtime = clock]]
    BY <2>5, FilesType
  <2>7. remote' \in [Names -> FileRecord]
    BY <2>4, <2>6, FileType, FilesType, ReplaceType
  <2>8. UNCHANGED <<local, was, clock, lens, taint>>
    BY <1>7 DEF PutBlock, LoopUnchanged, history
  <2> QED
    BY <2>7, <2>8, FilesType DEF TypeOK, FileTypeOK
<1>8. CASE Displace
  <2>1. NoFile \in FileRecord
    BY DEF NoFile, FileRecord
  <2>2. remote' \in [Names -> FileRecord] /\ taint' \in [Names -> SUBSET Reasons]
    BY <1>8, <2>1, FilesType DEF Displace
  <2> QED
    BY <1>8, <2>2 DEF Displace, EndUnchanged, TypeOK, FileTypeOK
<1>9. CASE Utime
  <2>1. PICK done \in BOOLEAN :
         /\ remote' = IF done THEN [remote EXCEPT !["final"].mtime = local.mtime] ELSE remote
         /\ taint' = IF done /\ (result # "ok" \/ (call.temp /\ cmd = "APPE"))
                     THEN [taint EXCEPT !["final"] = @ \cup {"misdated"}] ELSE taint
    BY <1>9 DEF Utime
  <2>2. local.mtime \in Nat
    BY Fields
  <2>3. remote' \in [Names -> FileRecord]
    <3>1. remote' = remote \/ remote' = [remote EXCEPT !["final"] = [remote["final"] EXCEPT !.mtime = local.mtime]]
      BY <2>1, FilesType
    <3>2. "final" \in Names /\ remote["final"] \in FileRecord
      BY FilesType
    <3>3. [remote["final"] EXCEPT !.mtime = local.mtime] \in FileRecord
      BY <2>2, <3>2 DEF FileRecord
    <3> QED
      BY <3>1, <3>2, <3>3, FilesType, ReplaceType
  <2>4. taint' \in [Names -> SUBSET Reasons]
    BY <2>1 DEF TypeOK, Reasons
  <2> QED
    BY <1>9, <2>3, <2>4 DEF Utime, EndUnchanged, TypeOK, FileTypeOK
<1>10. CASE Unlink
  BY <1>10 DEF Unlink, history, TypeOK, FileTypeOK, FileRecord, Reasons, LocalRecord
<1>11. CASE Edit
  <2>1. PICK n \in 0 .. MaxLen :
           /\ local' = [there |-> TRUE, ver |-> local.ver + 1, len |-> n, mtime |-> clock']
           /\ lens' = [lens EXCEPT ![local'.ver] = n]
    BY <1>11 DEF Edit
  <2>2. clock' \in Nat /\ UNCHANGED <<remote, taint, was>>
    BY <1>11, Bounds, Numbers DEF Edit
  <2>3. local.ver + 1 \in 0 .. MaxVersion
    BY <1>11, Numbers, Bounds DEF Edit
  <2>4. local' \in LocalRecord
    BY <2>1, <2>2, <2>3 DEF LocalRecord
  <2>5. lens' \in [0 .. MaxVersion -> 0 .. MaxLen]
    BY <2>1 DEF TypeOK
  <2> QED
    BY <2>2, <2>4, <2>5 DEF TypeOK, FileTypeOK, FileRecord, Reasons
<1> QED
  BY <1>1, <1>2, <1>3, <1>4, <1>5, <1>6, <1>7, <1>8, <1>9, <1>10, <1>11 DEF Next, Library

LEMMA TypeNext == TypeOK /\ ViewInv /\ [Next]_vars => TypeOK'
<1> SUFFICES ASSUME TypeOK, ViewInv, [Next]_vars PROVE TypeOK'
  OBVIOUS
<1>1. ScalarTypeOK' /\ RecordTypeOK' /\ FileTypeOK'
  BY ScalarTypeNext, RecordTypeNext, FileTypeNext
<1> QED
  BY <1>1 DEF TypeOK, ScalarTypeOK, RecordTypeOK, FileTypeOK, FileRecord, Reasons

\* Every parameter, field, file and note of an upload keeps its type: in particular
\* no upload is resumed beyond the end of the remote file.
THEOREM TypeCorrect == Spec => []TypeOK
<1>1. Init => TypeOK /\ ViewInv
  BY TypeInit DEF Init, ViewInv
<1>2. TypeOK /\ ViewInv /\ [Next]_vars => (TypeOK /\ ViewInv)'
  BY TypeNext, ViewNext
<1> QED
  BY <1>1, <1>2, PTL DEF Spec


-----------------------------------------------------------------------------
(* Time, and where a call can be.                                          *)

\* Nothing is dated later than now.
TimeInv ==
    /\ local.mtime <= clock
    /\ \A n \in Names : remote[n].mtime <= clock

\* Only a program that is idle has no local file; a call that is under way is about
\* the file that was there when it began, and only one with a temporary name leaves
\* direct as it was; nothing is called the same and sent.
CallInv ==
    /\ ~local.there => pc = "idle"
    /\ pc # "idle" => was = local /\ (direct \/ call.temp)
    /\ call.op = "mem" => ~call.temp /\ ~call.resume /\ ~call.delete
    /\ pc = "ask" => call.op = "file"
    /\ pc \in {"rename", "displace", "again"} => call.temp /\ cmd = "STOR"
    /\ pc \in {"rename", "displace", "again", "utime", "unlink"} => call.op = "file"
    /\ zaction = "same" => pc \in {"idle", "unlink"}

\* The result at each point: only what was sent, or found to be the same, gets to the
\* end of the call.
ResultInv ==
    /\ pc \in {"probe", "ask", "decide", "start", "put"} => result = "ok"
    /\ pc \in {"displace", "again"} => result = "rename"
    /\ pc = "rename" => result = "ok"
    /\ pc = "utime" => result \in {"ok", "rename"}
    /\ pc = "unlink" => result \in {"ok", "same"} /\ call.delete
    /\ result = "same" => pc \in {"idle", "unlink"}

LEMMA CallInit == Init => TimeInv /\ CallInv /\ ResultInv
<1> SUFFICES ASSUME Init PROVE TimeInv /\ CallInv /\ ResultInv
  OBVIOUS
<1>1. PICK n \in 1 .. MaxLen, old \in 0 .. 1 :
         /\ local = [there |-> TRUE, ver |-> 1, len |-> n, mtime |-> Gap]
         /\ remote = [temp |-> NoFile,
                      final |-> IF old = 0 THEN NoFile
                                ELSE [there |-> TRUE, blocks |-> Whole(0, old), mtime |-> 0]]
  BY DEF Init
<1>2. TimeInv
  BY <1>1, Bounds DEF Init, TimeInv, Names, NoFile
<1>3. CallInv /\ ResultInv
  BY <1>1 DEF Init, CallInv, ResultInv, NoCall
<1> QED
  BY <1>2, <1>3


LEMMA CallNext == TypeOK /\ CallInv /\ [Next]_vars => CallInv'
<1> SUFFICES ASSUME TypeOK, CallInv, [Next]_vars PROVE CallInv'
  OBVIOUS
<1> USE DEF world, client, history, CallInv
<1>1. ASSUME NEW c \in Calls, Call(c) PROVE CallInv'
  <2>1. c \in CallRecord /\ (c.op = "mem" => ~c.temp /\ ~c.resume /\ ~c.delete)
    BY CallsAssumption
  <2> QED
    BY <1>1, <2>1 DEF Call, CallRecord
<1>2. CASE DecidePlain \/ ResumeBinary \/ ResumeAscii
  <2>1. PICK command \in {"STOR", "APPE"}, startPoint \in 0 .. MaxLen, position \in 0 .. MaxLen,
             reasons \in SUBSET Reasons : TransferBy(command, startPoint, position, reasons)
    BY <1>2, Decided
  <2>2. pc = "decide" /\ zaction' \in {"resume", "append", "overwrite"}
    BY <1>2, Decided
  <2> QED
    BY <2>1, <2>2 DEF TransferBy, DecideUnchanged
<1>3. CASE Rename \/ RenameAgain
  <2>1. PICK otherwise \in {"displace", "utime"} :
             /\ pc \in {"rename", "again"}
             /\ Renames("utime", otherwise) /\ (otherwise = "displace" => pc = "rename")
             /\ otherwise = "utime" => pc = "again"
    BY <1>3, Renamed
  <2>2. PICK done \in BOOLEAN, told \in BOOLEAN :
             /\ done => net.up /\ remote["temp"].there
             /\ remote' = IF done THEN [temp |-> NoFile, final |-> remote["temp"]] ELSE remote
             /\ taint' = IF done THEN [temp |-> {}, final |-> taint["temp"]] ELSE taint
             /\ net' = [net EXCEPT !.up = @ /\ told]
             /\ result' = IF done /\ told THEN "ok" ELSE "rename"
             /\ pc' = IF done /\ told THEN "utime" ELSE otherwise
             /\ UNCHANGED <<has, was, lens, direct>> /\ EndUnchanged
    BY <2>1, RenamedAs
  <2> QED
    BY <2>1, <2>2 DEF EndUnchanged
<1>4. CASE Probe
  BY <1>4 DEF Probe
<1>5. CASE Ask
  BY <1>5 DEF Ask
<1>6. CASE DecideSame
  BY <1>6 DEF DecideSame, DecideUnchanged, Undated
<1>7. CASE AsciiSeekFails \/ StartFails
  BY <1>7 DEF AsciiSeekFails, DecideUnchanged, StartFails, StartUnchanged
<1>8. CASE TransferStarts
  <2>1. /\ pc = "start" /\ StartUnchanged
        /\ (pc' = "put" /\ result' = result) \/ (pc' = "idle" /\ result' = "failed")
        /\ wanted' \in 0 .. MaxLen /\ from' \in 0 .. MaxLen
    BY <1>8, StartedAs
  <2> QED
    BY <2>1 DEF StartUnchanged
<1>9. CASE PutBlock
  BY <1>9 DEF PutBlock, LoopUnchanged
<1>10. CASE PutEndOfFile
  BY <1>10 DEF PutEndOfFile, LoopUnchanged
<1>11. CASE PutFails
  BY <1>11 DEF PutFails, LoopUnchanged
<1>12. CASE Cancel
  BY <1>12 DEF Cancel, LoopUnchanged
<1>13. CASE End
  BY <1>13, CallFields DEF End, EndUnchanged
<1>14. CASE Displace
  BY <1>14 DEF Displace, EndUnchanged
<1>15. CASE Utime
  BY <1>15 DEF Utime, EndUnchanged
<1>16. CASE Unlink
  BY <1>16 DEF Unlink
<1>17. CASE ConnectionLost
  BY <1>17 DEF ConnectionLost
<1>18. CASE Edit
  BY <1>18 DEF Edit
<1>19. CASE Restart
  BY <1>19 DEF Restart
<1>20. CASE UNCHANGED vars
  BY <1>20 DEF vars
<1> QED
  BY <1>1, <1>2, <1>3, <1>4, <1>5, <1>6, <1>7, <1>8, <1>9, <1>10, <1>11, <1>12, <1>13,
     <1>14, <1>15, <1>16, <1>17, <1>18, <1>19, <1>20 DEF Next, Library

LEMMA ResultNext == TypeOK /\ CallInv /\ ResultInv /\ [Next]_vars => ResultInv'
<1> SUFFICES ASSUME TypeOK, CallInv, ResultInv, [Next]_vars PROVE ResultInv'
  OBVIOUS
<1> USE DEF world, client, history, ResultInv
<1>1. ASSUME NEW c \in Calls, Call(c) PROVE ResultInv'
  <2>1. c \in CallRecord /\ (c.op = "mem" => ~c.temp /\ ~c.resume /\ ~c.delete)
    BY CallsAssumption
  <2> QED
    BY <1>1, <2>1 DEF Call, CallRecord
<1>2. CASE DecidePlain \/ ResumeBinary \/ ResumeAscii
  <2>1. PICK command \in {"STOR", "APPE"}, startPoint \in 0 .. MaxLen, position \in 0 .. MaxLen,
             reasons \in SUBSET Reasons : TransferBy(command, startPoint, position, reasons)
    BY <1>2, Decided
  <2>2. pc = "decide" /\ zaction' \in {"resume", "append", "overwrite"}
    BY <1>2, Decided
  <2> QED
    BY <2>1, <2>2 DEF TransferBy, DecideUnchanged
<1>3. CASE Rename \/ RenameAgain
  <2>1. PICK otherwise \in {"displace", "utime"} :
             /\ pc \in {"rename", "again"}
             /\ Renames("utime", otherwise) /\ (otherwise = "displace" => pc = "rename")
             /\ otherwise = "utime" => pc = "again"
    BY <1>3, Renamed
  <2>2. PICK done \in BOOLEAN, told \in BOOLEAN :
             /\ done => net.up /\ remote["temp"].there
             /\ remote' = IF done THEN [temp |-> NoFile, final |-> remote["temp"]] ELSE remote
             /\ taint' = IF done THEN [temp |-> {}, final |-> taint["temp"]] ELSE taint
             /\ net' = [net EXCEPT !.up = @ /\ told]
             /\ result' = IF done /\ told THEN "ok" ELSE "rename"
             /\ pc' = IF done /\ told THEN "utime" ELSE otherwise
             /\ UNCHANGED <<has, was, lens, direct>> /\ EndUnchanged
    BY <2>1, RenamedAs
  <2> QED
    BY <2>1, <2>2 DEF EndUnchanged
<1>4. CASE Probe
  BY <1>4 DEF Probe
<1>5. CASE Ask
  BY <1>5 DEF Ask
<1>6. CASE DecideSame
  BY <1>6 DEF DecideSame, DecideUnchanged, Undated
<1>7. CASE AsciiSeekFails \/ StartFails
  BY <1>7 DEF AsciiSeekFails, DecideUnchanged, StartFails, StartUnchanged
<1>8. CASE TransferStarts
  <2>1. /\ pc = "start" /\ StartUnchanged
        /\ (pc' = "put" /\ result' = result) \/ (pc' = "idle" /\ result' = "failed")
        /\ wanted' \in 0 .. MaxLen /\ from' \in 0 .. MaxLen
    BY <1>8, StartedAs
  <2> QED
    BY <2>1 DEF StartUnchanged
<1>9. CASE PutBlock
  BY <1>9 DEF PutBlock, LoopUnchanged
<1>10. CASE PutEndOfFile
  BY <1>10 DEF PutEndOfFile, LoopUnchanged
<1>11. CASE PutFails
  BY <1>11 DEF PutFails, LoopUnchanged
<1>12. CASE Cancel
  BY <1>12 DEF Cancel, LoopUnchanged
<1>13. CASE End
  BY <1>13 DEF End, EndUnchanged
<1>14. CASE Displace
  BY <1>14 DEF Displace, EndUnchanged
<1>15. CASE Utime
  BY <1>15 DEF Utime, EndUnchanged
<1>16. CASE Unlink
  BY <1>16 DEF Unlink
<1>17. CASE ConnectionLost
  BY <1>17 DEF ConnectionLost
<1>18. CASE Edit
  BY <1>18 DEF Edit
<1>19. CASE Restart
  BY <1>19 DEF Restart
<1>20. CASE UNCHANGED vars
  BY <1>20 DEF vars
<1> QED
  BY <1>1, <1>2, <1>3, <1>4, <1>5, <1>6, <1>7, <1>8, <1>9, <1>10, <1>11, <1>12, <1>13,
     <1>14, <1>15, <1>16, <1>17, <1>18, <1>19, <1>20 DEF Next, Library

LEMMA TimeNext == TypeOK /\ TimeInv /\ [Next]_vars => TimeInv'
<1> SUFFICES ASSUME TypeOK, TimeInv, [Next]_vars PROVE TimeInv'
  OBVIOUS
<1>1. ASSUME NEW c \in Calls, Call(c) PROVE TimeInv'
  <2>1. clock' = clock + Gap /\ remote' = remote /\ local' = local
    BY <1>1 DEF Call
  <2>2. \A n \in Names : remote[n].mtime \in Nat
    BY RemoteFile
  <2> QED
    BY <2>1, <2>2, Numbers, Bounds DEF TimeInv
<1>2. CASE Probe \/ Ask \/ AsciiSeekFails \/ StartFails \/ PutEndOfFile \/ PutFails \/ Cancel \/ End \/
            ConnectionLost \/ Restart \/ UNCHANGED vars
  BY <1>2, FilesStand DEF TimeInv
<1>3. CASE DecidePlain \/ ResumeBinary \/ ResumeAscii
  <2>1. UNCHANGED <<remote, local, clock>>
    BY <1>3, DecidedFiles
  <2> QED
    BY <2>1 DEF TimeInv
<1>4. CASE Rename \/ RenameAgain
  <2>1. PICK otherwise \in {"displace", "utime"} : Renames("utime", otherwise)
    BY <1>4, Renamed
  <2>2. PICK done \in BOOLEAN :
             /\ remote' = IF done THEN [temp |-> NoFile, final |-> remote["temp"]] ELSE remote
             /\ EndUnchanged
    BY <2>1, RenamedAs
  <2>3. \A n \in Names : remote'[n].mtime \in {0, remote[n].mtime, remote["temp"].mtime}
    BY <2>2 DEF Names, NoFile
  <2>4. local' = local /\ clock' = clock /\ clock \in Nat /\ "temp" \in Names
    BY <2>2, Fields, FilesType DEF EndUnchanged
  <2> QED
    BY <2>3, <2>4 DEF TimeInv
<1>5. CASE DecideSame
  BY <1>5 DEF DecideSame, DecideUnchanged, world, TimeInv
<1>6. CASE TransferStarts
  <2>1. PICK command \in {"STOR", "APPE"}, offset \in 0 .. MaxLen : Written(command, offset)
    BY <1>6, StartedAs
  <2>2. local' = local /\ clock' = clock
    BY <1>6, StartedAs DEF StartUnchanged
  <2> QED
    BY <2>1, <2>2, WrittenTo, Fields DEF TimeInv
<1>7. CASE PutBlock
  <2>1. local' = local /\ clock' = clock
    BY <1>7 DEF PutBlock, LoopUnchanged
  <2> QED
    BY <1>7, <2>1, PutTo, Fields DEF TimeInv
<1>8. CASE Displace
  <2>1. remote' = remote \/ remote' = [remote EXCEPT !["final"] = NoFile]
    BY <1>8 DEF Displace
  <2>2. local' = local /\ clock' = clock
    BY <1>8 DEF Displace, EndUnchanged
  <2> QED
    BY <2>1, <2>2, FilesType, Fields DEF TimeInv, NoFile
<1>9. CASE Utime
  <2>1. local' = local /\ clock' = clock
    BY <1>9 DEF Utime, EndUnchanged
  <2>2. ASSUME NEW n \in Names PROVE remote'[n].mtime \in {remote[n].mtime, local.mtime}
    BY <1>9, DatedTo
  <2> QED
    BY <2>1, <2>2 DEF TimeInv
<1>10. CASE Unlink
  BY <1>10, UnlinkedTo DEF TimeInv
<1>11. CASE Edit
  <2>1. clock' = clock + Gap /\ remote' = remote /\ local'.mtime = clock'
    BY <1>11 DEF Edit
  <2>2. \A n \in Names : remote[n].mtime \in Nat
    BY RemoteFile
  <2> QED
    BY <2>1, <2>2, Numbers, Bounds DEF TimeInv
<1> QED
  BY <1>1, <1>2, <1>3, <1>4, <1>5, <1>6, <1>7, <1>8, <1>9, <1>10, <1>11 DEF Next, Library

-----------------------------------------------------------------------------
(* What the remote files hold.                                             *)

Clean(n) == remote[n].there /\ taint[n] = {}
Fits(n) == remote[n].blocks = Whole(local.ver, Size(n)) /\ Size(n) <= local.len
Holds(n) == remote[n].there /\ (taint[n] = {} => remote[n].blocks = Content(local))

\* A remote file that is not a splice and not older than the local file is a
\* beginning of it: what FTPPutOneF trusts when it compares times (io_put.c:383).
FileInv ==
    \A n \in Names : Clean(n) => /\ Prefix(remote[n].blocks)
                                 /\ local.mtime <= remote[n].mtime + 1 => Fits(n)

\* What is sent is either sent from the beginning or appended to what fits; at every
\* point the remote file is what has been read from the local one.
PutInv ==
    /\ pc = "start" =>
         /\ cmd = "STOR" /\ wanted = 0 => from = 0
         /\ cmd = "APPE" => wanted = 0
         /\ taint[Dst] = {} /\ (cmd = "APPE" \/ wanted # 0) =>
              remote[Dst].there /\ Fits(Dst) /\ from = Size(Dst) /\ wanted \in {0, from}
    /\ pc \in {"put", "end"} => remote[Dst].there
    /\ pc = "put" /\ taint[Dst] = {} => remote[Dst].blocks = Whole(local.ver, from) /\ from <= local.len
    /\ pc = "end" /\ result = "ok" => Holds(Dst)

\* Where the file is stored that a call is about.
Where == IF call.temp /\ (zaction = "same" \/ cmd = "APPE") THEN "temp" ELSE "final"

\* What was sent is under the temporary name until it is renamed, also while the old
\* file is in the way, unless the connection is lost; then it is stored for good.
StoredInv ==
    /\ pc = "rename" \/ (pc \in {"displace", "again"} /\ net.up) => Holds("temp")
    /\ pc \in {"utime", "unlink"} /\ result \in {"ok", "same"} => Holds(Where)
    /\ OkMeansStored
    /\ DeletedMeansStored

\* A part of the local file, of its own length, is a beginning of one version.
LEMMA FitsIsPrefix ==
    ASSUME TypeOK, NEW n \in Names, Fits(n)
    PROVE  Prefix(remote[n].blocks)
  BY Fields DEF Fits, Prefix, Size

\* A file that the server says is not older, and not a splice, fits.
LEMMA SeenFits ==
    ASSUME TypeOK, ViewInv, FileInv, pc = "decide", Decision \in {"same", "resume"},
           view.mdtm # Unknown, taint[Dst] = {}
    PROVE  remote[Dst].there /\ Fits(Dst) /\ Size(Dst) = view.size
<1>1. /\ remote[Dst].there /\ view.size = Size(Dst) /\ view.mdtm = remote[Dst].mtime
      /\ local.mtime <= view.mdtm + 1
  BY Guessed DEF ViewInv, Unknown
<1>2. Clean(Dst) /\ Dst \in Names
  BY <1>1, Fields DEF Clean
<1> QED
  BY <1>1, <1>2 DEF FileInv

\* The decision.
LEMMA PutDecided ==
    ASSUME TypeOK, ViewInv, FileInv, PutInv, DecidePlain \/ ResumeBinary \/ ResumeAscii
    PROVE  PutInv'
<1>1. PICK command \in {"STOR", "APPE"}, startPoint \in 0 .. MaxLen, position \in 0 .. MaxLen,
           reasons \in SUBSET Reasons : /\ TransferBy(command, startPoint, position, reasons)
                                        /\ Sound(command, startPoint, position, reasons)
  BY Decided
<1>2. pc = "decide" /\ pc' = "start" /\ UNCHANGED <<remote, local, call>>
  BY DecidedFiles
<1>3. cmd' = command /\ wanted' = startPoint /\ from' = position /\ taint'[Dst] = taint[Dst] \cup reasons
  BY <1>1, Fields DEF TransferBy
<1>4. Dst' = Dst
  BY <1>2 DEF Dst
<1>5. command = "STOR" /\ startPoint = 0 => position = 0
  BY <1>1 DEF Sound
<1>6. command = "APPE" => startPoint = 0
  BY <1>1 DEF Sound
<1>7. ASSUME taint'[Dst] = {}, command = "APPE" \/ startPoint # 0
      PROVE  remote[Dst].there /\ Fits(Dst) /\ position = Size(Dst) /\ startPoint \in {0, position}
  <2>1. reasons = {} /\ taint[Dst] = {}
    BY <1>3, <1>7
  <2>2. Decision = "resume" /\ view.mdtm # Unknown /\ position = view.size
    BY <1>1, <1>7, <2>1 DEF Sound
  <2>3. remote[Dst].there /\ Fits(Dst) /\ Size(Dst) = view.size
    BY <1>2, <2>1, <2>2, SeenFits
  <2>4. startPoint = 0 \/ startPoint = view.size
    BY <1>1 DEF Sound
  <2> QED
    BY <2>2, <2>3, <2>4
<1>8. Fits(Dst)' = Fits(Dst) /\ Size(Dst)' = Size(Dst)
  BY <1>2, <1>4 DEF Fits, Size
<1> QED
  BY <1>2, <1>3, <1>4, <1>5, <1>6, <1>7, <1>8 DEF PutInv

\* The start.
LEMMA PutStarted ==
    ASSUME TypeOK, PutInv, TransferStarts
    PROVE  PutInv'
<1>1. PICK command \in {"STOR", "APPE"}, offset \in 0 .. MaxLen, position \in 0 .. MaxLen :
         /\ wanted' = offset /\ from' = position
         /\ Written(command, offset) /\ StartsAs(command, offset, position)
  BY StartedAs
<1>0. SUFFICES ASSUME pc' = "put" PROVE PutInv'
  <2>1. pc' \in {"put", "idle"}
    BY StartedAs
  <2> QED
    BY <2>1 DEF PutInv
<1>2. pc = "start" /\ local' = local /\ call' = call
  BY StartedAs DEF StartUnchanged
<1>3. Dst' = Dst /\ Dst \in Names
  BY <1>2, Fields DEF Dst
<1>4. /\ remote'[Dst].there
      /\ remote'[Dst].blocks = IF command = "APPE" THEN remote[Dst].blocks
                               ELSE SubSeq(remote[Dst].blocks, 1, offset)
      /\ taint'[Dst] = IF command = "STOR" /\ offset = 0 THEN {} ELSE taint[Dst]
  BY <1>1, WrittenTo
<1>5. remote[Dst].blocks \in Seq(Block)
  BY <1>3, RemoteFile
<1>6. CASE command = "STOR" /\ offset = 0
  <2>1. position = 0
    BY <1>1, <1>2, <1>6 DEF StartsAs, PutInv
  <2>2. remote'[Dst].blocks = <<>>
    BY <1>4, <1>5, <1>6, WholeSame
  <2>3. remote'[Dst].blocks = Whole(local.ver, position)
    BY <2>1, <2>2, WholeEmpty
  <2>4. position <= local.len
    BY <2>1, Numbers
  <2> QED
    BY <1>0, <1>1, <1>2, <1>3, <1>4, <2>3, <2>4 DEF PutInv
<1>7. CASE ~(command = "STOR" /\ offset = 0)
  <2>1. SUFFICES ASSUME taint'[Dst] = {}
                 PROVE  remote'[Dst].blocks = Whole(local.ver, position) /\ position <= local.len
    BY <1>0, <1>1, <1>2, <1>3, <1>4 DEF PutInv
  <2>2. taint[Dst] = {}
    BY <1>4, <1>7, <2>1
  <2>3. cmd = "APPE" \/ wanted # 0
    BY <1>1, <1>7 DEF StartsAs
  <2>4. Fits(Dst) /\ from = Size(Dst) /\ wanted \in {0, from}
    BY <1>2, <2>2, <2>3 DEF PutInv
  <2>5. position = from /\ (command # "APPE" => offset = from)
    BY <1>1, <1>2, <1>7, <2>4 DEF StartsAs, PutInv
  <2>6. remote'[Dst].blocks = remote[Dst].blocks
    BY <1>4, <1>5, <2>4, <2>5, WholeSame DEF Size
  <2> QED
    BY <2>4, <2>5, <2>6 DEF Fits
<1> QED
  BY <1>6, <1>7

\* The loop.
LEMMA PutWritten ==
    ASSUME TypeOK, PutInv, PutBlock
    PROVE  PutInv'
<1>1. /\ remote'[Dst].there = remote[Dst].there
      /\ remote'[Dst].blocks = Append(remote[Dst].blocks, <<local.ver, from + 1>>)
      /\ UNCHANGED <<local, taint, call>>
      /\ pc = "put" /\ from < local.len /\ from' = from + 1 /\ pc' = "put"
  BY PutTo
<1>2. Dst' = Dst
  BY <1>1 DEF Dst
<1>3. from \in Nat /\ local.len \in Nat /\ local.len <= MaxLen /\ MaxLen \in Nat
  BY Numbers, Bounds
<1>4. from < MaxLen /\ from + 1 <= local.len
  BY <1>1, <1>3
<1>5. local.ver \in 0 .. MaxVersion
  BY Fields
<1>6. Append(Whole(local.ver, from), <<local.ver, from + 1>>) = Whole(local.ver, from + 1)
  BY <1>3, <1>4, <1>5, WholeAppend
<1> QED
  BY <1>1, <1>2, <1>4, <1>6 DEF PutInv


LEMMA PutNext == TypeOK /\ ViewInv /\ CallInv /\ FileInv /\ PutInv /\ [Next]_vars => PutInv'
<1> SUFFICES ASSUME TypeOK, ViewInv, CallInv, FileInv, PutInv, [Next]_vars PROVE PutInv'
  OBVIOUS
<1>1. ASSUME NEW c \in Calls, Call(c) PROVE PutInv'
  <2>1. pc' \in {"idle", "probe", "decide"}
    BY <1>1 DEF Call
  <2> QED
    BY <2>1 DEF PutInv
<1>2. CASE DecidePlain \/ ResumeBinary \/ ResumeAscii
  BY <1>2, PutDecided
<1>3. CASE PutFails \/ Cancel
  <2>1. pc = "put" /\ pc' = "end" /\ result' # "ok" /\ UNCHANGED <<remote, local, taint, call>>
    BY <1>3, FilesStand DEF PutFails, Cancel
  <2>2. Dst' = Dst
    BY <2>1 DEF Dst
  <2> QED
    BY <2>1, <2>2 DEF PutInv
<1>4. CASE Probe \/ Ask \/ DecideSame
  <2>1. pc' \in {"ask", "decide", "unlink", "idle"}
    BY <1>4 DEF Probe, Ask, DecideSame
  <2> QED
    BY <2>1 DEF PutInv
<1>5. CASE AsciiSeekFails \/ StartFails \/ End \/ Rename \/ Displace \/ RenameAgain \/ Utime \/ Unlink \/
            Edit \/ Restart
  <2>1. pc' \in {"idle", "rename", "displace", "again", "utime", "unlink"}
    BY <1>5 DEF AsciiSeekFails, StartFails, End, Rename, RenameAgain, Renames, Displace, Utime, Unlink, Edit,
               Restart, client
  <2> QED
    BY <2>1 DEF PutInv
<1>6. CASE ConnectionLost \/ UNCHANGED vars
  <2>1. UNCHANGED <<pc, result, wanted, from, cmd, remote, local, taint, call>>
    BY <1>6 DEF ConnectionLost, client, world, history, vars
  <2> QED
    BY <2>1 DEF PutInv, Dst, Fits, Holds, Size, Content, Whole
<1>7. CASE TransferStarts
  BY <1>7, PutStarted
<1>8. CASE PutBlock
  BY <1>8, PutWritten
<1>9. CASE PutEndOfFile
  <2>1. pc = "put" /\ from = local.len /\ pc' = "end" /\ UNCHANGED <<remote, local, taint, call>>
    BY <1>9, FilesStand DEF PutEndOfFile
  <2>2. Dst' = Dst
    BY <2>1 DEF Dst
  <2> QED
    BY <2>1, <2>2 DEF PutInv, Holds, Content
<1> QED
  BY <1>1, <1>2, <1>3, <1>4, <1>5, <1>6, <1>7, <1>8, <1>9 DEF Next, Library

\* What a transfer has begun or written, were it to end here.
Begun == taint[Dst] = {} => remote[Dst].blocks = Whole(local.ver, from) /\ from <= local.len

LEMMA BegunAs ==
    ASSUME TypeOK, TypeOK', PutInv', TransferStarts \/ PutBlock
    PROVE  Begun'
<1>1. CASE pc' = "put"
  BY <1>1 DEF PutInv, Begun
<1>2. CASE pc' # "put"
  <2>1. TransferStarts
    BY <1>2 DEF PutBlock
  <2>2. UNCHANGED local /\ Dst' = Dst /\ Dst \in Names
    BY <2>1, StartedAs, Fields DEF StartUnchanged, Dst
  <2>3. Written("STOR", 0) /\ from' = 0
    BY <1>2, <2>1, StartedAs
  <2>4. remote'[Dst].blocks = SubSeq(remote[Dst].blocks, 1, 0)
    BY <2>3, WrittenTo
  <2>5. remote[Dst].blocks \in Seq(Block)
    BY <2>2, RemoteFile
  <2>6. remote'[Dst].blocks = <<>>
    BY <2>4, <2>5, WholeSame
  <2>7. remote'[Dst].blocks = Whole(local.ver, 0)
    BY <2>6, WholeEmpty
  <2>8. 0 <= local.len
    BY Numbers
  <2> QED
    BY <2>2, <2>3, <2>7, <2>8 DEF Begun
<1> QED
  BY <1>1, <1>2

\* What a transfer has written is a beginning of one version, and fits it.
LEMMA FileWritten ==
    ASSUME TypeOK, TypeOK', PutInv', FileInv, TransferStarts \/ PutBlock
    PROVE  FileInv'
<1>1. /\ Dst' = Dst /\ Begun' /\ local' = local
      /\ \A n \in Names \ {Dst} : remote'[n] = remote[n] /\ taint'[n] = taint[n]
  <2>1. CASE TransferStarts
    <3>1. PICK command \in {"STOR", "APPE"}, offset \in 0 .. MaxLen : Written(command, offset)
      BY <2>1, StartedAs
    <3>2. Begun' /\ local' = local /\ call' = call
      BY <2>1, StartedAs, BegunAs DEF StartUnchanged
    <3> QED
      BY <3>1, <3>2, WrittenTo DEF Dst
  <2>2. CASE PutBlock
    BY <2>2, PutTo, BegunAs DEF Dst
  <2> QED
    BY <2>1, <2>2
<1>2. SUFFICES ASSUME NEW n \in Names, Clean(n)'
               PROVE  /\ Prefix(remote'[n].blocks)
                      /\ local'.mtime <= remote'[n].mtime + 1 => Fits(n)'
  BY DEF FileInv
<1>3. CASE n = Dst
  <2>1. remote'[n].blocks = Whole(local'.ver, from') /\ from' <= local'.len
    BY <1>1, <1>2, <1>3 DEF Begun, Clean
  <2>2. from' \in 0 .. MaxLen /\ local'.ver \in 0 .. MaxVersion
    BY DEF TypeOK, LocalRecord
  <2>3. Len(remote'[n].blocks) = from'
    BY <2>1, <2>2, WholeSeq
  <2> QED
    BY <2>1, <2>2, <2>3 DEF Fits, Size, Prefix
<1>4. CASE n # Dst
  <2>1. remote'[n] = remote[n] /\ taint'[n] = taint[n] /\ local' = local
    BY <1>1, <1>4
  <2>2. Clean(n)
    BY <1>2, <2>1 DEF Clean
  <2> QED
    BY <2>1, <2>2 DEF FileInv, Fits, Size
<1> QED
  BY <1>3, <1>4

\* Setting the time of the final name: to that of the local file, when that is what
\* was stored there.
LEMMA FileDated ==
    ASSUME TypeOK, CallInv, ResultInv, StoredInv, FileInv, Utime
    PROVE  FileInv'
<1>1. local' = local /\ pc = "utime"
  BY DEF Utime, EndUnchanged
<1>2. SUFFICES ASSUME NEW n \in Names, Clean(n)'
               PROVE  /\ Prefix(remote'[n].blocks)
                      /\ local'.mtime <= remote'[n].mtime + 1 => Fits(n)'
  BY DEF FileInv
<1>3. /\ remote'[n].there = remote[n].there /\ remote'[n].blocks = remote[n].blocks
      /\ taint[n] \subseteq taint'[n]
      /\ \/ remote'[n].mtime = remote[n].mtime
         \/ /\ n = "final" /\ remote'[n].mtime = local.mtime
            /\ result # "ok" \/ (call.temp /\ cmd = "APPE") => taint'[n] # {}
  BY DatedTo
<1>4. taint'[n] = {} /\ Clean(n)
  BY <1>2, <1>3 DEF Clean
<1>5. Prefix(remote'[n].blocks)
  BY <1>3, <1>4 DEF FileInv
<1>6. Fits(n)' <=> Fits(n)
  BY <1>1, <1>3 DEF Fits, Size
<1>7. CASE remote'[n].mtime = remote[n].mtime
  BY <1>1, <1>4, <1>5, <1>6, <1>7 DEF FileInv
<1>8. CASE remote'[n].mtime # remote[n].mtime
  <2>1. n = "final" /\ result = "ok" /\ ~(call.temp /\ cmd = "APPE")
    BY <1>3, <1>4, <1>8
  <2>2. zaction # "same"
    BY <1>1 DEF CallInv
  <2>3. Where = "final"
    BY <2>1, <2>2 DEF Where
  <2>4. remote[n].blocks = Content(local)
    BY <1>1, <1>4, <2>1, <2>3 DEF StoredInv, Holds, Clean
  <2>5. Fits(n)
    BY <2>4, Fields, Numbers, WholeSeq DEF Fits, Size, Content
  <2> QED
    BY <1>5, <1>6, <2>5
<1> QED
  BY <1>7, <1>8

\* The local file is written anew: nothing on the server is younger.
LEMMA FileEdited ==
    ASSUME TypeOK, TimeInv, FileInv, Edit
    PROVE  FileInv'
<1>1. clock' = clock + Gap /\ local'.mtime = clock' /\ UNCHANGED <<remote, taint>>
  BY DEF Edit
<1>2. ASSUME NEW n \in Names PROVE ~(local'.mtime <= remote'[n].mtime + 1)
  <2>1. remote[n].mtime <= clock /\ remote[n].mtime \in Nat
    BY RemoteFile DEF TimeInv
  <2> QED
    BY <1>1, <2>1, Numbers, Bounds
<1> QED
  BY <1>1, <1>2 DEF FileInv, Clean


LEMMA FileNext == TypeOK /\ TypeOK' /\ TimeInv /\ CallInv /\ ResultInv /\ FileInv /\ StoredInv /\ PutInv' /\ [Next]_vars => FileInv'
<1> SUFFICES ASSUME TypeOK, TypeOK', TimeInv, CallInv, ResultInv, FileInv, StoredInv, PutInv', [Next]_vars PROVE FileInv'
  OBVIOUS
<1>1. ASSUME NEW c \in Calls, Call(c) PROVE FileInv'
  <2>1. UNCHANGED <<remote, taint, local>>
    BY <1>1 DEF Call
  <2> QED
    BY <2>1 DEF FileInv, Clean, Fits, Size
<1>2. CASE Probe \/ Ask \/ AsciiSeekFails \/ StartFails \/ PutEndOfFile \/ PutFails \/ Cancel \/ End \/
            ConnectionLost \/ Restart \/ UNCHANGED vars
  BY <1>2, FilesStand DEF FileInv, Clean, Fits, Size
<1>3. CASE DecidePlain \/ ResumeBinary \/ ResumeAscii
  <2>1. UNCHANGED <<remote, local>> /\ \A n \in Names : taint[n] \subseteq taint'[n]
    BY <1>3, DecidedFiles
  <2> QED
    BY <2>1 DEF FileInv, Clean, Fits, Size
<1>4. CASE TransferStarts \/ PutBlock
  BY <1>4, FileWritten
<1>5. CASE Rename \/ RenameAgain
  <2>1. PICK otherwise \in {"displace", "utime"} : Renames("utime", otherwise)
    BY <1>5, Renamed
  <2>2. PICK done \in BOOLEAN :
             /\ remote' = IF done THEN [temp |-> NoFile, final |-> remote["temp"]] ELSE remote
             /\ taint' = IF done THEN [temp |-> {}, final |-> taint["temp"]] ELSE taint
             /\ EndUnchanged
    BY <2>1, RenamedAs
  <2>3. local' = local
    BY <2>2 DEF EndUnchanged
  <2>4. ASSUME NEW n \in Names, Clean(n)'
        PROVE  \E m \in Names : remote'[n] = remote[m] /\ taint'[n] = taint[m]
    BY <2>2, <2>4 DEF Names, Clean, NoFile
  <2> QED
    BY <2>3, <2>4 DEF FileInv, Clean, Fits, Size
<1>6. CASE DecideSame
  <2>1. UNCHANGED <<remote, local>>
    BY <1>6 DEF DecideSame, DecideUnchanged, world
  <2>2. \A n \in Names : taint[n] \subseteq taint'[n]
    BY <1>6, FilesType DEF DecideSame
  <2> QED
    BY <2>1, <2>2 DEF FileInv, Clean, Fits, Size
<1>7. CASE Displace
  <2>1. PICK done \in BOOLEAN :
         /\ remote' = IF done THEN [remote EXCEPT !["final"] = NoFile] ELSE remote
         /\ taint' = IF done THEN [taint EXCEPT !["final"] = {}] ELSE taint
    BY <1>7 DEF Displace
  <2>2. local' = local
    BY <1>7 DEF Displace, EndUnchanged
  <2>3. ASSUME NEW n \in Names, Clean(n)'
        PROVE  remote'[n] = remote[n] /\ taint'[n] = taint[n]
    BY <2>1, <2>3, FilesType DEF Clean, NoFile
  <2> QED
    BY <2>2, <2>3 DEF FileInv, Clean, Fits, Size
<1>8. CASE Utime
  BY <1>8, FileDated
<1>9. CASE Unlink
  BY <1>9, UnlinkedTo DEF FileInv, Clean, Fits, Size
<1>10. CASE Edit
  BY <1>10, FileEdited
<1> QED
  BY <1>1, <1>2, <1>3, <1>4, <1>5, <1>6, <1>7, <1>8, <1>9, <1>10 DEF Next, Library

-----------------------------------------------------------------------------
(* Where it is stored.                                                     *)

\* A clean file that was found to be the same is the same.
LEMMA SameIsStored ==
    ASSUME TypeOK, ViewInv, CallInv, FileInv, StoredInv, DecideSame
    PROVE  StoredInv'
<1>1. /\ pc = "decide" /\ Decision = "same" /\ zaction' = "same" /\ result' = "same"
      /\ pc' \in {"unlink", "idle"}
      /\ taint' = [taint EXCEPT ![Dst] = @ \cup Undated]
      /\ UNCHANGED <<calls, call, cmd, remote, local, was>>
  BY DEF DecideSame, DecideUnchanged, world
<1>2. view.size # Unknown /\ view.size = local.len
  BY <1>1, Guessed DEF Unknown
<1>3. remote[Dst].there
  BY <1>1, <1>2 DEF ViewInv
<1>4. ASSUME taint'[Dst] = {} PROVE remote[Dst].blocks = Content(local)
  <2>1. taint[Dst] = {} /\ view.mdtm # Unknown
    BY <1>1, <1>4, Fields DEF Undated
  <2>2. Fits(Dst) /\ Size(Dst) = local.len
    BY <1>1, <1>2, <2>1, SeenFits
  <2> QED
    BY <2>2 DEF Fits, Content
<1>5. Where' = Dst
  BY <1>1 DEF Where, Dst
<1>6. was = local /\ local.there
  BY <1>1 DEF CallInv
<1>7. Holds(Where)' /\ (taint'[Where'] = {} => remote'[Where'].blocks = Content(was'))
  BY <1>1, <1>3, <1>4, <1>5, <1>6 DEF Holds, Content
<1>8. OkMeansStored'
  BY <1>7 DEF OkMeansStored, Returned, Holds, Where
<1>9. DeletedMeansStored'
  BY <1>1, <1>6 DEF DeletedMeansStored
<1> QED
  BY <1>1, <1>7, <1>8, <1>9 DEF StoredInv

\* The end of the transfer: under the name it was sent to.
LEMMA EndIsStored ==
    ASSUME TypeOK, CallInv, ResultInv, PutInv, StoredInv, End
    PROVE  StoredInv'
<1>1. /\ pc = "end" /\ (result' = "ok" => result = "ok")
      /\ result' = "same" => result = "same"
      /\ pc' = IF result' # "ok" \/ call.op = "mem" THEN "idle"
               ELSE IF call.temp /\ cmd = "STOR" THEN "rename" ELSE "utime"
      /\ UNCHANGED <<remote, taint, local, was, call, calls, cmd, zaction>>
  BY FilesStand DEF End, AsciiSeekFails
<1>2. was = local /\ local.there /\ zaction # "same"
  BY <1>1 DEF CallInv
<1>3. Holds(Dst)' = Holds(Dst) /\ Where' = Where
  BY <1>1 DEF Holds, Dst, Where, Content
<1>4. result' = "ok" => Holds(Dst)
  BY <1>1 DEF PutInv
<1>5. call.op = "mem" => ~call.temp
  BY <1>1 DEF CallInv
<1>6. ~(call.temp /\ cmd = "STOR") => Where = Dst
  BY <1>2, CallFields DEF Where, Dst
<1>7. pc' = "rename" => Holds("temp")'
  BY <1>1, <1>4 DEF Holds, Dst, Content
<1>8. pc' \in {"utime", "unlink"} /\ result' \in {"ok", "same"} => Holds(Where)'
  BY <1>1, <1>3, <1>4, <1>6 DEF Holds, Content
<1>9. OkMeansStored'
  <2>1. SUFFICES ASSUME pc' = "idle", result' \in {"ok", "same"}
                 PROVE  Holds(Where)
    BY <1>1, <1>2 DEF OkMeansStored, Returned, Holds, Where, Content
  <2>2. CASE result' = "ok"
    BY <1>1, <1>4, <1>5, <1>6, <2>1, <2>2
  <2>3. CASE result' = "same"
    BY <1>1, <2>3 DEF ResultInv
  <2> QED
    BY <2>1, <2>2, <2>3
<1>10. DeletedMeansStored'
  BY <1>1, <1>2 DEF DeletedMeansStored
<1> QED
  BY <1>1, <1>7, <1>8, <1>9, <1>10 DEF StoredInv

\* A rename moves what is under the temporary name; as long as the server answers, it
\* is still there when the rename is tried again.
LEMMA RenameIsStored ==
    ASSUME TypeOK, CallInv, ResultInv, StoredInv, Rename \/ RenameAgain
    PROVE  StoredInv'
<1>1. PICK otherwise \in {"displace", "utime"} :
             /\ pc \in {"rename", "again"}
             /\ Renames("utime", otherwise) /\ (otherwise = "displace" => pc = "rename")
             /\ otherwise = "utime" => pc = "again"
  BY Renamed
<1>2. PICK done \in BOOLEAN, told \in BOOLEAN :
             /\ done => net.up /\ remote["temp"].there
             /\ remote' = IF done THEN [temp |-> NoFile, final |-> remote["temp"]] ELSE remote
             /\ taint' = IF done THEN [temp |-> {}, final |-> taint["temp"]] ELSE taint
             /\ net' = [net EXCEPT !.up = @ /\ told]
             /\ result' = IF done /\ told THEN "ok" ELSE "rename"
             /\ pc' = IF done /\ told THEN "utime" ELSE otherwise
             /\ UNCHANGED <<has, was, lens, direct>> /\ EndUnchanged
  BY <1>1, RenamedAs
<1>3. UNCHANGED <<local, was, call, calls, cmd, zaction>>
  BY <1>2 DEF EndUnchanged
<1>4. local.there /\ was = local /\ call.temp /\ cmd = "STOR" /\ zaction # "same"
  BY <1>1 DEF CallInv
<1>5. Where = "final" /\ Where' = "final"
  BY <1>3, <1>4 DEF Where
<1>6. pc = "rename" \/ net.up => Holds("temp")
  BY <1>1 DEF StoredInv
<1>7. net'.up => net.up /\ told
  BY <1>2 DEF TypeOK
<1>8. pc' # "rename" /\ (pc' = "again" => FALSE)
  BY <1>1, <1>2
<1>9. pc' = "displace" /\ net'.up => Holds("temp")'
  BY <1>2, <1>3, <1>6, <1>7 DEF Holds, Content
<1>10. result' \in {"ok", "same"} => Holds(Where)'
  BY <1>2, <1>3, <1>5, <1>6 DEF Holds, Content
<1>11. OkMeansStored'
  BY <1>1, <1>2 DEF OkMeansStored, Returned
<1>12. DeletedMeansStored'
  BY <1>3, <1>4 DEF DeletedMeansStored
<1> QED
  BY <1>8, <1>9, <1>10, <1>11, <1>12 DEF StoredInv

LEMMA DisplaceIsStored ==
    ASSUME TypeOK, CallInv, ResultInv, StoredInv, Displace
    PROVE  StoredInv'
<1>1. PICK done \in BOOLEAN, told \in BOOLEAN :
         /\ remote' = IF done THEN [remote EXCEPT !["final"] = NoFile] ELSE remote
         /\ taint' = IF done THEN [taint EXCEPT !["final"] = {}] ELSE taint
         /\ net' = [net EXCEPT !.up = @ /\ told]
         /\ pc' = IF done /\ told THEN "again" ELSE "utime"
  BY DEF Displace
<1>2. pc = "displace" /\ UNCHANGED <<local, result>>
  BY DEF Displace, EndUnchanged
<1>3. local.there /\ result = "rename"
  BY <1>2 DEF CallInv, ResultInv
<1>4. net'.up => net.up
  BY <1>1 DEF TypeOK
<1>5. remote'["temp"] = remote["temp"] /\ taint'["temp"] = taint["temp"]
  BY <1>1, FilesType
<1>6. net'.up => Holds("temp")'
  BY <1>2, <1>4, <1>5 DEF StoredInv, Holds, Content
<1>7. OkMeansStored' /\ DeletedMeansStored'
  BY <1>2, <1>3 DEF OkMeansStored, DeletedMeansStored
<1> QED
  BY <1>1, <1>2, <1>3, <1>6, <1>7 DEF StoredInv

LEMMA UtimeIsStored ==
    ASSUME TypeOK, CallInv, ResultInv, StoredInv, Utime
    PROVE  StoredInv'
<1>1. /\ pc = "utime" /\ pc' \in {"unlink", "idle"}
      /\ UNCHANGED <<result, local, was, call, calls, cmd, zaction>>
  BY DEF Utime, EndUnchanged
<1>2. local.there /\ was = local
  BY <1>1 DEF CallInv
<1>3. Where' = Where /\ Where \in Names
  BY <1>1 DEF Where, Names
<1>4. \A n \in Names : Holds(n) => Holds(n)'
  BY <1>1, DatedTo DEF Holds, Content
<1>5. result' \in {"ok", "same"} => Holds(Where)'
  BY <1>1, <1>3, <1>4 DEF StoredInv, Holds, Content
<1>6. OkMeansStored'
  BY <1>1, <1>2, <1>5 DEF OkMeansStored, Returned, Holds, Where, Content
<1>7. DeletedMeansStored'
  BY <1>1, <1>2 DEF DeletedMeansStored
<1> QED
  BY <1>1, <1>5, <1>6, <1>7 DEF StoredInv

LEMMA UnlinkIsStored ==
    ASSUME TypeOK, CallInv, ResultInv, StoredInv, Unlink
    PROVE  StoredInv'
<1>1. /\ local'.ver = local.ver /\ local'.len = local.len
      /\ UNCHANGED <<remote, taint, was, calls, call, cmd, zaction>>
      /\ pc = "unlink" /\ pc' = "idle"
  BY UnlinkedTo
<1>2. Holds(Where) /\ was = local /\ Where \in Names
  BY <1>1 DEF CallInv, ResultInv, StoredInv, Where, Names
<1>3. Content(local') = Content(local)
  BY <1>1 DEF Content
<1>4. OkMeansStored'
  BY <1>1, <1>2 DEF OkMeansStored, Holds, Where, Content
<1>5. DeletedMeansStored'
  BY <1>1, <1>2, <1>3 DEF DeletedMeansStored, Holds
<1> QED
  BY <1>1, <1>4, <1>5 DEF StoredInv

\* The program between two calls.
LEMMA IdleIsStored ==
    ASSUME TypeOK, CallInv, StoredInv, Edit \/ Restart \/ ConnectionLost
    PROVE  StoredInv'
<1>1. UNCHANGED <<remote, taint, was, calls, call, cmd, zaction>>
  BY DEF Edit, Restart, ConnectionLost, client, history, world
<1>2. CASE Edit
  <2>1. pc = "idle" /\ pc' = "idle" /\ result' = result /\ local'.there
    BY <1>2 DEF Edit, client
  <2> QED
    BY <1>1, <2>1 DEF StoredInv, OkMeansStored, DeletedMeansStored, Returned
<1>3. CASE Restart
  <2>1. pc' = "idle" /\ local' = local /\ result' = IF pc = "idle" THEN result ELSE "aborted"
    BY <1>3 DEF Restart
  <2> QED
    BY <1>1, <2>1 DEF StoredInv, OkMeansStored, DeletedMeansStored, Returned
<1>4. CASE ConnectionLost
  <2>1. pc # "idle" /\ UNCHANGED <<pc, result, local>> /\ net.up
    BY <1>4 DEF ConnectionLost, client
  <2> QED
    BY <1>1, <2>1 DEF StoredInv, OkMeansStored, DeletedMeansStored, Returned, Holds, Where, Content
<1> QED
  BY <1>2, <1>3, <1>4

\* What happens before the transfer has ended.
LEMMA EarlyIsStored ==
    ASSUME TypeOK, CallInv, StoredInv,
           \/ Probe \/ Ask \/ DecidePlain \/ ResumeBinary \/ ResumeAscii \/ AsciiSeekFails \/ StartFails
           \/ TransferStarts \/ PutBlock \/ PutEndOfFile \/ PutFails \/ Cancel
    PROVE  StoredInv'
<1>1. /\ pc \in {"probe", "ask", "decide", "start", "put"} /\ local' = local
      /\ pc' \in {"ask", "decide", "start", "put", "end"} \/ (pc' = "idle" /\ result' \in {"refused", "failed"})
  <2>1. CASE Probe \/ Ask \/ AsciiSeekFails \/ StartFails \/ PutEndOfFile \/ PutFails \/ Cancel
    BY <2>1, FilesStand DEF Probe, Ask, AsciiSeekFails, StartFails, PutEndOfFile, PutFails, Cancel
  <2>2. CASE DecidePlain \/ ResumeBinary \/ ResumeAscii
    BY <2>2, DecidedFiles
  <2>3. CASE TransferStarts
    BY <2>3, StartedAs DEF StartUnchanged
  <2>4. CASE PutBlock
    BY <2>4, PutTo
  <2> QED
    BY <2>1, <2>2, <2>3, <2>4
<1>2. local.there
  BY <1>1 DEF CallInv
<1> QED
  BY <1>1, <1>2 DEF StoredInv, OkMeansStored, DeletedMeansStored, Returned


LEMMA StoredNext == TypeOK /\ ViewInv /\ CallInv /\ ResultInv /\ FileInv /\ PutInv /\ StoredInv /\ [Next]_vars => StoredInv'
<1> SUFFICES ASSUME TypeOK, ViewInv, CallInv, ResultInv, FileInv, PutInv, StoredInv, [Next]_vars PROVE StoredInv'
  OBVIOUS
<1>1. ASSUME NEW c \in Calls, Call(c) PROVE StoredInv'
  <2>1. /\ UNCHANGED <<remote, taint, local>>
        /\ pc' = IF ~local.there THEN "idle"
                 ELSE IF c.resume \/ c.op = "mem" THEN "probe" ELSE "decide"
        /\ result' = IF local.there THEN "ok" ELSE "open"
    BY <1>1 DEF Call
  <2> QED
    BY <2>1, Fields DEF StoredInv, OkMeansStored, DeletedMeansStored, Returned
<1>2. CASE Probe \/ Ask \/ DecidePlain \/ ResumeBinary \/ ResumeAscii \/ AsciiSeekFails \/ StartFails \/
            TransferStarts \/ PutBlock \/ PutEndOfFile \/ PutFails \/ Cancel
  BY <1>2, EarlyIsStored
<1>3. CASE Rename \/ RenameAgain
  BY <1>3, RenameIsStored
<1>4. CASE Edit \/ Restart \/ ConnectionLost
  BY <1>4, IdleIsStored
<1>5. CASE UNCHANGED vars
  BY <1>5 DEF vars, client, world, history, StoredInv, OkMeansStored, DeletedMeansStored, Returned,
     Holds, Where, Content, Whole
<1>6. CASE DecideSame
  BY <1>6, SameIsStored
<1>7. CASE End
  BY <1>7, EndIsStored
<1>8. CASE Displace
  BY <1>8, DisplaceIsStored
<1>9. CASE Utime
  BY <1>9, UtimeIsStored
<1>10. CASE Unlink
  BY <1>10, UnlinkIsStored
<1> QED
  BY <1>1, <1>2, <1>3, <1>4, <1>5, <1>6, <1>7, <1>8, <1>9, <1>10 DEF Next, Library

-----------------------------------------------------------------------------
(* Who reads the final name.                                               *)

\* Of the versions there have been up to now one, and all of it.
CompleteNow(s) == \E v \in 0 .. local.ver : s = Whole(v, lens[v])
FinalInv ==
    /\ lens[local.ver] = local.len
    /\ ~direct /\ Clean("final") => CompleteNow(remote["final"].blocks)

\* Steps of calls that use a temporary name write to nothing else.
LEMMA FinalStands ==
    ASSUME TypeOK, CallInv, FinalInv, pc # "idle",
           UNCHANGED <<lens, direct>>, local'.ver = local.ver, local'.len = local.len,
           \A n \in Names \ {Dst} : /\ taint[n] \subseteq taint'[n]
                                    /\ remote'[n].there = remote[n].there
                                    /\ remote'[n].blocks = remote[n].blocks
    PROVE  FinalInv'
<1>1. CASE direct
  BY <1>1 DEF FinalInv
<1>2. CASE ~direct
  <2>1. call.temp
    BY <1>2 DEF CallInv
  <2>2. "final" \in Names \ {Dst}
    BY <2>1 DEF Dst, Names
  <2>3. /\ taint["final"] \subseteq taint'["final"]
        /\ remote'["final"].there = remote["final"].there
        /\ remote'["final"].blocks = remote["final"].blocks
    BY <2>2
  <2> QED
    BY <2>3 DEF FinalInv, Clean, CompleteNow
<1> QED
  BY <1>1, <1>2

\* The rename gives the final name to a complete file.
LEMMA FinalRenamed ==
    ASSUME TypeOK, CallInv, StoredInv, FinalInv, Rename \/ RenameAgain
    PROVE  FinalInv'
<1>1. PICK otherwise \in {"displace", "utime"} :
             pc \in {"rename", "again"} /\ Renames("utime", otherwise)
  BY Renamed
<1>2. PICK done \in BOOLEAN :
             /\ done => net.up /\ remote["temp"].there
             /\ remote' = IF done THEN [temp |-> NoFile, final |-> remote["temp"]] ELSE remote
             /\ taint' = IF done THEN [temp |-> {}, final |-> taint["temp"]] ELSE taint
             /\ UNCHANGED <<lens, direct>> /\ EndUnchanged
  BY <1>1, RenamedAs
<1>3. local' = local
  BY <1>2 DEF EndUnchanged
<1>4. CASE ~done
  BY <1>2, <1>3, <1>4 DEF FinalInv, Clean, CompleteNow
<1>5. CASE done
  <2>1. Holds("temp")
    BY <1>1, <1>2, <1>5 DEF StoredInv
  <2>2. taint["temp"] = {} => remote["temp"].blocks = Whole(local.ver, lens[local.ver])
    BY <2>1 DEF Holds, Content, FinalInv
  <2>3. local.ver \in 0 .. local.ver
    BY Numbers
  <2> QED
    BY <1>2, <1>3, <1>5, <2>2, <2>3 DEF FinalInv, Clean, CompleteNow
<1> QED
  BY <1>4, <1>5

\* A new version adds to the lengths and changes none.
LEMMA FinalEdited ==
    ASSUME TypeOK, FinalInv, Edit
    PROVE  FinalInv'
<1>1. PICK n \in 0 .. MaxLen :
           /\ local' = [there |-> TRUE, ver |-> local.ver + 1, len |-> n, mtime |-> clock']
           /\ lens' = [lens EXCEPT ![local'.ver] = n]
  BY DEF Edit
<1>2. UNCHANGED <<remote, taint, direct>> /\ local.ver < MaxVersion
  BY DEF Edit
<1>3. local'.ver = local.ver + 1 /\ local'.len = n /\ local'.ver \in 0 .. MaxVersion
  BY <1>1, <1>2, Numbers, Bounds
<1>4. DOMAIN lens = 0 .. MaxVersion
  BY DEF TypeOK
<1>5. lens'[local'.ver] = local'.len
  BY <1>1, <1>3, <1>4
<1>6. \A v \in 0 .. local.ver : lens'[v] = lens[v] /\ v \in 0 .. local'.ver
  BY <1>1, <1>3, <1>4, Numbers
<1> QED
  BY <1>2, <1>5, <1>6 DEF FinalInv, Clean, CompleteNow


LEMMA FinalNext == TypeOK /\ CallInv /\ StoredInv /\ FinalInv /\ [Next]_vars => FinalInv'
<1> SUFFICES ASSUME TypeOK, CallInv, StoredInv, FinalInv, [Next]_vars PROVE FinalInv'
  OBVIOUS
<1>1. ASSUME NEW c \in Calls, Call(c) PROVE FinalInv'
  <2>1. UNCHANGED <<remote, taint, local, lens>> /\ direct' = (direct \/ ~c.temp)
    BY <1>1 DEF Call
  <2> QED
    BY <2>1 DEF FinalInv, Clean, CompleteNow
<1>2. CASE Probe \/ Ask \/ AsciiSeekFails \/ StartFails \/ PutEndOfFile \/ PutFails \/ Cancel \/ End \/
            ConnectionLost \/ Restart \/ UNCHANGED vars
  BY <1>2, FilesStand DEF FinalInv, Clean, CompleteNow, Whole
<1>3. CASE DecidePlain \/ ResumeBinary \/ ResumeAscii
  <2>1. /\ UNCHANGED <<remote, local, lens, direct>> /\ pc = "decide"
        /\ \A n \in Names \ {Dst} : taint'[n] = taint[n]
    BY <1>3, DecidedFiles
  <2> QED
    BY <2>1, FinalStands
<1>4. CASE Rename \/ RenameAgain
  BY <1>4, FinalRenamed
<1>5. CASE DecideSame
  <2>1. pc = "decide" /\ UNCHANGED <<remote, local, lens, direct>>
    BY <1>5 DEF DecideSame, DecideUnchanged, world
  <2>2. \A n \in Names : taint[n] \subseteq taint'[n]
    BY <1>5, FilesType DEF DecideSame
  <2> QED
    BY <2>1, <2>2, FinalStands
<1>6. CASE TransferStarts
  <2>1. PICK command \in {"STOR", "APPE"}, offset \in 0 .. MaxLen : Written(command, offset)
    BY <1>6, StartedAs
  <2>2. pc = "start" /\ UNCHANGED <<lens, direct, local>>
    BY <1>6, StartedAs DEF StartUnchanged
  <2>3. \A n \in Names \ {Dst} : remote'[n] = remote[n] /\ taint'[n] = taint[n]
    BY <2>1, WrittenTo
  <2> QED
    BY <2>2, <2>3, FinalStands
<1>7. CASE PutBlock
  <2>1. /\ pc = "put" /\ UNCHANGED <<lens, direct, local, taint>>
        /\ \A n \in Names \ {Dst} : remote'[n] = remote[n]
    BY <1>7, PutTo
  <2> QED
    BY <2>1, FinalStands
<1>8. CASE Displace
  <2>1. PICK done \in BOOLEAN :
         /\ remote' = IF done THEN [remote EXCEPT !["final"] = NoFile] ELSE remote
         /\ taint' = IF done THEN [taint EXCEPT !["final"] = {}] ELSE taint
    BY <1>8 DEF Displace
  <2>2. UNCHANGED <<lens, direct, local>>
    BY <1>8 DEF Displace, EndUnchanged
  <2> QED
    BY <2>1, <2>2, FilesType DEF FinalInv, Clean, CompleteNow, NoFile
<1>9. CASE Utime
  <2>1. UNCHANGED <<lens, direct, local>> /\ pc = "utime"
    BY <1>9 DEF Utime, EndUnchanged
  <2> QED
    BY <1>9, <2>1, DatedTo, FinalStands
<1>10. CASE Unlink
  <2>1. /\ local'.ver = local.ver /\ local'.len = local.len
        /\ UNCHANGED <<remote, taint, lens, direct>>
    BY <1>10, UnlinkedTo
  <2> QED
    BY <2>1 DEF FinalInv, Clean, CompleteNow
<1>11. CASE Edit
  BY <1>11, FinalEdited
<1> QED
  BY <1>1, <1>2, <1>3, <1>4, <1>5, <1>6, <1>7, <1>8, <1>9, <1>10, <1>11 DEF Next, Library

-----------------------------------------------------------------------------
(* The inductive invariant and what follows from it.                       *)

IInv ==
    /\ TypeOK /\ ViewInv /\ TimeInv /\ CallInv /\ ResultInv
    /\ FileInv /\ PutInv /\ StoredInv /\ FinalInv

LEMMA FilesInit == Init => FileInv /\ FinalInv
<1> SUFFICES ASSUME Init PROVE FileInv /\ FinalInv
  OBVIOUS
<1> USE Bounds
<1>1. PICK n \in 1 .. MaxLen, old \in 0 .. 1 :
         /\ local = [there |-> TRUE, ver |-> 1, len |-> n, mtime |-> Gap]
         /\ remote = [temp |-> NoFile,
                      final |-> IF old = 0 THEN NoFile
                                ELSE [there |-> TRUE, blocks |-> Whole(0, old), mtime |-> 0]]
         /\ lens = [v \in 0 .. MaxVersion |-> CASE v = 0 -> old [] v = 1 -> n [] OTHER -> 0]
  BY DEF Init
<1>2. lens[0] = old /\ lens[1] = n
  BY <1>1
<1>3. Clean("final") => remote["final"].blocks = Whole(0, old) /\ remote["final"].mtime = 0
  BY <1>1 DEF Clean, NoFile
<1>4. ~Clean("temp")
  BY <1>1 DEF Clean, NoFile
<1>5. Len(Whole(0, old)) = old
  <2>1. old \in 0 .. MaxLen /\ 0 \in 0 .. MaxVersion
    OBVIOUS
  <2> QED
    BY <2>1, WholeSeq
<1>6. FileInv
  <2>1. Clean("final") => Prefix(remote["final"].blocks)
    <3>1. 0 \in 0 .. MaxVersion
      OBVIOUS
    <3> QED
      BY <1>3, <1>5, <3>1 DEF Prefix
  <2>2. Clean("final") => ~(local.mtime <= remote["final"].mtime + 1)
    BY <1>1, <1>3
  <2> QED
    BY <1>4, <2>1, <2>2 DEF FileInv, Names
<1>7. FinalInv
  <2>1. 0 \in 0 .. local.ver
    BY <1>1
  <2> QED
    BY <1>1, <1>2, <1>3, <2>1 DEF FinalInv, CompleteNow
<1> QED
  BY <1>6, <1>7

LEMMA Initially == Init => IInv
<1> SUFFICES ASSUME Init PROVE IInv
  OBVIOUS
<1>1. pc = "idle" /\ calls = 0 /\ local.there
  BY DEF Init
<1>2. ViewInv /\ PutInv
  BY <1>1 DEF ViewInv, PutInv
<1>3. StoredInv
  BY <1>1 DEF StoredInv, OkMeansStored, DeletedMeansStored, Returned
<1> QED
  BY <1>2, <1>3, TypeInit, CallInit, FilesInit DEF IInv

LEMMA Inductive == IInv /\ [Next]_vars => IInv'
<1> SUFFICES ASSUME IInv, [Next]_vars PROVE IInv'
  OBVIOUS
<1>1. /\ TypeOK /\ ViewInv /\ TimeInv /\ CallInv /\ ResultInv
      /\ FileInv /\ PutInv /\ StoredInv /\ FinalInv
  BY DEF IInv
<1>2. TypeOK' /\ ViewInv'
  BY <1>1, TypeNext, ViewNext
<1>3. TimeInv' /\ CallInv' /\ ResultInv'
  BY <1>1, TimeNext, CallNext, ResultNext
<1>4. PutInv'
  BY <1>1, PutNext
<1>5. FileInv'
  BY <1>1, <1>2, <1>4, FileNext
<1>6. StoredInv' /\ FinalInv'
  BY <1>1, StoredNext, FinalNext
<1> QED
  BY <1>2, <1>3, <1>4, <1>5, <1>6 DEF IInv

LEMMA Invariant == Spec => []IInv
  BY Initially, Inductive, PTL DEF Spec

\* No remote file is put together from two versions of the local one, over any number
\* of calls, failures, kills and resumed uploads (io_put.c:355-427, rcmd.c:566-640).
THEOREM NeverSpliced == Spec => []RemoteNeverSpliced
<1>1. IInv => RemoteNeverSpliced
  BY DEF IInv, FileInv, Clean, RemoteNeverSpliced
<1> QED
  BY <1>1, Invariant, PTL

\* kNoErr and kErrRemoteSameAsLocal are only told of a file that is whole on the server.
THEOREM OkIsStored == Spec => []OkMeansStored
<1>1. IInv => OkMeansStored
  BY DEF IInv, StoredInv
<1> QED
  BY <1>1, Invariant, PTL

\* A local file that kDeleteYes has deleted is whole on the server.
THEOREM DeletedIsStored == Spec => []DeletedMeansStored
<1>1. IInv => DeletedMeansStored
  BY DEF IInv, StoredInv
<1> QED
  BY <1>1, Invariant, PTL

\* As long as every upload uses a temporary name, the final name is only ever given to
\* a complete file.
THEOREM FinalIsComplete == Spec => []FinalNeverPartial
<1>1. ASSUME IInv PROVE FinalNeverPartial
  <2>1. \A v \in 0 .. local.ver : v \in 0 .. MaxVersion
    BY <1>1, Numbers, Bounds DEF IInv
  <2> QED
    BY <1>1, <2>1 DEF IInv, FinalInv, Clean, CompleteNow, FinalNeverPartial, Complete
<1> QED
  BY <1>1, Invariant, PTL

=============================================================================
