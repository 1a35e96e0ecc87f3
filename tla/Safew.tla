------------------------------- MODULE Safew -------------------------------
(***************************************************************************)
(* Safe file replacement of src/src/safew.c: a file is written under a     *)
(* temporary name and renamed over the old one; with a CRC, a second file  *)
(* holds the CRC of the first and futils_safew_file_check() recovers a     *)
(* valid pair after a crash.                                               *)
(*                                                                         *)
(* One action per call that changes the file system, with a possible crash *)
(* before each.  A payload is a sequence of chunks, a CRC file is <<>>     *)
(* (created, nothing in it) or <<s>>, the CRC of payload s: the 32-bit     *)
(* hash is taken to be injective.                                          *)
(*                                                                         *)
(* No directory is ever fsync()ed: a creation, a rename or a removal that  *)
(* has returned may still be undone by a crash.  The file system is taken  *)
(* to keep their order ("the check and recovery of payload/crc pairs rely  *)
(* on the order of file's manipulations", safew.c) and that of the fsync() *)
(* of a file after them: a crash goes back to any of the directories there *)
(* have been since the last fsync().  Data that were not fsync()ed are cut *)
(* to any prefix, data still in the stdio buffer are lost.                 *)
(***************************************************************************)
EXTENDS Naturals, Sequences, FiniteSets, Functions

CONSTANTS Chunks,       \* what one fwrite or fprintf may write
          MaxWrites,    \* bound on the writes of one session
          MaxPast,      \* a session begins when a crash has at most so many
                        \* earlier directories to go back to
          CrcModes,     \* the values of with_crc to consider
          Faults,       \* calls that may fail
          CrashAt       \* values of pc at which the system may crash

Path == {"pay", "tmp", "crc", "crctmp"}

FaultNames == {"fopen", "write", "fflush", "fsync", "fclose", "crcread",
               "crcopen", "crcwrite", "rename", "rencrc", "move", "open", "getc"}

Pcs == {"idle", "fopen", "open", "fflush", "fsync", "fclose", "crcread", "crcopen",
        "crcwrite", "crcsync", "rename", "rencrc", "move", "moving", "drop", "down"}

ASSUME ConstantsAssumption == /\ MaxWrites \in Nat
                              /\ MaxPast \in Nat
                              /\ CrcModes \subseteq BOOLEAN
                              /\ Faults \subseteq FaultNames
                              /\ CrashAt \subseteq Pcs \ {"down"}

VARIABLES
  with_crc,  \* the application commits with a CRC, and calls
             \* futils_safew_file_check after every restart
  fs,        \* the files that exist: name |-> contents
  dirty,     \* names of files whose data are not on the disk yet
  past,      \* the earlier states of the directory that a crash may bring back
  pc,        \* the next call of the program
  buf,       \* stdio buffer of safew_fp->fp
  failure,   \* safew_fp->failure
  ret,       \* 0 or -1, as in the code
  last,      \* the API call that produced ret: "none", "commit", "rollback",
             \* "check", or "misread": a check that met a read error
  moves,     \* renames file_check still has to do
  drops,     \* files still to unlink
  want,      \* history: chunks the application wrote in this session
  sealed,    \* history: it asked to commit them, and no write had failed
  done,      \* history: that commit returned 0
  prev,      \* history: payload when the session began, {} if there was none
  before,    \* history: prev of the last session that fsync()ed its file ...
  made,      \* ... and what that session wrote
  excused    \* history: since the last successful commit, something happened
             \* after which a check may erase the payload

fileVars == <<fs, dirty, past>>
history == <<want, sealed, done, prev, before, made>>
vars == <<with_crc, fileVars, pc, buf, failure, ret, last, moves, drops,
          history, excused>>

Init == /\ with_crc \in CrcModes
        /\ fs = [p \in {} |-> <<>>]
        /\ dirty = {}
        /\ past = {}
        /\ pc = "idle"
        /\ buf = <<>>
        /\ failure = FALSE
        /\ ret = 0
        /\ last = "none"
        /\ moves = <<>>
        /\ drops = <<>>
        /\ want = <<>>
        /\ sealed = FALSE
        /\ done = FALSE
        /\ prev = {} /\ before = {} /\ made = {}
        /\ excused = FALSE

-----------------------------------------------------------------------------
(* The file system.                                                        *)

Exists == DOMAIN fs

PayloadIn(f) == IF "pay" \in DOMAIN f THEN {f["pay"]} ELSE {}
Payload == PayloadIn(fs)

\* Between the creation of crc.tmp and its fsync, and between the two renames of
\* a recovery.
Windows == {"crcwrite", "crcsync", "moving"}

\* The files as they are; window: inside one of the Windows.
Now == [fs |-> fs, dirty |-> dirty, window |-> pc \in Windows]

With(f, p, data) == [q \in DOMAIN f \cup {p} |-> IF q = p THEN data ELSE f[q]]

\* open for writing truncates.
Create(p) == /\ fs' = With(fs, p, <<>>)
             /\ dirty' = dirty \cup {p}
             /\ past' = past \cup {Now}

AppendTo(p, data) == /\ fs' = With(fs, p, fs[p] \o data)
                     /\ dirty' = dirty \cup {p}
                     /\ UNCHANGED past

Rename(from, to) ==
  /\ fs' = With(Restrict(fs, Exists \ {from}), to, fs[from])
  /\ dirty' = (dirty \ {from, to}) \cup (IF from \in dirty THEN {to} ELSE {})
  /\ past' = past \cup {Now}

Unlink(p) == /\ fs' = Restrict(fs, Exists \ {p})
             /\ dirty' = dirty \ {p}
             /\ past' = IF p \in Exists THEN past \cup {Now} ELSE past

\* The data are on the disk, and with them all that was done before.
Fsync(p) == /\ dirty' = dirty \ {p}
            /\ past' = {}
            /\ UNCHANGED fs

Outcomes(call) == IF call \in Faults THEN BOOLEAN ELSE {TRUE}

\* read_crc() succeeds on c and gives the CRC of p.
Readable(f, c) == f[c] # <<>>
Match(f, p, c) == Readable(f, c) /\ f[c] = <<f[p]>>

\* crc_from_fhd() takes an error of getc() for the end of the file: what it reads
\* ends after n chunks.
EndOfRead(n, data) == IF "getc" \in Faults THEN n \in 0 .. Len(data) ELSE n = Len(data)

-----------------------------------------------------------------------------
(* futils_safew_fopen, futils_safew_fwrite and futils_safew_fprintf.       *)

\* Remove what a previous failure left ...
FopenUnlink ==
  /\ pc = "idle"
  /\ Cardinality(past) <= MaxPast
  /\ Unlink("tmp")
  /\ pc' = "fopen"
  /\ want' = <<>> /\ sealed' = FALSE /\ done' = FALSE /\ prev' = Payload
  /\ last' = "none"
  /\ UNCHANGED <<buf, failure, ret, moves, drops, before, made, excused>>

\* ... and open the temporary file; NULL if that fails.
Fopen ==
  /\ pc = "fopen"
  /\ \E ok \in Outcomes("fopen") :
       IF ok THEN Create("tmp") /\ pc' = "open"
             ELSE UNCHANGED fileVars /\ pc' = "idle"
  /\ buf' = <<>>
  /\ failure' = FALSE
  /\ UNCHANGED <<ret, last, moves, drops, history, excused>>

\* Mutant: a short write is not remembered.
Write_forgets_failure(c) ==
  /\ pc = "open"
  /\ Len(want) < MaxWrites
  /\ want' = Append(want, c)
  /\ \E ok \in Outcomes("write") : buf' = IF ok THEN Append(buf, c) ELSE buf
  /\ UNCHANGED <<fileVars, pc, failure, ret, last, moves, drops, sealed, done,
                 prev, before, made, excused>>

\* fwrite and fprintf: a short write is remembered for the commit.
Write(c) ==
  /\ pc = "open"
  /\ Len(want) < MaxWrites
  /\ want' = Append(want, c)
  /\ \E ok \in Outcomes("write") :
       IF ok THEN buf' = Append(buf, c) /\ UNCHANGED failure
             ELSE UNCHANGED buf /\ failure' = TRUE
  /\ UNCHANGED <<fileVars, pc, ret, last, moves, drops, sealed, done,
                 prev, before, made, excused>>

\* stdio empties its buffer when it likes.
StdioFlush ==
  /\ pc = "open" /\ buf # <<>>
  /\ AppendTo("tmp", buf)
  /\ buf' = <<>>
  /\ UNCHANGED <<pc, failure, ret, last, moves, drops, history, excused>>

-----------------------------------------------------------------------------
(* futils_safew_fclose_rollback and safew_fclose_commit.                   *)

\* What fflush and fclose do with the buffer.
FlushBuf(ok) ==
  /\ IF ok /\ buf # <<>> THEN AppendTo("tmp", buf) ELSE UNCHANGED fileVars
  /\ buf' = <<>>

\* Mutant: the temporary file is left behind.
Rollback_no_unlink ==
  /\ pc = "open"
  /\ \E ok \in Outcomes("fclose") : FlushBuf(ok) /\ ret' = IF ok THEN 0 ELSE -1
  /\ last' = "rollback"
  /\ pc' = "idle"
  /\ UNCHANGED <<failure, moves, drops, history, excused>>

Rollback ==
  /\ pc = "open"
  /\ \E ok \in Outcomes("fclose") : FlushBuf(ok) /\ ret' = IF ok THEN 0 ELSE -1
  /\ last' = "rollback"
  /\ drops' = <<"tmp">>
  /\ pc' = "drop"
  /\ UNCHANGED <<failure, moves, history, excused>>

Commit ==
  /\ pc = "open"
  /\ sealed' = ~failure
  /\ last' = "commit"
  /\ ret' = IF failure THEN -1 ELSE 0
  /\ pc' = IF failure THEN "fclose" ELSE "fflush"
  /\ UNCHANGED <<fileVars, buf, failure, moves, drops, want, done, prev, before, made, excused>>

CommitFflush ==
  /\ pc = "fflush"
  /\ \E ok \in Outcomes("fflush") :
       IF ok THEN FlushBuf(TRUE) /\ UNCHANGED ret
             ELSE UNCHANGED <<fileVars, buf>> /\ ret' = -1
  /\ pc' = "fsync"
  /\ UNCHANGED <<failure, last, moves, drops, history, excused>>

\* A session whose file is on the disk: the ones before it are final.
Synced == /\ before' = prev
          /\ made' = IF ret = 0 THEN {want} ELSE {}

CommitFsync ==
  /\ pc = "fsync"
  /\ \E ok \in Outcomes("fsync") :
       IF ok THEN Fsync("tmp") /\ Synced /\ UNCHANGED ret
             ELSE UNCHANGED <<fileVars, before, made>> /\ ret' = -1
  /\ pc' = "fclose"
  /\ UNCHANGED <<buf, failure, last, moves, drops, want, sealed, done, prev, excused>>

\* The error path: the temporary file goes, and once the CRC names were built
\* the CRC file and its temporary one go too, the CRC of the OLD payload
\* included.
Fail(named) ==
  /\ pc' = "drop"
  /\ drops' = IF named THEN <<"tmp", "crc", "crctmp">> ELSE <<"tmp">>
  /\ excused' = (excused \/ named)

CommitFclose ==
  /\ pc = "fclose"
  /\ \E ok \in Outcomes("fclose") :
       LET r == IF ok THEN ret ELSE -1
       IN  /\ FlushBuf(ok)
           /\ ret' = r
           /\ IF r < 0 THEN Fail(FALSE)
                       ELSE /\ pc' = IF with_crc THEN "crcread" ELSE "rename"
                            /\ UNCHANGED <<drops, excused>>
  /\ UNCHANGED <<failure, last, moves, history>>

\* safew_tmp_crc_create: read the payload back ...
CrcRead ==
  /\ pc = "crcread"
  /\ \E ok \in Outcomes("crcread") :
       IF ok THEN pc' = "crcopen" /\ UNCHANGED <<ret, drops, excused>>
             ELSE ret' = -1 /\ Fail(TRUE)
  /\ UNCHANGED <<fileVars, buf, failure, last, moves, history>>

\* ... create crc.tmp ...
CrcOpen ==
  /\ pc = "crcopen"
  /\ \E ok \in Outcomes("crcopen") :
       IF ok THEN Create("crctmp") /\ pc' = "crcwrite" /\ UNCHANGED <<ret, drops, excused>>
             ELSE UNCHANGED fileVars /\ ret' = -1 /\ Fail(TRUE)
  /\ UNCHANGED <<buf, failure, last, moves, history>>

\* ... fill it (fwrite, fflush) with the CRC of what was read; after a read error
\* that is not the CRC of the payload, and nobody notices ...
CrcWrite ==
  /\ pc = "crcwrite"
  /\ \/ \E n \in 0 .. MaxWrites :
          /\ EndOfRead(n, fs["tmp"])
          /\ AppendTo("crctmp", <<SubSeq(fs["tmp"], 1, n)>>)
          /\ excused' = (excused \/ n < Len(fs["tmp"]))
          /\ UNCHANGED ret
     \/ "crcwrite" \in Faults /\ UNCHANGED <<fileVars, excused>> /\ ret' = -1
  /\ pc' = "crcsync"
  /\ UNCHANGED <<buf, failure, last, moves, drops, history>>

\* ... synchronise and close it.
CrcSync ==
  /\ pc = "crcsync"
  /\ \E ok \in Outcomes("fsync") :
       /\ IF ok THEN Fsync("crctmp") ELSE UNCHANGED fileVars
       /\ IF ok /\ ret = 0 THEN pc' = "rename" /\ UNCHANGED <<ret, drops, excused>>
                           ELSE ret' = -1 /\ Fail(TRUE)
  /\ UNCHANGED <<buf, failure, last, moves, history>>

CommitRename ==
  /\ pc = "rename"
  /\ \E ok \in Outcomes("rename") :
       IF ok THEN /\ Rename("tmp", "pay")
                  /\ pc' = IF with_crc THEN "rencrc" ELSE "idle"
                  /\ done' = ~with_crc
                  /\ UNCHANGED <<ret, drops, excused>>
             ELSE UNCHANGED <<fileVars, done>> /\ ret' = -1 /\ Fail(with_crc)
  /\ UNCHANGED <<buf, failure, last, moves, want, sealed, prev, before, made>>

CommitRenameCrc ==
  /\ pc = "rencrc"
  /\ \E ok \in Outcomes("rencrc") :
       IF ok THEN /\ Rename("crctmp", "crc")
                  /\ pc' = "idle"
                  /\ done' = TRUE
                  /\ excused' = ~Match(fs, "pay", "crctmp")
                  /\ UNCHANGED <<ret, drops>>
             ELSE UNCHANGED <<fileVars, done>> /\ ret' = -1 /\ Fail(TRUE)
  /\ UNCHANGED <<buf, failure, last, moves, want, sealed, prev, before, made>>

\* The unlink()s at the end of rollback, of a failed commit and of file_check.
Drop ==
  /\ pc = "drop"
  /\ Unlink(Head(drops))
  /\ drops' = Tail(drops)
  /\ pc' = IF Len(drops) = 1 THEN "idle" ELSE "drop"
  /\ UNCHANGED <<buf, failure, ret, last, moves, history, excused>>

-----------------------------------------------------------------------------
(* futils_safew_file_check.                                                *)

\* The verdict on the files that could be opened, and the renames to do.
Verdict(ok, renames) == IF ok THEN [ret |-> 0, moves |-> renames]
                              ELSE [ret |-> -1, moves |-> <<>>]

TmpToPay == <<"tmp", "pay">>
CrcTmpToCrc == <<"crctmp", "crc">>

\* Mutant: a payload that is newer than its CRC file is not thought of.
PayloadAndBothCrcs_old_only(f) == Verdict(Match(f, "pay", "crc"), <<>>)

\* Payload and both CRC files: stage 7 without payload.tmp, or stage 8.
PayloadAndBothCrcs(f) ==
  IF Match(f, "pay", "crc") THEN Verdict(TRUE, <<>>)
  ELSE Verdict(Readable(f, "crc") /\ Match(f, "pay", "crctmp"), <<CrcTmpToCrc>>)

\* Mutant: a valid old pair is kept, whatever the temporary one.
AllFourFiles_old_first(f) ==
  IF Match(f, "pay", "crc") THEN Verdict(TRUE, <<>>)
  ELSE Verdict(Match(f, "tmp", "crctmp"), <<CrcTmpToCrc, TmpToPay>>)

\* All of them: stage 7, the temporary pair is the newer one.
AllFourFiles(f) ==
  IF Match(f, "tmp", "crctmp") THEN Verdict(TRUE, <<CrcTmpToCrc, TmpToPay>>)
  ELSE Verdict(Readable(f, "crctmp") /\ Match(f, "pay", "crc"), <<>>)

\* The switch on present_files; f is what could be opened and read.
Recovery(f) ==
  LET seen == DOMAIN f
  IN  CASE seen \in {{"pay", "crc"}, {"pay", "crc", "tmp"}} ->
             Verdict(Match(f, "pay", "crc"), <<>>)
        [] seen = {"pay", "crctmp"} ->
             Verdict(Match(f, "pay", "crctmp"), <<CrcTmpToCrc>>)
        [] seen = {"tmp", "crctmp"} ->
             Verdict(Match(f, "tmp", "crctmp"), <<TmpToPay, CrcTmpToCrc>>)
        [] seen = {"pay", "crc", "crctmp"} -> PayloadAndBothCrcs(f)
        [] seen \in {{"pay", "tmp", "crctmp"}, {"tmp", "crc", "crctmp"}} ->
             Verdict(Match(f, "tmp", "crctmp"), <<CrcTmpToCrc, TmpToPay>>)
        [] seen = Path -> AllFourFiles(f)
        [] OTHER -> Verdict(FALSE, <<>>)

\* A file that cannot be opened counts as absent, whatever the reason, and a
\* read error as the end of the file.
Opened == IF "open" \in Faults THEN SUBSET Exists ELSE {Exists}

Check ==
  /\ with_crc
  /\ pc \in {"idle", "down"}
  /\ \E seen \in Opened : \E n \in [seen -> 0 .. MaxWrites + 1] :
       LET v == Recovery([p \in seen |-> SubSeq(fs[p], 1, n[p])])
           whole == \A p \in seen : n[p] = Len(fs[p])
       IN  /\ \A p \in seen : EndOfRead(n[p], fs[p])
           /\ ret' = v.ret
           /\ moves' = v.moves
           /\ excused' = (excused \/ seen # Exists \/ ~whole)
           /\ last' = IF whole THEN "check" ELSE "misread"
  /\ pc' = "move"
  /\ UNCHANGED <<fileVars, buf, failure, drops, history>>

\* The next rename; after a failure the others are skipped.
CheckMove ==
  /\ pc \in {"move", "moving"}
  /\ moves # <<>>
  /\ \E ok \in Outcomes("move") :
       IF ok THEN /\ Rename(Head(moves)[1], Head(moves)[2])
                  /\ moves' = Tail(moves)
                  /\ pc' = IF Tail(moves) = <<>> THEN "move" ELSE "moving"
                  /\ UNCHANGED <<ret, excused>>
             ELSE /\ UNCHANGED fileVars
                  /\ moves' = <<>>
                  /\ pc' = "move"
                  /\ ret' = -1
                  /\ excused' = TRUE
  /\ UNCHANGED <<buf, failure, last, drops, history>>

\* Mutant: a failed check leaves the files.
CheckDone_keeps ==
  /\ pc = "move" /\ moves = <<>>
  /\ drops' = <<"tmp", "crctmp">>
  /\ pc' = "drop"
  /\ UNCHANGED <<fileVars, buf, failure, ret, last, moves, history, excused>>

CheckDone ==
  /\ pc = "move" /\ moves = <<>>
  /\ drops' = IF ret < 0 THEN <<"tmp", "crctmp", "pay", "crc">> ELSE <<"tmp", "crctmp">>
  /\ pc' = "drop"
  /\ UNCHANGED <<fileVars, buf, failure, ret, last, moves, history, excused>>

-----------------------------------------------------------------------------
(* Crash and restart.                                                      *)

\* The disk has the directory as it is or as it was at some time since the last
\* fsync(); data that did not reach it are cut to some length.
Crash ==
  /\ pc \in CrashAt
  /\ \E v \in past \cup {Now} :
       /\ \E left \in [v.dirty -> 0 .. MaxWrites + 1] :
            /\ \A p \in v.dirty : left[p] <= Len(v.fs[p])
            /\ fs' = [p \in DOMAIN v.fs |->
                        IF p \in v.dirty THEN SubSeq(v.fs[p], 1, left[p]) ELSE v.fs[p]]
       /\ excused' = (excused \/ v.window)
  /\ dirty' = {} /\ past' = {}
  /\ pc' = "down"
  /\ buf' = <<>> /\ failure' = FALSE /\ moves' = <<>> /\ drops' = <<>>
  /\ last' = "none"
  /\ UNCHANGED <<ret, history>>

\* Without CRC files nothing is checked at start-up.
Restart ==
  /\ pc = "down" /\ ~with_crc
  /\ pc' = "idle"
  /\ UNCHANGED <<fileVars, buf, failure, ret, last, moves, drops, history, excused>>

Session == FopenUnlink \/ Fopen \/ (\E c \in Chunks : Write(c)) \/ StdioFlush
           \/ Rollback \/ Commit

CommitSteps == CommitFflush \/ CommitFsync \/ CommitFclose \/ CrcRead \/ CrcOpen
               \/ CrcWrite \/ CrcSync \/ CommitRename \/ CommitRenameCrc \/ Drop

Next == /\ Session \/ CommitSteps \/ Check \/ CheckMove \/ CheckDone \/ Crash \/ Restart
        /\ UNCHANGED with_crc

Spec == Init /\ [][Next]_vars

-----------------------------------------------------------------------------
(* Properties.                                                             *)

\* Whatever fails and whenever the system stops, the payload is never a partly
\* written file: it is what it was when the last session that fsync()ed its file
\* began, or all that this session wrote (or it is gone, if a check erased it).
NeverTorn == Payload \subseteq before \cup made

\* "With this rename, the file is either previous one, either new one once
\* completely written" (safew_fclose_commit).
PreviousOrNew == Payload = prev \/ (sealed /\ Payload = {want})

\* A crash took back the rename of the last commit, which nothing has put on the
\* disk.  With a CRC that lasts until the check has completed the renames again.
TakenBack == Payload = before /\ (with_crc => pc \in {"down", "move", "moving"})

\* The same after whatever may fail and whenever the system stops, except a
\* failure after which safew_fclose_commit unlinks the CRC of the payload it
\* keeps, a file that is not read without error, a file that
\* futils_safew_file_check cannot open or rename, and a crash that brings back
\* one of the Windows.  Without CRC there is no exception, but a crash before
\* the fsync() of the next session may take the last commit back.
PreviousOrNewOutsideWindows == excused \/ PreviousOrNew \/ TakenBack

\* A commit with a CRC that returned 0 is there to stay: whenever the system
\* stops, and although its renames may be undone, a check has the new contents
\* and their CRC in place before it unlinks anything.  Without a CRC they are
\* there until a crash.
CommittedIsDurable ==
  done /\ ~excused /\ (pc = "idle" \/ (pc = "drop" /\ last = "check")) =>
    /\ with_crc \/ last = "commit" => Payload = {want}
    /\ with_crc => "crc" \in Exists /\ Match(fs, "pay", "crc")

\* A commit that returned -1 and a rollback leave the previous file, and no
\* temporary one (with a CRC, unless the failure came after its name was built).
RefusedIsPrevious ==
  pc = "idle" /\ ~excused /\ (last = "rollback" \/ (last = "commit" /\ ret < 0)) =>
    Payload = prev /\ "tmp" \notin Exists

\* After a futils_safew_file_check() that met no read error the disk holds a
\* payload with its CRC and nothing else, or nothing at all, and the return value
\* says which.
CheckLeavesPairOrNothing ==
  pc = "idle" /\ last = "check" =>
    IF ret = 0 THEN Exists = {"pay", "crc"} /\ Match(fs, "pay", "crc")
               ELSE Exists = {}

=============================================================================
