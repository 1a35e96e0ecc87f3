---------------------------- MODULE SafewProofs ----------------------------
(***************************************************************************)
(* Proofs about Safew, for every set of chunks, every number of writes,    *)
(* every choice of calls that may fail and of places to crash at.          *)
(*                                                                         *)
(* The inductive invariant follows the program: what a session has put in  *)
(* payload.tmp (SessionInv), what the temporary files may hold (CrcTmpInv, *)
(* PairInv, SettledInv), what futils_safew_file_check has still to rename  *)
(* (MoveInv) and what is still to be unlinked (DropInv).  On top of it,    *)
(* GoalInv says what a check would make of the files, and PastInv that the *)
(* directories a crash may bring back are as good as the present one.      *)
(***************************************************************************)
EXTENDS Safew, SequenceTheorems, TLAPS

-----------------------------------------------------------------------------
(* The inductive invariant.                                                *)

\* A file of CRCs: empty, or one of them.
AtMostOne(s) == s = <<>> \/ s = <<s[1]>>

TypeInv ==
  /\ pc \in Pcs /\ ret \in {0, -1}
  /\ last \in {"none", "commit", "rollback", "check", "misread"}
  /\ buf \in Seq(Chunks) /\ want \in Seq(Chunks)
  /\ Exists \subseteq Path
  /\ "pay" \in Exists => fs["pay"] \in Seq(Chunks)
  /\ "tmp" \in Exists => fs["tmp"] \in Seq(Chunks)
  /\ "crctmp" \in Exists => AtMostOne(fs["crctmp"])
  /\ "crc" \in Exists => AtMostOne(fs["crc"]) /\ Readable(fs, "crc")

\* Only temporary files hold data that are not on the disk.
DirtyInv ==
  /\ dirty \subseteq Exists \cap {"tmp", "crctmp"}
  /\ pc \in {"idle", "down", "fopen", "rename", "rencrc"} => dirty = {}

\* Without a CRC there is nothing to excuse, no CRC file and no check.
PlainInv ==
  ~with_crc => /\ ~excused /\ last \notin {"check", "misread"}
               /\ Exists \subseteq {"pay", "tmp"}
               /\ pc \notin {"crcread", "crcopen", "crcwrite", "crcsync",
                             "rencrc", "move", "moving"}

\* From futils_safew_fopen to the rename of the payload.
BeforeRename == {"fopen", "open", "fflush", "fsync", "fclose", "crcread",
                 "crcopen", "crcwrite", "crcsync", "rename"}

\* payload.tmp holds what was written, as far as no call has failed, and crc.tmp
\* its CRC, unless it was read with an error.
SessionInv ==
  /\ pc \in BeforeRename => Payload = prev
  /\ pc \in BeforeRename \cup {"rencrc"} => ~done
  /\ pc = "fopen" => "tmp" \notin Exists /\ last = "none" /\ want = <<>>
  /\ pc \in {"fopen", "open"} => ~sealed
  /\ pc \in BeforeRename \ {"fopen"} => "tmp" \in Exists
  /\ pc \in (BeforeRename \ {"fopen", "open"}) \cup {"rencrc"} => last = "commit"
  /\ pc = "open" => failure \/ fs["tmp"] \o buf = want
  /\ pc = "fflush" => ret = 0 /\ sealed /\ fs["tmp"] \o buf = want
  /\ pc \in {"fsync", "fclose"} /\ ret = 0 => sealed /\ buf = <<>> /\ fs["tmp"] = want
  /\ pc = "fclose" /\ ret = 0 => "tmp" \notin dirty
  /\ pc \in {"crcread", "crcopen", "crcwrite", "crcsync", "rename"} =>
       sealed /\ fs["tmp"] = want /\ "tmp" \notin dirty
  /\ pc \in {"crcread", "crcopen", "crcwrite", "rename", "rencrc"} => ret = 0
  /\ pc \in {"crcwrite", "crcsync"} => "crctmp" \in Exists
  /\ pc = "crcwrite" => fs["crctmp"] = <<>>
  /\ pc = "crcsync" /\ ret = 0 => /\ Readable(fs, "crctmp")
                                  /\ excused \/ fs["crctmp"] = <<want>>
  /\ pc \in {"rename", "rencrc"} /\ with_crc =>
       /\ "crctmp" \in Exists /\ Readable(fs, "crctmp")
       /\ excused \/ fs["crctmp"] = <<want>>
  /\ pc = "rencrc" => /\ "tmp" \notin Exists /\ "pay" \in Exists
                      /\ fs["pay"] = want /\ sealed

\* The contents that are known to be complete.
Whole == before \cup made

\* A payload.tmp that has a crc.tmp is complete, and on the disk.
BothTmp(f) == {"tmp", "crctmp"} \subseteq DOMAIN f

CrcTmpInv ==
  /\ pc \in {"idle", "fopen", "open", "fflush", "fsync", "fclose", "crcread",
             "crcopen"} => "crctmp" \notin Exists
  /\ BothTmp(fs) => fs["tmp"] \in Whole /\ "tmp" \notin dirty

\* From its fsync() to its end, a session is the one that Whole is about.
WholeInv ==
  /\ Payload \subseteq Whole /\ prev \subseteq Whole
  /\ \/ pc = "fclose" /\ ret = 0
     \/ pc \in {"crcread", "crcopen", "crcwrite", "crcsync", "rename", "rencrc"}
     => before = prev /\ made = {want}
  /\ pc = "rename" \/ (pc = "fclose" /\ ret = 0) => past = {}

\* A payload has its CRC, and a CRC its payload.
Paired(f) == /\ "pay" \in DOMAIN f <=> "crc" \in DOMAIN f
             /\ "pay" \in DOMAIN f => Match(f, "pay", "crc")

PairThere == {"pay", "crc"} \subseteq Exists /\ Match(fs, "pay", "crc")

PairInv ==
  with_crc /\ ~excused /\ pc \in BeforeRename \cup {"idle"} => Paired(fs)

\* The disks from which a check recovers: the old pair alone, a complete new one
\* under the temporary names, or the new payload with its CRC still to be
\* renamed.
OldPair(f) == Paired(f) /\ "crctmp" \notin DOMAIN f

NewPair(f) == BothTmp(f) /\ Match(f, "tmp", "crctmp")

NewPayload(f) == /\ {"pay", "crctmp"} \subseteq DOMAIN f /\ "tmp" \notin DOMAIN f
                 /\ Match(f, "pay", "crctmp")

Settled(f) == OldPair(f) \/ NewPair(f) \/ NewPayload(f)

SettledInv ==
  with_crc /\ ~excused /\ pc \in {"down", "move", "drop", "rencrc"} => Settled(fs)

\* What futils_safew_file_check still has to rename makes a pair, if it has read
\* the files without error.
MovesMakePair ==
  \/ moves = <<>> /\ (last = "check" => PairThere)
  \/ /\ moves = <<CrcTmpToCrc>>
     /\ {"pay", "crctmp"} \subseteq Exists /\ Readable(fs, "crctmp")
     /\ last = "check" => Match(fs, "pay", "crctmp")
  \/ /\ moves = <<TmpToPay, CrcTmpToCrc>> \/ moves = <<CrcTmpToCrc, TmpToPay>>
     /\ BothTmp(fs) /\ Readable(fs, "crctmp") /\ pc = "move"
     /\ last = "check" => Match(fs, "tmp", "crctmp")
  \/ /\ moves = <<TmpToPay>> /\ pc = "moving"
     /\ {"tmp", "crc"} \subseteq Exists /\ "crctmp" \notin Exists
     /\ fs["tmp"] \in Whole
     /\ last = "check" => Match(fs, "tmp", "crc")

MoveInv ==
  pc \in {"move", "moving"} =>
    /\ last = "check" \/ (last = "misread" /\ excused)
    /\ dirty = {}
    /\ ret = 0 => MovesMakePair
    /\ ret = -1 => moves = <<>>
    /\ ~excused /\ moves = <<>> => Settled(fs) /\ (ret = -1 => "pay" \notin Exists)
    /\ ~excused /\ moves \in {<<>>, <<CrcTmpToCrc>>} => ~BothTmp(fs)

\* What is left to unlink: after a commit or a rollback ...
SessionDrops ==
  /\ drops \in {<<"tmp">>, <<"tmp", "crc", "crctmp">>, <<"crc", "crctmp">>, <<"crctmp">>}
  /\ drops \in {<<"crc", "crctmp">>, <<"crctmp">>} => "tmp" \notin Exists
  /\ drops = <<"tmp">> => "crctmp" \notin Exists
  /\ drops # <<"tmp">> => excused
  /\ ~excused => Payload = prev
  /\ ~done

\* ... and after a check.
CheckDrops ==
  /\ dirty = {}
  /\ ret = 0 => /\ last = "check" => PairThere
                /\ drops \in {<<"tmp", "crctmp">>, <<"crctmp">>}
                /\ drops = <<"crctmp">> => "tmp" \notin Exists
  /\ ret = -1 => /\ \/ drops = <<"tmp", "crctmp", "pay", "crc">>
                    \/ drops = <<"crctmp", "pay", "crc">> /\ "tmp" \notin Exists
                    \/ drops = <<"pay", "crc">> /\ Exists \subseteq {"pay", "crc"}
                    \/ drops = <<"crc">> /\ Exists \subseteq {"crc"}
                 /\ ~excused => "pay" \notin Exists

DropInv ==
  pc = "drop" =>
    /\ last = "commit" => ret = -1
    /\ last \in {"commit", "rollback"} => SessionDrops
    /\ last \in {"check", "misread"} => with_crc /\ CheckDrops
    /\ last = "misread" => excused
    /\ last # "none"
    /\ ~excused => ~BothTmp(fs)

\* What the application finds between two calls.
RestInv ==
  /\ pc = "down" => last = "none"
  /\ pc = "idle" /\ ~with_crc /\ done /\ last = "commit" => Payload = {want}
  /\ RefusedIsPrevious
  /\ CheckLeavesPairOrNothing

\* The payload there will be when the call under way, or the check after a
\* crash, is over: payload.tmp with its CRC counts as the payload.
Pending == \/ BothTmp(fs) /\ pc \notin {"crcwrite", "crcsync"}
           \/ pc = "moving" /\ moves = <<TmpToPay>>

Goal == IF Pending THEN {fs["tmp"]} ELSE Payload

GoalInv ==
  /\ with_crc /\ ~excused => /\ Goal = prev \/ (sealed /\ Goal = {want})
                             /\ done => Goal = {want}
                             /\ Pending => Payload = before
  /\ ~with_crc => PreviousOrNew \/ Payload = before

\* A directory that a crash may bring back, with its data: the same payload may
\* be had from it.
Outcome(f) == IF BothTmp(f) THEN {f["tmp"]} ELSE PayloadIn(f)

SoundShape(v) ==
  /\ DOMAIN v.fs \subseteq Path
  /\ v.dirty \subseteq DOMAIN v.fs \cap {"tmp", "crctmp"}
  /\ "pay" \in DOMAIN v.fs => v.fs["pay"] \in Seq(Chunks)
  /\ "tmp" \in DOMAIN v.fs => v.fs["tmp"] \in Seq(Chunks)
  /\ "crctmp" \in DOMAIN v.fs => AtMostOne(v.fs["crctmp"])
  /\ "crc" \in DOMAIN v.fs => AtMostOne(v.fs["crc"]) /\ Readable(v.fs, "crc")

SoundContents(v) ==
  /\ PayloadIn(v.fs) \subseteq Whole
  /\ BothTmp(v.fs) => v.fs["tmp"] \in Whole /\ "tmp" \notin v.dirty

SoundPlain(v) ==
  ~with_crc => /\ DOMAIN v.fs \subseteq {"pay", "tmp"} /\ ~v.window
               /\ PayloadIn(v.fs) \in {before, Payload}

Recovers(v) == /\ Settled(v.fs) /\ "crctmp" \notin v.dirty /\ Outcome(v.fs) = Goal
               /\ BothTmp(v.fs) => PayloadIn(v.fs) = before

SoundCrc(v) == with_crc /\ ~excused /\ ~v.window => Recovers(v)

Sound(v) == SoundShape(v) /\ SoundContents(v) /\ SoundPlain(v) /\ SoundCrc(v)

\* Between the two renames of a commit, even if something was wrong before it.
RenamedOnce ==
  pc = "rencrc" => \A v \in past : /\ ~v.window /\ v.dirty = {} /\ BothTmp(v.fs)
                                   /\ v.fs["tmp"] = want /\ PayloadIn(v.fs) = before
                                   /\ v.fs["crctmp"] = fs["crctmp"]

PastInv == (\A v \in past : Sound(v)) /\ RenamedOnce

IInv == /\ TypeInv /\ DirtyInv /\ PlainInv /\ SessionInv /\ CrcTmpInv /\ WholeInv
        /\ PairInv /\ SettledInv /\ MoveInv /\ DropInv /\ RestInv /\ GoalInv /\ PastInv

-----------------------------------------------------------------------------
(* The calls of the file system, one file at a time.                       *)

\* open for writing: the file is there and empty, the others are as they were.
LEMMA CreateEffect ==
  ASSUME NEW p, Create(p)
  PROVE  /\ DOMAIN fs' = DOMAIN fs \cup {p}
         /\ fs'[p] = <<>>
         /\ \A q \in DOMAIN fs : q # p => fs'[q] = fs[q]
         /\ dirty' = dirty \cup {p} /\ past' = past \cup {Now}
BY DEF Create, With

\* write: the data go to the end of the file.
LEMMA AppendEffect ==
  ASSUME NEW p, NEW data, AppendTo(p, data), p \in DOMAIN fs
  PROVE  /\ DOMAIN fs' = DOMAIN fs
         /\ fs'[p] = fs[p] \o data
         /\ \A q \in DOMAIN fs : q # p => fs'[q] = fs[q]
         /\ dirty' = dirty \cup {p} /\ past' = past
BY DEF AppendTo, With

\* rename: the new name has the contents of the old one.
LEMMA RenameEffect ==
  ASSUME NEW from, NEW to, Rename(from, to), from # to, from \in DOMAIN fs
  PROVE  /\ DOMAIN fs' = (DOMAIN fs \ {from}) \cup {to}
         /\ fs'[to] = fs[from]
         /\ \A q \in DOMAIN fs : q # from /\ q # to => fs'[q] = fs[q]
         /\ from \notin dirty => dirty' = dirty \ {from, to}
         /\ past' = past \cup {Now}
BY DEF Rename, With, Restrict, Exists

\* unlink.
LEMMA UnlinkEffect ==
  ASSUME NEW p, Unlink(p)
  PROVE  /\ DOMAIN fs' = DOMAIN fs \ {p}
         /\ \A q \in DOMAIN fs : q # p => fs'[q] = fs[q]
         /\ dirty' = dirty \ {p} /\ past' \subseteq past \cup {Now}
BY DEF Unlink, Restrict, Exists

\* The prefixes of a sequence of one item.
LEMMA OneItem ==
  ASSUME NEW x
  PROVE  SubSeq(<<x>>, 1, 0) = <<>> /\ SubSeq(<<x>>, 1, 1) = <<x>> /\ Len(<<x>>) = 1
<1>1. <<x>> \in Seq({x}) /\ Len(<<x>>) = 1
  OBVIOUS
<1>2. SubSeq(<<x>>, 1, Len(<<x>>)) = <<x>>
  BY <1>1, SubSeqFull
<1> QED BY <1>1, <1>2, SubSeqEmpty

\* A file of CRCs cut to some length is one, and a CRC is read from it only if
\* it was there.
LEMMA CutCrc ==
  ASSUME NEW s, AtMostOne(s), NEW n \in Nat, n <= Len(s)
  PROVE  /\ AtMostOne(SubSeq(s, 1, n))
         /\ SubSeq(s, 1, n) # <<>> => s # <<>>
         /\ n = Len(s) => SubSeq(s, 1, n) = s
<1>1. CASE s = <<>>
  <2>1. n = 0
    BY <1>1
  <2> QED BY <1>1, <2>1, SubSeqEmpty DEF AtMostOne
<1>2. CASE s = <<s[1]>>
  <2> DEFINE x == s[1]
  <2>1. s = <<x>> /\ Len(<<x>>) = 1 /\ (n = 0 \/ n = 1)
    <3> HIDE DEF x
    <3>1. s = <<x>>
      BY <1>2 DEF x
    <3> QED BY <3>1, OneItem
  <2> HIDE DEF x
  <2>2. <<x>>[1] = x /\ <<x>> # <<>>
    OBVIOUS
  <2> QED BY <2>1, <2>2, OneItem DEF AtMostOne
<1> QED BY <1>1, <1>2 DEF AtMostOne

\* What a crash leaves of a directory it brings back: the files that were on the
\* disk keep their contents, the others are cut.
LEMMA CutEffect ==
  ASSUME NEW v, SoundShape(v), NEW left \in [v.dirty -> 0 .. MaxWrites + 1], NEW g,
         \A p \in v.dirty : left[p] <= Len(v.fs[p]),
         g = [p \in DOMAIN v.fs |->
                IF p \in v.dirty THEN SubSeq(v.fs[p], 1, left[p]) ELSE v.fs[p]]
  PROVE  /\ DOMAIN g = DOMAIN v.fs
         /\ \A q \in DOMAIN g : q \notin v.dirty => g[q] = v.fs[q]
         /\ "tmp" \in DOMAIN g => g["tmp"] \in Seq(Chunks)
         /\ "crctmp" \in DOMAIN g => AtMostOne(g["crctmp"])
<1>1. \A p \in v.dirty : left[p] \in Nat
  BY ConstantsAssumption
<1>2. ASSUME "tmp" \in DOMAIN g PROVE g["tmp"] \in Seq(Chunks)
  <2>1. v.fs["tmp"] \in Seq(Chunks)
    BY <1>2 DEF SoundShape
  <2>2. CASE "tmp" \in v.dirty
    <3>1. SubSeq(v.fs["tmp"], 1, left["tmp"]) \in Seq(Chunks)
      BY <1>1, <2>1, <2>2
    <3> QED BY <1>2, <2>2, <3>1
  <2> QED BY <1>2, <2>1, <2>2
<1>3. ASSUME "crctmp" \in DOMAIN g PROVE AtMostOne(g["crctmp"])
  <2>1. AtMostOne(v.fs["crctmp"])
    BY <1>3 DEF SoundShape
  <2>2. CASE "crctmp" \in v.dirty
    <3>1. AtMostOne(SubSeq(v.fs["crctmp"], 1, left["crctmp"]))
      BY <1>1, <2>1, <2>2, CutCrc
    <3> QED BY <1>3, <2>2, <3>1
  <2> QED BY <1>3, <2>1, <2>2
<1> QED BY <1>2, <1>3

-----------------------------------------------------------------------------
(* What futils_safew_file_check decides.                                   *)

\* The switch, one line per case.
LEMMA RecoveryCases ==
  ASSUME NEW f
  PROVE  \/ /\ {"pay", "crc"} \subseteq DOMAIN f /\ "crctmp" \notin DOMAIN f
            /\ Recovery(f) = Verdict(Match(f, "pay", "crc"), <<>>)
         \/ /\ DOMAIN f = {"pay", "crctmp"}
            /\ Recovery(f) = Verdict(Match(f, "pay", "crctmp"), <<CrcTmpToCrc>>)
         \/ /\ DOMAIN f = {"tmp", "crctmp"}
            /\ Recovery(f) = Verdict(Match(f, "tmp", "crctmp"), <<TmpToPay, CrcTmpToCrc>>)
         \/ DOMAIN f = {"pay", "crc", "crctmp"} /\ Recovery(f) = PayloadAndBothCrcs(f)
         \/ /\ DOMAIN f \in {{"pay", "tmp", "crctmp"}, {"tmp", "crc", "crctmp"}}
            /\ Recovery(f) = Verdict(Match(f, "tmp", "crctmp"), <<CrcTmpToCrc, TmpToPay>>)
         \/ DOMAIN f = Path /\ Recovery(f) = AllFourFiles(f)
         \/ /\ DOMAIN f \notin {{"pay", "crc"}, {"pay", "crc", "tmp"}, {"pay", "crctmp"},
                                {"tmp", "crctmp"}, {"pay", "crc", "crctmp"},
                                {"pay", "tmp", "crctmp"}, {"tmp", "crc", "crctmp"}, Path}
            /\ Recovery(f) = Verdict(FALSE, <<>>)
BY DEF Recovery, Verdict

\* A verdict of success is one of four: the files to rename are there, and have
\* the CRC that is to be theirs.
LEMMA RecoveryMakesPair ==
  ASSUME NEW f, Recovery(f).ret = 0
  PROVE  \/ /\ Recovery(f).moves = <<>>
            /\ {"pay", "crc"} \subseteq DOMAIN f /\ Match(f, "pay", "crc")
         \/ /\ Recovery(f).moves = <<CrcTmpToCrc>>
            /\ {"pay", "crctmp"} \subseteq DOMAIN f /\ Match(f, "pay", "crctmp")
         \/ /\ \/ Recovery(f).moves = <<TmpToPay, CrcTmpToCrc>>
               \/ Recovery(f).moves = <<CrcTmpToCrc, TmpToPay>>
            /\ BothTmp(f) /\ Match(f, "tmp", "crctmp")
BY RecoveryCases DEF Verdict, PayloadAndBothCrcs, AllFourFiles, BothTmp, Path

\* Every verdict is one of the two, and a failed one renames nothing.
LEMMA RecoveryType ==
  ASSUME NEW f
  PROVE  /\ Recovery(f).ret \in {0, -1}
         /\ Recovery(f).ret = -1 => Recovery(f).moves = <<>>
BY RecoveryCases DEF Verdict, PayloadAndBothCrcs, AllFourFiles

\* From a settled disk the check loses nothing: only a disk without payload is
\* refused, a complete new pair is never left as it is, and without one nothing
\* becomes the payload.
LEMMA RecoveryOfSettled ==
  ASSUME NEW f, DOMAIN f \subseteq Path, Settled(f),
         "crc" \in DOMAIN f => Readable(f, "crc")
  PROVE  /\ Recovery(f).ret = -1 => OldPair(f) /\ "pay" \notin DOMAIN f
         /\ BothTmp(f) => Recovery(f).moves \notin {<<>>, <<CrcTmpToCrc>>}
<1>1. CASE OldPair(f)
  <2>1. CASE "pay" \in DOMAIN f
    <3>1. DOMAIN f \in {{"pay", "crc"}, {"pay", "crc", "tmp"}} /\ "crctmp" \notin DOMAIN f
      BY <1>1, <2>1 DEF OldPair, Paired, Path
    <3>2. Match(f, "pay", "crc")
      BY <1>1, <2>1 DEF OldPair, Paired
    <3>3. Recovery(f).ret = 0
      BY <3>1, <3>2, RecoveryCases DEF Verdict, Path
    <3> QED BY <3>1, <3>3 DEF BothTmp
  <2> QED BY <1>1, <2>1 DEF OldPair, BothTmp
<1>2. CASE NewPair(f)
  <2>1. /\ DOMAIN f \in {{"tmp", "crctmp"}, {"pay", "tmp", "crctmp"},
                         {"tmp", "crc", "crctmp"}, Path}
        /\ "crctmp" \in DOMAIN f /\ "tmp" \in DOMAIN f /\ Match(f, "tmp", "crctmp")
    BY <1>2 DEF NewPair, BothTmp, Path
  <2>2. \/ Recovery(f) = Verdict(TRUE, <<TmpToPay, CrcTmpToCrc>>)
        \/ Recovery(f) = Verdict(TRUE, <<CrcTmpToCrc, TmpToPay>>)
    <3>1. DOMAIN f # {"pay", "crctmp"} /\ DOMAIN f # {"pay", "crc", "crctmp"}
      BY <2>1
    <3> QED BY <2>1, <3>1, RecoveryCases DEF AllFourFiles
  <2> QED BY <2>2 DEF Verdict
<1>3. CASE NewPayload(f)
  <2>1. DOMAIN f = {"pay", "crctmp"} \/ DOMAIN f = {"pay", "crc", "crctmp"}
    BY <1>3 DEF NewPayload, Path
  <2>2. Match(f, "pay", "crctmp") /\ "tmp" \notin DOMAIN f
    BY <1>3 DEF NewPayload
  <2>3. CASE DOMAIN f = {"pay", "crctmp"}
    <3>1. "crc" \notin DOMAIN f /\ "crctmp" \in DOMAIN f /\ "pay" \in DOMAIN f /\ "tmp" \in Path
      BY <2>3 DEF Path
    <3>2. DOMAIN f # {"pay", "crc", "crctmp"} /\ DOMAIN f # Path
      BY <2>3, <3>1 DEF Path
    <3>3. Recovery(f) = Verdict(TRUE, <<CrcTmpToCrc>>)
      BY <2>2, <2>3, <3>1, <3>2, RecoveryCases
    <3> QED BY <2>2, <3>3 DEF BothTmp, Verdict
  <2>4. CASE DOMAIN f = {"pay", "crc", "crctmp"}
    <3>1. PayloadAndBothCrcs(f).ret = 0
      BY <2>2, <2>4 DEF PayloadAndBothCrcs, Verdict
    <3>2. "pay" \in DOMAIN f /\ "crc" \in DOMAIN f /\ "crctmp" \in DOMAIN f /\ "tmp" \in Path
      BY <2>4 DEF Path
    <3>3. Recovery(f) = PayloadAndBothCrcs(f)
      BY <2>2, <2>4, <3>2, RecoveryCases DEF Verdict
    <3> QED BY <2>2, <3>1, <3>3 DEF BothTmp
  <2> QED BY <2>1, <2>3, <2>4
<1> QED BY <1>1, <1>2, <1>3 DEF Settled

-----------------------------------------------------------------------------
(* What depends on some of the files only.                                 *)

Agree(f, g, p) == /\ p \in DOMAIN g <=> p \in DOMAIN f
                  /\ p \in DOMAIN f => g[p] = f[p]

Same(p) == Agree(fs, fs', p)

\* Nothing was done to the file system.
LEMMA NoFileTouched ==
  ASSUME UNCHANGED fs
  PROVE  \A p : Same(p)
BY DEF Same, Agree

LEMMA PayloadAgrees ==
  ASSUME NEW f, NEW g, Agree(f, g, "pay")
  PROVE  PayloadIn(g) = PayloadIn(f)
BY DEF Agree, PayloadIn

LEMMA PayloadKept ==
  ASSUME Same("pay")
  PROVE  Payload' = Payload
BY PayloadAgrees DEF Same, Payload

LEMMA MatchAgrees ==
  ASSUME NEW f, NEW g, NEW p, NEW c, Agree(f, g, p), Agree(f, g, c),
         p \in DOMAIN f, c \in DOMAIN f
  PROVE  Match(g, p, c) <=> Match(f, p, c)
BY DEF Agree, Match, Readable

LEMMA PairedAgrees ==
  ASSUME NEW f, NEW g, Agree(f, g, "pay"), Agree(f, g, "crc")
  PROVE  Paired(g) <=> Paired(f)
BY MatchAgrees DEF Agree, Paired

\* A payload.tmp without crc.tmp does not count.
LEMMA SettledAgrees ==
  ASSUME NEW f, NEW g, Settled(f),
         Agree(f, g, "pay"), Agree(f, g, "crc"), Agree(f, g, "crctmp"),
         "tmp" \in DOMAIN g <=> "tmp" \in DOMAIN f,
         BothTmp(f) => g["tmp"] = f["tmp"]
  PROVE  Settled(g) /\ Outcome(g) = Outcome(f)
<1>1. BothTmp(g) <=> BothTmp(f)
  BY DEF BothTmp, Agree
<1>2. Outcome(g) = Outcome(f)
  BY <1>1, PayloadAgrees DEF Outcome
<1>3. CASE OldPair(f)
  BY <1>2, <1>3, PairedAgrees DEF Settled, OldPair, Agree
<1>4. CASE NewPair(f)
  <2>1. Agree(f, g, "tmp") /\ BothTmp(f) /\ Match(f, "tmp", "crctmp")
    BY <1>4 DEF NewPair, Agree
  <2>2. Match(g, "tmp", "crctmp")
    BY <2>1, MatchAgrees DEF BothTmp
  <2> QED BY <1>1, <1>2, <2>1, <2>2 DEF Settled, NewPair
<1>5. CASE NewPayload(f)
  <2>1. Match(g, "pay", "crctmp")
    BY <1>5, MatchAgrees DEF NewPayload
  <2>2. NewPayload(g)
    BY <1>5, <2>1 DEF NewPayload, Agree
  <2> QED BY <1>2, <2>2 DEF Settled
<1> QED BY <1>2, <1>3, <1>4, <1>5 DEF Settled

-----------------------------------------------------------------------------
(* The directories that a crash may bring back.                            *)

\* While a session writes, and between two sessions, payload.tmp does not count.
LEMMA NotPending ==
  ASSUME CrcTmpInv, SessionInv, pc \in (BeforeRename \ {"rename"}) \cup {"idle", "rencrc"}
  PROVE  ~Pending /\ Goal = Payload
<1>1. ~Pending
  BY DEF CrcTmpInv, SessionInv, Pending, BothTmp, BeforeRename, Exists
<1> QED BY <1>1 DEF Goal

\* The directory as it is may be brought back.
LEMMA NowSound ==
  ASSUME IInv
  PROVE  Sound(Now)
<1>1. Now.fs = fs /\ Now.dirty = dirty /\ Now.window = (pc \in Windows)
  BY DEF Now
<1>2. SoundShape(Now)
  BY <1>1 DEF IInv, TypeInv, DirtyInv, SoundShape, Exists
<1>3. SoundContents(Now)
  BY <1>1 DEF IInv, WholeInv, CrcTmpInv, SoundContents, Payload
<1>4. SoundPlain(Now)
  BY <1>1 DEF IInv, PlainInv, SoundPlain, Payload, Exists, Windows
<1>5. SoundCrc(Now)
  <2> SUFFICES ASSUME with_crc, ~excused, pc \notin Windows
               PROVE  /\ Settled(fs) /\ "crctmp" \notin dirty /\ Outcome(fs) = Goal
                      /\ BothTmp(fs) => Payload = before
    BY <1>1 DEF SoundCrc, Recovers, Payload
  <2>1. BothTmp(fs) => Pending /\ Payload = before
    BY DEF IInv, GoalInv, Pending, Windows
  <2>2. Outcome(fs) = Goal
    <3>1. pc # "moving"
      BY DEF Windows
    <3> QED BY <2>1, <3>1 DEF Outcome, Goal, Pending, Payload
  <2>3. CASE pc \in {"idle", "fopen", "open", "fflush", "fsync", "fclose", "crcread", "crcopen"}
    <3>1. Paired(fs) /\ "crctmp" \notin Exists
      BY <2>3 DEF IInv, PairInv, CrcTmpInv, BeforeRename
    <3>2. "crctmp" \notin dirty
      BY <3>1 DEF IInv, DirtyInv
    <3> QED BY <2>1, <2>2, <3>1, <3>2 DEF Settled, OldPair, Exists
  <2>4. CASE pc = "rename"
    <3>1. BothTmp(fs) /\ fs["tmp"] = want /\ fs["crctmp"] = <<want>> /\ dirty = {}
      BY <2>4 DEF IInv, SessionInv, DirtyInv, BeforeRename, BothTmp, Exists
    <3>2. Match(fs, "tmp", "crctmp")
      BY <3>1 DEF Match, Readable
    <3> QED BY <2>1, <2>2, <3>1, <3>2 DEF Settled, NewPair
  <2>5. CASE pc \in {"down", "move", "rencrc"}
    <3>1. Settled(fs) /\ dirty = {}
      BY <2>5 DEF IInv, SettledInv, DirtyInv, MoveInv
    <3> QED BY <2>1, <2>2, <3>1
  <2>6. CASE pc = "drop"
    <3>1. Settled(fs)
      BY <2>6 DEF IInv, SettledInv
    <3>2. dirty = {} \/ "crctmp" \notin Exists
      BY <2>6 DEF IInv, DropInv, SessionDrops, CheckDrops, TypeInv
    <3>3. "crctmp" \notin dirty
      BY <3>2 DEF IInv, DirtyInv
    <3> QED BY <2>1, <2>2, <3>1, <3>3
  <2> QED BY <2>3, <2>4, <2>5, <2>6 DEF IInv, TypeInv, Pcs, Windows
<1> QED BY <1>2, <1>3, <1>4, <1>5 DEF Sound

\* A step that does not change what is to come of the files.
LEMMA PastKept ==
  ASSUME IInv, past' \subseteq past \cup {Now},
         UNCHANGED <<with_crc, before, made>>, excused => excused',
         ~with_crc => Payload' = Payload,
         with_crc /\ ~excused' => Goal' = Goal,
         pc' # "rencrc"
  PROVE  PastInv'
<1>1. ASSUME NEW v \in past' PROVE Sound(v)'
  <2>1. Sound(v)
    <3>1. CASE v \in past
      BY <3>1 DEF IInv, PastInv
    <3>2. CASE v = Now
      BY <3>2, NowSound
    <3> QED BY <1>1, <3>1, <3>2
  <2>2. SoundShape(v)'
    BY <2>1 DEF Sound, SoundShape
  <2>3. SoundContents(v)'
    BY <2>1 DEF Sound, SoundContents, Whole
  <2>4. SoundPlain(v)'
    BY <2>1 DEF Sound, SoundPlain
  <2>5. SoundCrc(v)'
    <3>1. SUFFICES ASSUME with_crc, ~excused', ~v.window PROVE Recovers(v)'
      BY DEF SoundCrc
    <3>2. Recovers(v) /\ Goal' = Goal
      BY <2>1, <3>1 DEF Sound, SoundCrc
    <3> QED BY <3>2 DEF Recovers
  <2> QED BY <2>2, <2>3, <2>4, <2>5 DEF Sound
<1>2. RenamedOnce'
  BY DEF RenamedOnce
<1> QED BY <1>1, <1>2 DEF PastInv

\* After a fsync() a crash goes back to nothing.
LEMMA NoPast ==
  ASSUME past' = {}
  PROVE  PastInv'
BY DEF PastInv, RenamedOnce

-----------------------------------------------------------------------------
(* What the steps of a session have in common.                             *)

\* A step from a point of a session to another one, that does not touch the
\* payload and its CRC.
LEMMA SessionGoesOn ==
  ASSUME IInv, pc \in BeforeRename \ {"rename"}, pc' \in BeforeRename,
         Same("pay"), Same("crc"),
         UNCHANGED <<with_crc, prev, done>>, excused => excused'
  PROVE  /\ Payload' = prev' /\ ~done'
         /\ PairInv' /\ SettledInv' /\ MoveInv' /\ DropInv' /\ RestInv'
         /\ CrcTmpInv' /\ SessionInv' /\ pc' # "rename" => GoalInv'
         /\ UNCHANGED <<before, made>> => Payload' \subseteq Whole' /\ prev' \subseteq Whole'
         /\ /\ CrcTmpInv' /\ SessionInv' /\ pc' # "rename"
            /\ UNCHANGED <<before, made>> /\ past' \subseteq past \cup {Now}
            => PastInv'
<1>1. Payload' = prev' /\ Payload' = Payload /\ ~done'
  BY PayloadKept DEF IInv, SessionInv
<1>2. PairInv'
  BY PairedAgrees DEF IInv, PairInv, Same
<1>3. pc' \notin {"idle", "down", "move", "moving", "drop", "rencrc"}
  BY DEF BeforeRename
<1>4. SettledInv' /\ MoveInv' /\ DropInv'
  BY <1>3 DEF SettledInv, MoveInv, DropInv
<1>5. RestInv'
  BY <1>3 DEF RestInv, RefusedIsPrevious, CheckLeavesPairOrNothing
<1>6. ASSUME CrcTmpInv', SessionInv', pc' # "rename"
      PROVE  ~Pending' /\ Goal' = Payload'
  BY <1>6 DEF CrcTmpInv, SessionInv, Pending, Goal, BothTmp, BeforeRename, Exists
<1>7. ASSUME CrcTmpInv', SessionInv', pc' # "rename" PROVE GoalInv'
  BY <1>1, <1>6, <1>7 DEF GoalInv, PreviousOrNew
<1>8. ASSUME UNCHANGED <<before, made>> PROVE Payload' \subseteq Whole' /\ prev' \subseteq Whole'
  BY <1>1, <1>8 DEF IInv, WholeInv, Whole
<1>9. ASSUME CrcTmpInv', SessionInv', pc' # "rename",
             UNCHANGED <<before, made>>, past' \subseteq past \cup {Now}
      PROVE  PastInv'
  <2>1. Goal = Payload
    BY NotPending DEF IInv
  <2> QED BY <1>1, <1>3, <1>6, <1>9, <2>1, PastKept
<1> QED BY <1>1, <1>2, <1>4, <1>5, <1>7, <1>8, <1>9

\* A session that gives up: the unlinks are all that is left to do.
LEMMA SessionFails ==
  ASSUME IInv, pc \in BeforeRename, pc' = "drop",
         Same("pay"), Same("crc"), past' \subseteq past \cup {Now},
         UNCHANGED <<with_crc, want, sealed, done, prev, before, made>>,
         last' = "rollback" \/ (last' = "commit" /\ ret' = -1),
         \/ drops' = <<"tmp">> /\ (excused' <=> excused) /\ "crctmp" \notin Exists'
         \/ drops' = <<"tmp", "crc", "crctmp">> /\ excused' /\ with_crc,
         pc = "rename" => ~with_crc \/ excused'
  PROVE  /\ SessionInv' /\ WholeInv' /\ PairInv' /\ SettledInv' /\ MoveInv' /\ DropInv'
         /\ RestInv' /\ GoalInv' /\ PastInv'
<1>1. Payload' = prev' /\ Payload' = Payload /\ ~done'
  BY PayloadKept DEF IInv, SessionInv
<1>2. SessionInv' /\ PairInv' /\ MoveInv'
  BY DEF SessionInv, PairInv, MoveInv, BeforeRename
<1>3. WholeInv'
  BY <1>1 DEF IInv, WholeInv, Whole
<1>4. SettledInv'
  BY PairedAgrees DEF IInv, PairInv, SettledInv, Settled, OldPair, Same, Exists
<1>5. DropInv'
  BY <1>1 DEF DropInv, SessionDrops, BothTmp, Exists
<1>6. RestInv'
  BY DEF RestInv, RefusedIsPrevious, CheckLeavesPairOrNothing
<1>7. ~excused' => ~Pending' /\ Goal' = Payload'
  BY DEF Pending, Goal, BothTmp, Exists
<1>8. GoalInv'
  BY <1>1, <1>7 DEF GoalInv, PreviousOrNew
<1>9. ~excused' /\ with_crc => Goal = Payload
  BY NotPending DEF IInv
<1>10. PastInv'
  BY <1>1, <1>7, <1>9, PastKept
<1> QED BY <1>1, <1>2, <1>3, <1>4, <1>5, <1>6, <1>8, <1>10

-----------------------------------------------------------------------------
(* The invariant is inductive: futils_safew_fopen and the writes.          *)

\* futils_safew_fopen removes a left-over payload.tmp.
LEMMA FopenUnlinkKeeps ==
  ASSUME IInv, FopenUnlink, UNCHANGED with_crc
  PROVE  IInv'
<1>1. Unlink("tmp") /\ pc = "idle" /\ pc' = "fopen"
  BY DEF FopenUnlink
<1>2. /\ DOMAIN fs' = DOMAIN fs \ {"tmp"}
      /\ \A q \in DOMAIN fs : q # "tmp" => fs'[q] = fs[q]
      /\ dirty' = dirty \ {"tmp"} /\ past' \subseteq past \cup {Now}
  BY <1>1, UnlinkEffect
<1>3. Same("pay") /\ Same("crc")
  BY <1>2 DEF Same, Agree
<1>4. /\ Payload' = prev' /\ Payload' = Payload /\ ~done'
      /\ excused' = excused /\ last' = "none"
      /\ UNCHANGED <<before, made>>
  BY <1>3, PayloadKept DEF FopenUnlink
<1>5. TypeInv'
  BY <1>2 DEF FopenUnlink, TypeInv, IInv, Pcs, Exists, Readable
<1>6. DirtyInv' /\ PlainInv'
  BY <1>1, <1>2, <1>4 DEF IInv, DirtyInv, PlainInv, Exists
<1>7. SessionInv'
  BY <1>1, <1>2, <1>4 DEF FopenUnlink, SessionInv, Exists, BeforeRename
<1>8. CrcTmpInv'
  BY <1>1, <1>2 DEF IInv, CrcTmpInv, Exists, BothTmp
<1>9. WholeInv'
  BY <1>1, <1>4 DEF IInv, WholeInv, Whole
<1>10. PairInv'
  BY <1>1, <1>3, <1>4, PairedAgrees DEF IInv, PairInv, Same
<1>11. SettledInv' /\ MoveInv' /\ DropInv'
  BY <1>1 DEF SettledInv, MoveInv, DropInv
<1>12. RestInv'
  BY <1>1 DEF RestInv, RefusedIsPrevious, CheckLeavesPairOrNothing
<1>13. ~Pending' /\ Goal' = Payload' /\ Goal = Payload
  <2>1. ~Pending'
    BY <1>1, <1>2 DEF Pending, BothTmp
  <2> QED BY <1>1, <2>1, NotPending DEF IInv, Goal
<1>14. GoalInv'
  BY <1>4, <1>13 DEF GoalInv, PreviousOrNew
<1>15. PastInv'
  BY <1>1, <1>2, <1>4, <1>13, PastKept
<1> QED BY <1>5, <1>6, <1>7, <1>8, <1>9, <1>10, <1>11, <1>12, <1>14, <1>15 DEF IInv

\* It opens payload.tmp, or gives up with nothing changed.
LEMMA FopenKeeps ==
  ASSUME IInv, Fopen, UNCHANGED with_crc
  PROVE  IInv'
<1> USE DEF Exists
<1>1. /\ pc = "fopen"
      /\ UNCHANGED <<ret, last, want, sealed, done, prev, before, made, excused>>
      /\ buf' = <<>> /\ failure' = FALSE
  BY DEF Fopen, history
<1>2. "tmp" \notin Exists /\ "crctmp" \notin Exists /\ dirty = {} /\ last = "none" /\ ~sealed
      /\ Payload = prev /\ ~done
  BY <1>1 DEF IInv, SessionInv, CrcTmpInv, DirtyInv, BeforeRename
<1>3. CASE Create("tmp") /\ pc' = "open"
  <2>1. /\ DOMAIN fs' = DOMAIN fs \cup {"tmp"} /\ fs'["tmp"] = <<>>
        /\ \A q \in DOMAIN fs : q # "tmp" => fs'[q] = fs[q]
        /\ dirty' = dirty \cup {"tmp"} /\ past' \subseteq past \cup {Now}
    BY <1>3, CreateEffect
  <2>2. Same("pay") /\ Same("crc")
    BY <2>1 DEF Same, Agree
  <2>3. want = <<>>
    BY <1>1 DEF IInv, SessionInv
  <2>4. TypeInv'
    BY <1>1, <1>2, <1>3, <2>1 DEF IInv, TypeInv, Pcs, Path, Readable
  <2>5. DirtyInv' /\ PlainInv' /\ CrcTmpInv'
    BY <1>1, <1>2, <1>3, <2>1 DEF IInv, DirtyInv, PlainInv, CrcTmpInv, BothTmp
  <2>6. /\ Payload' = prev' /\ ~done'
        /\ PairInv' /\ SettledInv' /\ MoveInv' /\ DropInv' /\ RestInv'
        /\ CrcTmpInv' /\ SessionInv' => GoalInv' /\ PastInv'
        /\ Payload' \subseteq Whole' /\ prev' \subseteq Whole'
    BY <1>1, <1>3, <2>1, <2>2, SessionGoesOn DEF BeforeRename
  <2>7. fs'["tmp"] \o buf' = want'
    BY <1>1, <2>1, <2>3
  <2>8. SessionInv'
    BY <1>1, <1>2, <1>3, <2>1, <2>6, <2>7 DEF SessionInv, BeforeRename
  <2>9. WholeInv'
    BY <1>3, <2>6 DEF WholeInv
  <2> QED BY <2>4, <2>5, <2>6, <2>8, <2>9 DEF IInv
<1>4. CASE UNCHANGED <<fs, dirty, past>> /\ pc' = "idle"
  <2>1. Same("pay") /\ Same("crc") /\ Payload' = Payload
    BY <1>4, NoFileTouched, PayloadKept
  <2>2. TypeInv' /\ DirtyInv' /\ PlainInv' /\ CrcTmpInv'
    BY <1>1, <1>2, <1>4
       DEF IInv, TypeInv, DirtyInv, PlainInv, CrcTmpInv, Pcs, BothTmp, Readable
  <2>3. SessionInv' /\ SettledInv' /\ MoveInv' /\ DropInv'
    BY <1>4 DEF SessionInv, SettledInv, MoveInv, DropInv, BeforeRename
  <2>4. PairInv'
    BY <1>1, <1>4, <2>1, PairedAgrees DEF IInv, PairInv, BeforeRename, Same
  <2>5. RestInv'
    BY <1>1, <1>2, <1>4 DEF RestInv, RefusedIsPrevious, CheckLeavesPairOrNothing
  <2>6. WholeInv'
    BY <1>1, <1>4, <2>1 DEF IInv, WholeInv, Whole
  <2>7. ~Pending' /\ Goal' = Payload' /\ Goal = Payload
    <3>1. ~Pending'
      BY <1>2, <1>4 DEF Pending, BothTmp
    <3> QED BY <1>1, <3>1, NotPending DEF IInv, Goal, BeforeRename
  <2>8. GoalInv'
    BY <1>1, <1>2, <2>1, <2>7 DEF GoalInv, PreviousOrNew
  <2>9. PastInv'
    BY <1>1, <1>4, <2>1, <2>7, PastKept
  <2> QED BY <2>2, <2>3, <2>4, <2>5, <2>6, <2>8, <2>9 DEF IInv
<1> QED BY <1>3, <1>4 DEF Fopen, fileVars

\* futils_safew_fwrite and futils_safew_fprintf.
LEMMA WriteKeeps ==
  ASSUME IInv, NEW c \in Chunks, Write(c), UNCHANGED with_crc
  PROVE  IInv'
<1> USE DEF Exists
<1>1. /\ pc = "open" /\ pc' = "open"
      /\ UNCHANGED <<fs, dirty, past, ret, last, sealed, done, prev, before, made, excused>>
      /\ want' = Append(want, c)
      /\ \/ buf' = Append(buf, c) /\ failure' = failure
         \/ buf' = buf /\ failure' = TRUE
  BY DEF Write, fileVars
<1>2. /\ "crctmp" \notin Exists /\ "tmp" \in Exists /\ ~sealed
      /\ fs["tmp"] \in Seq(Chunks) /\ buf \in Seq(Chunks) /\ want \in Seq(Chunks)
      /\ failure \/ fs["tmp"] \o buf = want
  BY <1>1 DEF IInv, SessionInv, CrcTmpInv, TypeInv, BeforeRename
<1>3. TypeInv' /\ DirtyInv' /\ PlainInv' /\ CrcTmpInv'
  <2>1. Append(want, c) \in Seq(Chunks) /\ Append(buf, c) \in Seq(Chunks)
    BY <1>2, AppendProperties
  <2>2. want' \in Seq(Chunks) /\ buf' \in Seq(Chunks)
    BY <1>1, <1>2, <2>1
  <2> QED BY <1>1, <1>2, <2>2
          DEF IInv, TypeInv, DirtyInv, PlainInv, CrcTmpInv, Pcs, BothTmp, Readable
<1>4. /\ Payload' = prev' /\ ~done'
      /\ PairInv' /\ SettledInv' /\ MoveInv' /\ DropInv' /\ RestInv'
      /\ CrcTmpInv' /\ SessionInv' => GoalInv' /\ PastInv'
      /\ Payload' \subseteq Whole' /\ prev' \subseteq Whole'
  BY <1>1, NoFileTouched, SessionGoesOn DEF BeforeRename
<1>5. failure' \/ fs'["tmp"] \o buf' = want'
  <2>1. CASE failure' = TRUE
    BY <2>1
  <2>2. CASE buf' = Append(buf, c) /\ failure' = failure /\ ~failure
    BY <1>1, <1>2, <2>2
  <2> QED BY <1>1, <2>1, <2>2
<1>6. SessionInv'
  BY <1>1, <1>2, <1>4, <1>5 DEF SessionInv, BeforeRename
<1>7. WholeInv'
  BY <1>1, <1>4 DEF WholeInv
<1> QED BY <1>3, <1>4, <1>6, <1>7 DEF IInv

\* stdio empties its buffer into payload.tmp: whoever calls it, the contents of
\* the file and of the buffer together stay what they were.
LEMMA FlushEffect ==
  ASSUME IInv, AppendTo("tmp", buf), "tmp" \in Exists
  PROVE  /\ Exists' = Exists
         /\ fs'["tmp"] = fs["tmp"] \o buf /\ fs'["tmp"] \in Seq(Chunks)
         /\ Same("pay") /\ Same("crc") /\ Same("crctmp")
         /\ dirty' = dirty \cup {"tmp"} /\ past' = past
<1> USE DEF Exists
<1>1. /\ DOMAIN fs' = DOMAIN fs /\ fs'["tmp"] = fs["tmp"] \o buf
      /\ \A q \in DOMAIN fs : q # "tmp" => fs'[q] = fs[q]
      /\ dirty' = dirty \cup {"tmp"} /\ past' = past
  BY AppendEffect
<1>2. fs["tmp"] \in Seq(Chunks) /\ buf \in Seq(Chunks)
  BY DEF IInv, TypeInv
<1>3. fs["tmp"] \o buf \in Seq(Chunks)
  BY <1>2, ConcatProperties
<1> QED BY <1>1, <1>3 DEF Same, Agree

\* What is left of the type invariant and its like when only payload.tmp changes,
\* before there is a crc.tmp.
LEMMA OnlyTmpWritten ==
  ASSUME IInv, "crctmp" \notin Exists, "tmp" \in Exists,
         pc' \in Pcs \ {"idle", "down", "fopen", "rename", "rencrc", "crcwrite", "crcsync",
                        "move", "moving"},
         pc' \in {"crcread", "crcopen"} => with_crc,
         ret' \in {0, -1}, last' \in {last, "commit", "rollback"},
         buf' \in Seq(Chunks), want' \in Seq(Chunks),
         Exists' = Exists, fs'["tmp"] \in Seq(Chunks), Same("pay"), Same("crc"),
         dirty' \subseteq dirty \cup {"tmp"},
         UNCHANGED with_crc, excused' <=> excused
  PROVE  TypeInv' /\ DirtyInv' /\ PlainInv' /\ CrcTmpInv'
<1>1. TypeInv'
  BY DEF IInv, TypeInv, Same, Agree, Readable, Exists
<1>2. DirtyInv' /\ PlainInv'
  BY DEF IInv, DirtyInv, PlainInv
<1>3. CrcTmpInv'
  BY DEF IInv, CrcTmpInv, BothTmp, Exists
<1> QED BY <1>1, <1>2, <1>3

\* stdio empties its buffer when it likes.
LEMMA StdioFlushKeeps ==
  ASSUME IInv, StdioFlush, UNCHANGED with_crc
  PROVE  IInv'
<1>1. /\ pc = "open" /\ pc' = "open" /\ buf' = <<>>
      /\ UNCHANGED <<failure, ret, last, want, sealed, done, prev, before, made, excused>>
      /\ AppendTo("tmp", buf)
  BY DEF StdioFlush, history
<1>2. "tmp" \in Exists /\ "crctmp" \notin Exists /\ ~sealed
      /\ (failure \/ fs["tmp"] \o buf = want)
  BY <1>1 DEF IInv, SessionInv, CrcTmpInv, BeforeRename
<1>3. /\ Exists' = Exists
      /\ fs'["tmp"] = fs["tmp"] \o buf /\ fs'["tmp"] \in Seq(Chunks)
      /\ Same("pay") /\ Same("crc")
      /\ dirty' = dirty \cup {"tmp"} /\ past' = past
  BY <1>1, <1>2, FlushEffect
<1>4. fs'["tmp"] \o buf' = fs'["tmp"]
  BY <1>1, <1>3, ConcatEmptySeq
<1>5. TypeInv' /\ DirtyInv' /\ PlainInv' /\ CrcTmpInv'
  <2>1. ret \in {0, -1} /\ want \in Seq(Chunks)
    BY DEF IInv, TypeInv
  <2> QED BY <1>1, <1>2, <1>3, <2>1, OnlyTmpWritten DEF Pcs
<1>6. /\ Payload' = prev' /\ ~done'
      /\ PairInv' /\ SettledInv' /\ MoveInv' /\ DropInv' /\ RestInv'
      /\ CrcTmpInv' /\ SessionInv' => GoalInv' /\ PastInv'
      /\ Payload' \subseteq Whole' /\ prev' \subseteq Whole'
  BY <1>1, <1>3, SessionGoesOn DEF BeforeRename
<1>7. SessionInv'
  BY <1>1, <1>2, <1>3, <1>4, <1>6 DEF SessionInv, BeforeRename
<1>8. WholeInv'
  BY <1>1, <1>6 DEF WholeInv
<1> QED BY <1>5, <1>6, <1>7, <1>8 DEF IInv

-----------------------------------------------------------------------------
(* futils_safew_fclose_rollback and safew_fclose_commit.                   *)

\* What fflush and fclose do, whether they succeed or not.
LEMMA FlushBufEffect ==
  ASSUME IInv, NEW ok \in BOOLEAN, FlushBuf(ok), "tmp" \in Exists
  PROVE  /\ Exists' = Exists
         /\ fs'["tmp"] \in Seq(Chunks)
         /\ ok => fs'["tmp"] = fs["tmp"] \o buf
         /\ Same("pay") /\ Same("crc") /\ Same("crctmp")
         /\ dirty' \subseteq dirty \cup {"tmp"} /\ past' = past
         /\ buf = <<>> => fs' = fs /\ dirty' = dirty
         /\ buf' = <<>>
<1>1. CASE ok /\ buf # <<>>
  BY <1>1, FlushEffect DEF FlushBuf
<1>2. CASE ~(ok /\ buf # <<>>)
  <2>1. UNCHANGED fs /\ UNCHANGED dirty /\ UNCHANGED past /\ buf' = <<>>
    BY <1>2 DEF FlushBuf, fileVars
  <2>2. fs["tmp"] \in Seq(Chunks)
    BY DEF IInv, TypeInv
  <2>3. buf = <<>> => fs["tmp"] \o buf = fs["tmp"]
    BY <2>2, ConcatEmptySeq
  <2> QED BY <1>2, <2>1, <2>2, <2>3, NoFileTouched DEF Exists
<1> QED BY <1>1, <1>2

\* futils_safew_fclose_rollback.
LEMMA RollbackKeeps ==
  ASSUME IInv, Rollback, UNCHANGED with_crc
  PROVE  IInv'
<1>1. /\ pc = "open" /\ pc' = "drop" /\ last' = "rollback" /\ drops' = <<"tmp">>
      /\ UNCHANGED <<failure, want, sealed, done, prev, before, made, excused>>
      /\ ret' \in {0, -1}
      /\ \E ok \in BOOLEAN : FlushBuf(ok)
  BY DEF Rollback, history, Outcomes
<1>2. "tmp" \in Exists /\ "crctmp" \notin Exists /\ want \in Seq(Chunks)
  BY <1>1 DEF IInv, TypeInv, SessionInv, CrcTmpInv, BeforeRename
<1>3. /\ Exists' = Exists /\ fs'["tmp"] \in Seq(Chunks)
      /\ Same("pay") /\ Same("crc") /\ past' = past
      /\ dirty' \subseteq dirty \cup {"tmp"} /\ buf' = <<>>
  BY <1>1, <1>2, FlushBufEffect
<1>4. TypeInv' /\ DirtyInv' /\ PlainInv' /\ CrcTmpInv'
  BY <1>1, <1>2, <1>3, OnlyTmpWritten DEF Pcs
<1>5. /\ SessionInv' /\ WholeInv' /\ PairInv' /\ SettledInv' /\ MoveInv' /\ DropInv'
      /\ RestInv' /\ GoalInv' /\ PastInv'
  BY <1>1, <1>2, <1>3, SessionFails DEF BeforeRename
<1> QED BY <1>4, <1>5 DEF IInv

\* A commit begins.
LEMMA CommitKeeps ==
  ASSUME IInv, Commit, UNCHANGED with_crc
  PROVE  IInv'
<1>1. /\ pc = "open" /\ last' = "commit"
      /\ UNCHANGED <<fs, dirty, past, buf, failure, want, done, prev, before, made, excused>>
      /\ \/ failure /\ ret' = -1 /\ pc' = "fclose"
         \/ ~failure /\ sealed' /\ ret' = 0 /\ pc' = "fflush"
  BY DEF Commit, fileVars
<1>2. /\ "tmp" \in Exists /\ "crctmp" \notin Exists /\ (failure \/ fs["tmp"] \o buf = want)
      /\ want \in Seq(Chunks) /\ buf \in Seq(Chunks) /\ fs["tmp"] \in Seq(Chunks)
  BY <1>1 DEF IInv, TypeInv, SessionInv, CrcTmpInv, BeforeRename
<1>3. Exists' = Exists /\ Same("pay") /\ Same("crc")
  BY <1>1, NoFileTouched DEF Exists
<1>4. TypeInv' /\ DirtyInv' /\ PlainInv' /\ CrcTmpInv'
  BY <1>1, <1>2, <1>3, OnlyTmpWritten DEF Pcs
<1>5. /\ Payload' = prev' /\ ~done'
      /\ PairInv' /\ SettledInv' /\ MoveInv' /\ DropInv' /\ RestInv'
      /\ CrcTmpInv' /\ SessionInv' => GoalInv' /\ PastInv'
      /\ Payload' \subseteq Whole' /\ prev' \subseteq Whole'
  BY <1>1, <1>3, SessionGoesOn DEF BeforeRename
<1>6. SessionInv'
  BY <1>1, <1>2, <1>3, <1>5 DEF SessionInv, BeforeRename
<1>7. WholeInv'
  BY <1>1, <1>5 DEF WholeInv
<1> QED BY <1>4, <1>5, <1>6, <1>7 DEF IInv

LEMMA CommitFflushKeeps ==
  ASSUME IInv, CommitFflush, UNCHANGED with_crc
  PROVE  IInv'
<1>1. /\ pc = "fflush" /\ pc' = "fsync"
      /\ UNCHANGED <<failure, last, want, sealed, done, prev, before, made, excused>>
      /\ \/ FlushBuf(TRUE) /\ ret' = ret
         \/ UNCHANGED <<fs, dirty, past, buf>> /\ ret' = -1
  BY DEF CommitFflush, fileVars, history, Outcomes
<1>2. /\ "tmp" \in Exists /\ "crctmp" \notin Exists /\ fs["tmp"] \o buf = want
      /\ sealed /\ ret = 0 /\ last = "commit" /\ fs["tmp"] \in Seq(Chunks)
      /\ want \in Seq(Chunks)
  BY <1>1 DEF IInv, SessionInv, CrcTmpInv, TypeInv, BeforeRename
<1>3. /\ Exists' = Exists /\ fs'["tmp"] \in Seq(Chunks)
      /\ Same("pay") /\ Same("crc") /\ dirty' \subseteq dirty \cup {"tmp"} /\ past' = past
      /\ buf' \in Seq(Chunks) /\ ret' \in {0, -1}
      /\ ret' = 0 => fs'["tmp"] = want /\ buf' = <<>>
  <2>1. CASE FlushBuf(TRUE) /\ ret' = ret
    <3>1. buf' = <<>> /\ (buf # <<>> => AppendTo("tmp", buf))
          /\ (buf = <<>> => UNCHANGED fs /\ UNCHANGED dirty /\ UNCHANGED past)
      BY <2>1 DEF FlushBuf, fileVars
    <3>2. buf = <<>> => fs["tmp"] \o buf = fs["tmp"]
      BY <1>2, ConcatEmptySeq
    <3> QED BY <1>2, <2>1, <3>1, <3>2, FlushEffect, NoFileTouched DEF Exists
  <2>2. CASE UNCHANGED <<fs, dirty, past, buf>> /\ ret' = -1
    BY <1>2, <2>2, NoFileTouched DEF Exists, IInv, TypeInv
  <2> QED BY <1>1, <2>1, <2>2
<1>4. TypeInv' /\ DirtyInv' /\ PlainInv' /\ CrcTmpInv'
  BY <1>1, <1>2, <1>3, OnlyTmpWritten DEF Pcs
<1>5. /\ Payload' = prev' /\ ~done'
      /\ PairInv' /\ SettledInv' /\ MoveInv' /\ DropInv' /\ RestInv'
      /\ CrcTmpInv' /\ SessionInv' => GoalInv' /\ PastInv'
      /\ Payload' \subseteq Whole' /\ prev' \subseteq Whole'
  BY <1>1, <1>3, SessionGoesOn DEF BeforeRename
<1>6. SessionInv'
  BY <1>1, <1>2, <1>3, <1>5 DEF SessionInv, BeforeRename
<1>7. WholeInv'
  BY <1>1, <1>5 DEF WholeInv
<1> QED BY <1>4, <1>5, <1>6, <1>7 DEF IInv

\* The data are on the disk, and what the earlier sessions did is final.
LEMMA CommitFsyncKeeps ==
  ASSUME IInv, CommitFsync, UNCHANGED with_crc
  PROVE  IInv'
<1>1. /\ pc = "fsync" /\ pc' = "fclose"
      /\ UNCHANGED <<fs, buf, failure, last, want, sealed, done, prev, excused>>
      /\ \/ /\ dirty' = dirty \ {"tmp"} /\ past' = {} /\ ret' = ret
            /\ before' = prev /\ made' = IF ret = 0 THEN {want} ELSE {}
         \/ UNCHANGED <<dirty, past, before, made>> /\ ret' = -1
  BY DEF CommitFsync, fileVars, Fsync, Synced, Outcomes
<1>2. /\ "tmp" \in Exists /\ "crctmp" \notin Exists /\ last = "commit"
      /\ ret = 0 => sealed /\ buf = <<>> /\ fs["tmp"] = want
      /\ ret \in {0, -1} /\ want \in Seq(Chunks) /\ buf \in Seq(Chunks)
      /\ fs["tmp"] \in Seq(Chunks)
  BY <1>1 DEF IInv, TypeInv, SessionInv, CrcTmpInv, BeforeRename
<1>3. Exists' = Exists /\ Same("pay") /\ Same("crc")
  BY <1>1, NoFileTouched DEF Exists
<1>4. TypeInv' /\ DirtyInv' /\ PlainInv' /\ CrcTmpInv'
  BY <1>1, <1>2, <1>3, OnlyTmpWritten DEF Pcs
<1>5. /\ Payload' = prev' /\ ~done'
      /\ PairInv' /\ SettledInv' /\ MoveInv' /\ DropInv' /\ RestInv'
      /\ CrcTmpInv' /\ SessionInv' => GoalInv'
      /\ UNCHANGED <<before, made>> => Payload' \subseteq Whole' /\ prev' \subseteq Whole'
      /\ /\ CrcTmpInv' /\ SessionInv' /\ UNCHANGED <<before, made>>
         /\ past' \subseteq past \cup {Now}
         => PastInv'
  BY <1>1, <1>3, SessionGoesOn DEF BeforeRename
<1>6. SessionInv'
  BY <1>1, <1>2, <1>3, <1>5 DEF SessionInv, BeforeRename
<1>7. WholeInv' /\ PastInv'
  <2>1. CASE /\ past' = {} /\ ret' = ret
             /\ before' = prev /\ made' = IF ret = 0 THEN {want} ELSE {}
    <3>1. Payload' \subseteq Whole' /\ prev' \subseteq Whole'
      BY <1>1, <1>5, <2>1 DEF Whole
    <3>2. ret' = 0 => before' = prev' /\ made' = {want'} /\ past' = {}
      BY <1>1, <2>1
    <3> QED BY <1>1, <2>1, <3>1, <3>2, NoPast DEF WholeInv
  <2>2. CASE UNCHANGED <<dirty, past, before, made>> /\ ret' = -1
    BY <1>1, <1>4, <1>5, <1>6, <2>2 DEF WholeInv
  <2> QED BY <1>1, <2>1, <2>2
<1> QED BY <1>4, <1>5, <1>6, <1>7 DEF IInv

\* The payload is ready to be renamed: from now on it is what a check makes.
LEMMA RenameReady ==
  ASSUME pc' = "rename", SessionInv', WholeInv', CrcTmpInv'
  PROVE  GoalInv' /\ PastInv'
<1>1. /\ Payload' = prev' /\ ~done' /\ sealed' /\ fs'["tmp"] = want' /\ before' = prev'
      /\ past' = {} /\ (with_crc' => BothTmp(fs)')
  BY DEF SessionInv, WholeInv, BeforeRename, BothTmp, Exists
<1>2. with_crc' => Pending' /\ Goal' = {want'}
  BY <1>1 DEF Pending, Goal
<1>3. GoalInv'
  BY <1>1, <1>2 DEF GoalInv, PreviousOrNew
<1> QED BY <1>1, <1>3, NoPast

LEMMA CommitFcloseKeeps ==
  ASSUME IInv, CommitFclose, UNCHANGED with_crc
  PROVE  IInv'
<1>1. PICK ok \in BOOLEAN :
        /\ FlushBuf(ok)
        /\ ret' = IF ok THEN ret ELSE -1
        /\ IF ret' < 0 THEN Fail(FALSE)
                       ELSE /\ pc' = IF with_crc THEN "crcread" ELSE "rename"
                            /\ UNCHANGED <<drops, excused>>
  BY DEF CommitFclose, Outcomes
<1>2. pc = "fclose" /\ UNCHANGED <<failure, last, want, sealed, done, prev, before, made>>
  BY DEF CommitFclose, history
<1>3. /\ "tmp" \in Exists /\ "crctmp" \notin Exists /\ last = "commit"
      /\ ret = 0 => sealed /\ buf = <<>> /\ fs["tmp"] = want /\ "tmp" \notin dirty
      /\ ret = 0 => before = prev /\ made = {want} /\ past = {}
      /\ ret \in {0, -1} /\ want \in Seq(Chunks)
  BY <1>2 DEF IInv, SessionInv, CrcTmpInv, WholeInv, BeforeRename, TypeInv
<1>4. ret' = -1 \/ (ret = 0 /\ ret' = 0)
  BY <1>1, <1>3
<1>5. /\ Exists' = Exists /\ fs'["tmp"] \in Seq(Chunks) /\ buf' = <<>>
      /\ Same("pay") /\ Same("crc") /\ dirty' \subseteq dirty \cup {"tmp"}
      /\ buf = <<>> => fs' = fs /\ dirty' = dirty
      /\ past' = past
  BY <1>1, <1>3, FlushBufEffect
<1>6. CASE ret' = -1
  <2>0. ret' < 0
    BY <1>6
  <2>1. pc' = "drop" /\ drops' = <<"tmp">> /\ (excused' <=> excused)
    BY <1>1, <2>0 DEF Fail
  <2>2. TypeInv' /\ DirtyInv' /\ PlainInv' /\ CrcTmpInv'
    BY <1>2, <1>3, <1>5, <1>6, <2>1, OnlyTmpWritten DEF Pcs
  <2>3. /\ SessionInv' /\ WholeInv' /\ PairInv' /\ SettledInv' /\ MoveInv' /\ DropInv'
        /\ RestInv' /\ GoalInv' /\ PastInv'
    BY <1>2, <1>3, <1>5, <1>6, <2>1, SessionFails DEF BeforeRename
  <2> QED BY <2>2, <2>3 DEF IInv
<1>7. CASE ret = 0 /\ ret' = 0
  <2>0. ~(ret' < 0) /\ ret = 0 /\ ret' = 0
    BY <1>7
  <2>1. /\ ret = 0 /\ ret' = 0 /\ excused' = excused
        /\ with_crc => pc' = "crcread"
        /\ ~with_crc => pc' = "rename"
    BY <1>1, <2>0
  <2>2. fs' = fs /\ dirty' = dirty /\ "tmp" \notin dirty /\ fs["tmp"] = want /\ sealed
    BY <1>3, <1>5, <2>1
  <2>3. dirty = {}
    BY <1>3, <2>2 DEF IInv, DirtyInv
  <2>4. TypeInv' /\ DirtyInv' /\ PlainInv' /\ CrcTmpInv'
    BY <1>2, <1>3, <1>5, <2>1, <2>2, <2>3
       DEF IInv, TypeInv, DirtyInv, PlainInv, CrcTmpInv, Pcs, BothTmp, Exists, Readable
  <2>5. /\ Payload' = prev' /\ ~done'
        /\ PairInv' /\ SettledInv' /\ MoveInv' /\ DropInv' /\ RestInv'
        /\ CrcTmpInv' /\ SessionInv' /\ pc' # "rename" => GoalInv' /\ PastInv'
        /\ Payload' \subseteq Whole' /\ prev' \subseteq Whole'
    BY <1>2, <1>5, <2>1, SessionGoesOn DEF BeforeRename
  <2>6. SessionInv'
    BY <1>2, <1>3, <1>5, <2>1, <2>2, <2>5 DEF SessionInv, BeforeRename
  <2>7. WholeInv'
    BY <1>2, <1>3, <1>5, <2>1, <2>5 DEF WholeInv
  <2>8. GoalInv' /\ PastInv'
    BY <2>1, <2>4, <2>5, <2>6, <2>7, RenameReady
  <2> QED BY <2>4, <2>5, <2>6, <2>7, <2>8 DEF IInv
<1> QED BY <1>4, <1>6, <1>7

-----------------------------------------------------------------------------
(* safew_tmp_crc_create and the renames.                                   *)

\* What their failures have in common.
LEMMA CrcStepFails ==
  ASSUME IInv, Fail(TRUE), with_crc, pc \in {"crcread", "crcopen", "crcsync", "rename"},
         UNCHANGED <<with_crc, fs, buf, last, want, sealed, done, prev, before, made>>,
         ret' = -1, dirty' \subseteq dirty, past' \subseteq past
  PROVE  IInv'
<1>1. pc' = "drop" /\ drops' = <<"tmp", "crc", "crctmp">> /\ excused'
  BY DEF Fail
<1>2. last = "commit" /\ Exists' = Exists /\ Same("pay") /\ Same("crc")
  BY NoFileTouched DEF Exists, IInv, SessionInv, BeforeRename
<1>3. TypeInv' /\ DirtyInv' /\ PlainInv' /\ CrcTmpInv'
  BY <1>1, <1>2
     DEF IInv, TypeInv, DirtyInv, PlainInv, CrcTmpInv, Pcs, BothTmp, Whole, Readable
<1>4. /\ SessionInv' /\ WholeInv' /\ PairInv' /\ SettledInv' /\ MoveInv' /\ DropInv'
      /\ RestInv' /\ GoalInv' /\ PastInv'
  <2>1. past' \subseteq past \cup {Now} /\ pc \in BeforeRename
    BY DEF BeforeRename
  <2> QED BY <1>1, <1>2, <2>1, SessionFails
<1> QED BY <1>3, <1>4 DEF IInv

\* It reads the payload back.
LEMMA CrcReadKeeps ==
  ASSUME IInv, CrcRead, UNCHANGED with_crc
  PROVE  IInv'
<1>1. /\ pc = "crcread"
      /\ UNCHANGED <<fs, dirty, past, buf, last, want, sealed, done, prev, before, made>>
  BY DEF CrcRead, fileVars, history
<1>2. with_crc
  BY <1>1 DEF IInv, PlainInv
<1>3. CASE pc' = "crcopen" /\ UNCHANGED <<ret, excused>>
  <2>1. Exists' = Exists /\ Same("pay") /\ Same("crc")
    BY <1>1, NoFileTouched DEF Exists
  <2>2. TypeInv' /\ DirtyInv' /\ PlainInv' /\ CrcTmpInv'
    BY <1>1, <1>2, <1>3, <2>1
       DEF IInv, TypeInv, DirtyInv, PlainInv, CrcTmpInv, Pcs, BothTmp, Whole, Readable
  <2>3. /\ Payload' = prev' /\ ~done'
        /\ PairInv' /\ SettledInv' /\ MoveInv' /\ DropInv' /\ RestInv'
        /\ CrcTmpInv' /\ SessionInv' => GoalInv' /\ PastInv'
        /\ Payload' \subseteq Whole' /\ prev' \subseteq Whole'
    BY <1>1, <1>3, <2>1, SessionGoesOn DEF BeforeRename
  <2>4. SessionInv'
    BY <1>1, <1>3, <2>1, <2>3 DEF IInv, SessionInv, BeforeRename
  <2>5. WholeInv'
    BY <1>1, <1>3, <2>3 DEF IInv, WholeInv
  <2> QED BY <2>2, <2>3, <2>4, <2>5 DEF IInv
<1>4. CASE ret' = -1 /\ Fail(TRUE)
  BY <1>1, <1>2, <1>4, CrcStepFails
<1> QED BY <1>3, <1>4 DEF CrcRead

\* It creates crc.tmp.
LEMMA CrcOpenKeeps ==
  ASSUME IInv, CrcOpen, UNCHANGED with_crc
  PROVE  IInv'
<1>1. /\ pc = "crcopen"
      /\ UNCHANGED <<buf, last, want, sealed, done, prev, before, made>>
  BY DEF CrcOpen, history
<1>2. /\ with_crc /\ "tmp" \in Exists /\ sealed /\ fs["tmp"] = want /\ "tmp" \notin dirty
      /\ ret = 0 /\ last = "commit" /\ before = prev /\ made = {want}
  BY <1>1 DEF IInv, PlainInv, SessionInv, WholeInv, BeforeRename
<1>3. CASE Create("crctmp") /\ pc' = "crcwrite" /\ UNCHANGED <<ret, excused>>
  <2>1. /\ Exists' = Exists \cup {"crctmp"} /\ fs'["crctmp"] = <<>>
        /\ fs'["tmp"] = fs["tmp"] /\ Same("pay") /\ Same("crc")
        /\ dirty' = dirty \cup {"crctmp"} /\ past' \subseteq past \cup {Now}
    <3>1. /\ DOMAIN fs' = DOMAIN fs \cup {"crctmp"} /\ fs'["crctmp"] = <<>>
          /\ \A q \in DOMAIN fs : q # "crctmp" => fs'[q] = fs[q]
          /\ dirty' = dirty \cup {"crctmp"} /\ past' \subseteq past \cup {Now}
      BY <1>3, CreateEffect
    <3> QED BY <1>2, <3>1 DEF Exists, Same, Agree
  <2>2. TypeInv'
    BY <1>1, <1>2, <1>3, <2>1
       DEF IInv, TypeInv, Pcs, Path, AtMostOne, Same, Agree, Readable, Exists
  <2>3. DirtyInv' /\ PlainInv' /\ CrcTmpInv'
    BY <1>1, <1>2, <1>3, <2>1 DEF IInv, DirtyInv, PlainInv, CrcTmpInv, Path, Whole
  <2>4. /\ Payload' = prev' /\ ~done'
        /\ PairInv' /\ SettledInv' /\ MoveInv' /\ DropInv' /\ RestInv'
        /\ CrcTmpInv' /\ SessionInv' => GoalInv' /\ PastInv'
        /\ Payload' \subseteq Whole' /\ prev' \subseteq Whole'
    BY <1>1, <1>3, <2>1, SessionGoesOn DEF BeforeRename
  <2>5. SessionInv'
    BY <1>1, <1>2, <1>3, <2>1, <2>4 DEF SessionInv, BeforeRename
  <2>6. WholeInv'
    BY <1>1, <1>2, <1>3, <2>4 DEF WholeInv
  <2> QED BY <2>2, <2>3, <2>4, <2>5, <2>6 DEF IInv
<1>4. CASE UNCHANGED <<fs, dirty, past>> /\ ret' = -1 /\ Fail(TRUE)
  BY <1>1, <1>2, <1>4, CrcStepFails
<1> QED BY <1>3, <1>4 DEF CrcOpen, fileVars

\* It writes the CRC of what it has read of payload.tmp.
LEMMA CrcWriteKeeps ==
  ASSUME IInv, CrcWrite, UNCHANGED with_crc
  PROVE  IInv'
<1>1. /\ pc = "crcwrite" /\ pc' = "crcsync"
      /\ UNCHANGED <<buf, last, want, sealed, done, prev, before, made>>
  BY DEF CrcWrite, history
<1>2. /\ with_crc /\ "tmp" \in Exists /\ sealed /\ fs["tmp"] = want /\ "tmp" \notin dirty
      /\ ret = 0 /\ last = "commit" /\ "crctmp" \in Exists /\ fs["crctmp"] = <<>>
      /\ before = prev /\ made = {want} /\ want \in Seq(Chunks)
  BY <1>1 DEF IInv, TypeInv, PlainInv, SessionInv, WholeInv, BeforeRename
<1>3. /\ Exists' = Exists /\ fs'["tmp"] = fs["tmp"] /\ Same("pay") /\ Same("crc")
      /\ dirty' \subseteq dirty \cup {"crctmp"} /\ ret' \in {0, -1} /\ past' = past
      /\ AtMostOne(fs'["crctmp"]) /\ (excused => excused')
      /\ ret' = 0 => /\ fs'["crctmp"] # <<>>
                     /\ excused' \/ fs'["crctmp"] = <<want>>
  <2>1. CASE \E n \in 0 .. MaxWrites :
               /\ EndOfRead(n, fs["tmp"])
               /\ AppendTo("crctmp", <<SubSeq(fs["tmp"], 1, n)>>)
               /\ excused' = (excused \/ n < Len(fs["tmp"]))
               /\ UNCHANGED ret
    <3>1. PICK n \in 0 .. MaxWrites :
               /\ EndOfRead(n, want)
               /\ AppendTo("crctmp", <<SubSeq(want, 1, n)>>)
               /\ excused' = (excused \/ n < Len(want))
               /\ UNCHANGED ret
      BY <1>2, <2>1
    <3> DEFINE x == SubSeq(want, 1, n)
    <3>2. n \in Nat /\ Len(want) \in Nat /\ n <= Len(want)
      BY <1>2, <3>1, ConstantsAssumption DEF EndOfRead
    <3>3. n < Len(want) \/ x = want
      BY <1>2, <3>2, SubSeqFull
    <3>4. AppendTo("crctmp", <<x>>)
      BY <3>1
    <3> HIDE DEF x
    <3>5. <<>> \o <<x>> = <<x>> /\ <<x>> # <<>> /\ AtMostOne(<<x>>)
      <4>1. <<x>> \in Seq({x}) /\ <<x>>[1] = x
        OBVIOUS
      <4> QED BY <4>1, ConcatEmptySeq DEF AtMostOne
    <3>6. fs'["crctmp"] = <<x>>
      BY <1>2, <3>4, <3>5, AppendEffect DEF Exists
    <3>7. /\ Exists' = Exists /\ fs'["tmp"] = fs["tmp"] /\ Same("pay") /\ Same("crc")
          /\ dirty' = dirty \cup {"crctmp"} /\ past' = past
      BY <1>2, <3>4, AppendEffect DEF Exists, Same, Agree
    <3> QED BY <1>2, <3>1, <3>3, <3>5, <3>6, <3>7
  <2>2. CASE UNCHANGED <<fs, dirty, past, excused>> /\ ret' = -1
    BY <1>2, <2>2, NoFileTouched DEF Exists, AtMostOne
  <2> QED BY <2>1, <2>2 DEF CrcWrite, fileVars
<1>4. TypeInv'
  BY <1>1, <1>2, <1>3 DEF IInv, TypeInv, Pcs, Same, Agree, Readable, Exists
<1>5. DirtyInv' /\ PlainInv' /\ CrcTmpInv'
  BY <1>1, <1>2, <1>3 DEF IInv, DirtyInv, PlainInv, CrcTmpInv, Whole
<1>6. /\ Payload' = prev' /\ ~done'
      /\ PairInv' /\ SettledInv' /\ MoveInv' /\ DropInv' /\ RestInv'
      /\ CrcTmpInv' /\ SessionInv' => GoalInv' /\ PastInv'
      /\ Payload' \subseteq Whole' /\ prev' \subseteq Whole'
  BY <1>1, <1>3, SessionGoesOn DEF BeforeRename
<1>7. SessionInv'
  BY <1>1, <1>2, <1>3, <1>6 DEF SessionInv, BeforeRename, Readable
<1>8. WholeInv'
  BY <1>1, <1>2, <1>6 DEF WholeInv
<1> QED BY <1>4, <1>5, <1>6, <1>7, <1>8 DEF IInv

\* It synchronises and closes crc.tmp.
LEMMA CrcSyncKeeps ==
  ASSUME IInv, CrcSync, UNCHANGED with_crc
  PROVE  IInv'
<1>1. /\ pc = "crcsync"
      /\ UNCHANGED <<fs, buf, last, want, sealed, done, prev, before, made>>
      /\ dirty' \subseteq dirty /\ past' \subseteq past
      /\ \/ /\ ret = 0 /\ dirty' = dirty \ {"crctmp"} /\ past' = {} /\ pc' = "rename"
            /\ UNCHANGED <<ret, excused>>
         \/ ret' = -1 /\ Fail(TRUE)
  BY DEF CrcSync, fileVars, Fsync, history
<1>2. with_crc
  BY <1>1 DEF IInv, PlainInv
<1>3. CASE /\ ret = 0 /\ dirty' = dirty \ {"crctmp"} /\ past' = {} /\ pc' = "rename"
           /\ UNCHANGED <<ret, excused>>
  <2>1. Exists' = Exists /\ Same("pay") /\ Same("crc")
    BY <1>1, NoFileTouched DEF Exists
  <2>2. TypeInv' /\ PlainInv' /\ CrcTmpInv'
    BY <1>1, <1>2, <1>3, <2>1
       DEF IInv, TypeInv, PlainInv, CrcTmpInv, Pcs, BothTmp, Whole, Readable
  <2>3. DirtyInv'
    BY <1>1, <1>3, <2>1 DEF IInv, DirtyInv, SessionInv
  <2>4. /\ Payload' = prev' /\ ~done'
        /\ PairInv' /\ SettledInv' /\ MoveInv' /\ DropInv' /\ RestInv'
        /\ Payload' \subseteq Whole' /\ prev' \subseteq Whole'
    BY <1>1, <1>3, <2>1, SessionGoesOn DEF BeforeRename
  <2>5. SessionInv'
    BY <1>1, <1>3, <2>1, <2>3, <2>4 DEF IInv, SessionInv, DirtyInv, BeforeRename, Readable
  <2>6. WholeInv'
    BY <1>1, <1>3, <2>4 DEF IInv, WholeInv
  <2>7. GoalInv' /\ PastInv'
    BY <1>3, <2>2, <2>5, <2>6, RenameReady
  <2> QED BY <2>2, <2>3, <2>4, <2>5, <2>6, <2>7 DEF IInv
<1>4. CASE ret' = -1 /\ Fail(TRUE)
  BY <1>1, <1>2, <1>4, CrcStepFails
<1> QED BY <1>1, <1>3, <1>4

\* The new payload replaces the old one.
LEMMA CommitRenameKeeps ==
  ASSUME IInv, CommitRename, UNCHANGED with_crc
  PROVE  IInv'
<1>1. pc = "rename" /\ UNCHANGED <<buf, last, want, sealed, prev, before, made>>
  BY DEF CommitRename
<1>2. /\ "tmp" \in Exists /\ fs["tmp"] = want /\ sealed /\ dirty = {}
      /\ ret = 0 /\ last = "commit" /\ ~done
      /\ before = prev /\ made = {want} /\ past = {} /\ Payload = prev
      /\ with_crc => /\ "crctmp" \in Exists /\ Readable(fs, "crctmp")
                     /\ excused \/ fs["crctmp"] = <<want>>
      /\ ~with_crc => "crctmp" \notin Exists
  BY <1>1 DEF IInv, SessionInv, BeforeRename, DirtyInv, PlainInv, WholeInv
<1>3. CASE /\ Rename("tmp", "pay")
           /\ pc' = IF with_crc THEN "rencrc" ELSE "idle"
           /\ done' = ~with_crc
           /\ UNCHANGED <<ret, drops, excused>>
  <2>1. /\ Exists' = (Exists \ {"tmp"}) \cup {"pay"} /\ fs'["pay"] = want
        /\ dirty' = {} /\ Same("crc") /\ Same("crctmp") /\ past' = {Now}
    <3>1. /\ DOMAIN fs' = (DOMAIN fs \ {"tmp"}) \cup {"pay"}
          /\ fs'["pay"] = fs["tmp"]
          /\ \A q \in DOMAIN fs : q # "tmp" /\ q # "pay" => fs'[q] = fs[q]
          /\ "tmp" \notin dirty => dirty' = dirty \ {"tmp", "pay"}
          /\ past' = past \cup {Now}
      BY <1>2, <1>3, RenameEffect DEF Exists
    <3> QED BY <1>2, <3>1 DEF Exists, Same, Agree
  <2>2. Payload' = {want}
    BY <2>1 DEF Payload, PayloadIn, Exists
  <2>3. /\ with_crc => pc' = "rencrc" /\ ~done'
        /\ ~with_crc => pc' = "idle"
        /\ ret' = 0 /\ excused' = excused
    BY <1>2, <1>3
  <2>4. TypeInv'
    BY <1>1, <1>2, <2>1, <2>3 DEF IInv, TypeInv, Pcs, Path, Same, Agree, Exists, Readable
  <2>5. DirtyInv' /\ PlainInv' /\ CrcTmpInv'
    <3>1. ~BothTmp(fs)'
      BY <2>1 DEF BothTmp, Exists
    <3> QED BY <1>1, <1>2, <2>1, <2>3, <3>1
            DEF IInv, DirtyInv, PlainInv, CrcTmpInv, Same, Agree, Exists
  <2>6. SessionInv'
    BY <1>1, <1>2, <2>1, <2>3 DEF SessionInv, BeforeRename, Same, Agree, Exists, Readable
  <2>7. PairInv' /\ MoveInv' /\ DropInv'
    <3>1. PairInv'
      BY <2>3 DEF PairInv, BeforeRename
    <3> QED BY <2>3, <3>1 DEF MoveInv, DropInv
  <2>8. SettledInv'
    <3>1. SUFFICES ASSUME with_crc, ~excused PROVE NewPayload(fs)'
      BY <2>3 DEF SettledInv, Settled
    <3>2. Match(fs, "pay", "crctmp")'
      <4>1. fs'["crctmp"] = <<want>> /\ fs'["pay"] = want
        BY <1>2, <2>1, <3>1 DEF Same, Agree, Exists
      <4> QED BY <4>1 DEF Match, Readable
    <3>3. {"pay", "crctmp"} \subseteq Exists' /\ "tmp" \notin Exists'
      BY <1>2, <2>1, <3>1
    <3> QED BY <3>2, <3>3 DEF NewPayload, Exists
  <2>9. RestInv'
    BY <1>1, <1>2, <2>1, <2>2, <2>3
       DEF RestInv, RefusedIsPrevious, CheckLeavesPairOrNothing
  <2>10. WholeInv'
    <3>1. Payload' \subseteq Whole' /\ prev' \subseteq Whole' /\ pc' # "rename" /\ pc' # "fclose"
      BY <1>1, <1>2, <2>2, <2>3 DEF Whole
    <3> QED BY <1>1, <1>2, <3>1 DEF WholeInv
  <2>11. ~Pending' /\ Goal' = {want}
    <3>1. ~Pending'
      BY <2>1, <2>3 DEF Pending, BothTmp, Exists
    <3> QED BY <2>2, <3>1 DEF Goal
  <2>12. GoalInv'
    BY <1>1, <1>2, <2>2, <2>3, <2>11 DEF GoalInv, PreviousOrNew
  <2>13. PastInv'
    <3>0. /\ Now.fs = fs /\ Now.dirty = dirty /\ Now.window = (pc \in Windows)
          /\ PayloadIn(fs) = prev
      BY <1>2 DEF Now, Payload
    <3>1. ASSUME NEW v \in past' PROVE Sound(v)'
      <4>1. v = Now /\ Sound(Now)
        BY <2>1, <3>1, NowSound
      <4>2. SoundShape(v)'
        BY <4>1 DEF Sound, SoundShape
      <4>3. SoundContents(v)'
        BY <1>1, <4>1 DEF Sound, SoundContents, Whole
      <4>4. SoundPlain(v)'
        BY <1>1, <1>2, <3>0, <4>1 DEF Sound, SoundPlain
      <4>5. SoundCrc(v)'
        <5>1. SUFFICES ASSUME with_crc, ~excused, ~v.window PROVE Recovers(v)'
          BY <2>3 DEF SoundCrc
        <5>2. Recovers(v) /\ BothTmp(fs) /\ Outcome(fs) = {want}
          BY <1>2, <4>1, <5>1 DEF Sound, SoundCrc, BothTmp, Outcome, Exists
        <5> QED BY <1>1, <2>11, <3>0, <4>1, <5>2 DEF Recovers
      <4> QED BY <4>2, <4>3, <4>4, <4>5 DEF Sound
    <3>2. RenamedOnce'
      <4>1. SUFFICES ASSUME with_crc, NEW v \in past'
                     PROVE  /\ ~v.window /\ v.dirty = {} /\ BothTmp(v.fs)
                            /\ v.fs["tmp"] = want' /\ PayloadIn(v.fs) = before'
                            /\ v.fs["crctmp"] = fs'["crctmp"]
        BY <2>3 DEF RenamedOnce
      <4>2. v.fs = fs /\ v.dirty = {} /\ ~v.window
        BY <1>1, <1>2, <2>1, <3>0, <4>1 DEF Windows
      <4> QED BY <1>1, <1>2, <2>1, <3>0, <4>1, <4>2 DEF BothTmp, Exists, Same, Agree
    <3> QED BY <3>1, <3>2 DEF PastInv
  <2> QED BY <2>4, <2>5, <2>6, <2>7, <2>8, <2>9, <2>10, <2>12, <2>13 DEF IInv
<1>4. CASE UNCHANGED <<fs, dirty, past, done>> /\ ret' = -1 /\ Fail(with_crc)
  <2>1. CASE with_crc
    BY <1>1, <1>4, <2>1, CrcStepFails DEF Fail
  <2>2. CASE ~with_crc
    <3>1. pc' = "drop" /\ drops' = <<"tmp">> /\ (excused' <=> excused)
      BY <1>4, <2>2 DEF Fail
    <3>2. /\ Exists' = Exists /\ Same("pay") /\ Same("crc") /\ dirty' = {}
          /\ want \in Seq(Chunks) /\ buf \in Seq(Chunks) /\ fs["tmp"] \in Seq(Chunks)
      BY <1>2, <1>4, NoFileTouched DEF Exists, IInv, TypeInv
    <3>3. TypeInv' /\ DirtyInv' /\ PlainInv' /\ CrcTmpInv'
      BY <1>1, <1>2, <1>4, <2>2, <3>1, <3>2, OnlyTmpWritten DEF Pcs
    <3>4. /\ SessionInv' /\ WholeInv' /\ PairInv' /\ SettledInv' /\ MoveInv' /\ DropInv'
          /\ RestInv' /\ GoalInv' /\ PastInv'
      <4>1. past' \subseteq past \cup {Now}
        BY <1>4
      <4> QED BY <1>1, <1>2, <1>4, <2>2, <3>1, <3>2, <4>1, SessionFails DEF BeforeRename
    <3> QED BY <3>3, <3>4 DEF IInv
  <2> QED BY <2>1, <2>2
<1> QED BY <1>3, <1>4 DEF CommitRename, fileVars

\* The CRC of the new payload replaces the old one: the commit is complete.
LEMMA CommitRenameCrcKeeps ==
  ASSUME IInv, CommitRenameCrc, UNCHANGED with_crc
  PROVE  IInv'
<1>1. pc = "rencrc" /\ UNCHANGED <<buf, last, want, sealed, prev, before, made>>
  BY DEF CommitRenameCrc
<1>2. /\ with_crc /\ "tmp" \notin Exists /\ "pay" \in Exists /\ fs["pay"] = want /\ sealed
      /\ dirty = {} /\ ret = 0 /\ last = "commit" /\ ~done
      /\ "crctmp" \in Exists /\ Readable(fs, "crctmp")
      /\ before = prev /\ made = {want}
  BY <1>1 DEF IInv, SessionInv, DirtyInv, PlainInv, WholeInv
<1>3. CASE /\ Rename("crctmp", "crc") /\ pc' = "idle" /\ done' = TRUE
           /\ excused' = ~Match(fs, "pay", "crctmp") /\ ret' = ret
  <2>1. /\ Exists' = (Exists \ {"crctmp"}) \cup {"crc"} /\ fs'["crc"] = fs["crctmp"]
        /\ dirty' = {} /\ fs'["pay"] = want /\ past' = past \cup {Now}
    <3>1. /\ DOMAIN fs' = (DOMAIN fs \ {"crctmp"}) \cup {"crc"}
          /\ fs'["crc"] = fs["crctmp"]
          /\ \A q \in DOMAIN fs : q # "crctmp" /\ q # "crc" => fs'[q] = fs[q]
          /\ "crctmp" \notin dirty => dirty' = dirty \ {"crctmp", "crc"}
          /\ past' = past \cup {Now}
      BY <1>2, <1>3, RenameEffect DEF Exists
    <3> QED BY <1>2, <3>1 DEF Exists
  <2>2. Payload' = {want} /\ "pay" \in Exists' /\ "crc" \in Exists'
    BY <1>2, <2>1 DEF Payload, PayloadIn, Exists
  <2>3. ~excused' => Match(fs, "pay", "crc")'
    BY <1>2, <1>3, <2>1 DEF Match, Readable
  <2>4. TypeInv'
    BY <1>1, <1>2, <1>3, <2>1 DEF IInv, TypeInv, Pcs, Path, Readable
  <2>5. DirtyInv' /\ PlainInv' /\ CrcTmpInv'
    BY <1>1, <1>2, <1>3, <2>1 DEF IInv, DirtyInv, PlainInv, CrcTmpInv, BothTmp, Exists
  <2>6. SessionInv' /\ SettledInv' /\ MoveInv' /\ DropInv'
    BY <1>3 DEF SessionInv, SettledInv, MoveInv, DropInv, BeforeRename
  <2>7. PairInv'
    BY <2>2, <2>3 DEF PairInv, Paired, Exists
  <2>8. RestInv'
    BY <1>1, <1>2, <1>3 DEF RestInv, RefusedIsPrevious, CheckLeavesPairOrNothing
  <2>9. WholeInv'
    <3>1. Payload' \subseteq Whole' /\ prev' \subseteq Whole'
      BY <1>1, <1>2, <2>2 DEF Whole
    <3> QED BY <1>3, <3>1 DEF WholeInv
  <2>10. ~Pending' /\ Goal' = {want}
    <3>1. ~Pending'
      BY <1>3, <2>1 DEF Pending, BothTmp, Exists
    <3> QED BY <2>2, <3>1 DEF Goal
  <2>11. GoalInv'
    BY <1>1, <1>2, <2>10 DEF GoalInv
  <2>12. PastInv'
    <3>1. ASSUME NEW v \in past' PROVE Sound(v)'
      <4>1. Sound(v)
        <5>1. CASE v \in past
          BY <5>1 DEF IInv, PastInv
        <5>2. CASE v = Now
          BY <5>2, NowSound
        <5> QED BY <2>1, <3>1, <5>1, <5>2
      <4>2. SoundShape(v)'
        BY <4>1 DEF Sound, SoundShape
      <4>3. SoundContents(v)'
        BY <1>1, <4>1 DEF Sound, SoundContents, Whole
      <4>4. SoundPlain(v)'
        BY <1>2 DEF SoundPlain
      <4>5. SoundCrc(v)'
        <5>1. SUFFICES ASSUME Match(fs, "pay", "crctmp") PROVE Recovers(v)'
          BY <1>3 DEF SoundCrc
        <5>2. fs["crctmp"] = <<want>>
          BY <1>2, <5>1 DEF Match
        <5>3. CASE v \in past
          <6>1. /\ v.dirty = {} /\ BothTmp(v.fs) /\ v.fs["tmp"] = want
                /\ PayloadIn(v.fs) = before /\ v.fs["crctmp"] = <<want>>
            BY <1>1, <5>2, <5>3 DEF IInv, PastInv, RenamedOnce
          <6>2. Match(v.fs, "tmp", "crctmp")
            BY <6>1 DEF Match, Readable
          <6>3. Settled(v.fs) /\ Outcome(v.fs) = {want}
            BY <6>1, <6>2 DEF Settled, NewPair, Outcome
          <6> QED BY <1>1, <2>10, <6>1, <6>3 DEF Recovers
        <5>4. CASE v = Now
          <6>1. v.fs = fs /\ v.dirty = {}
            BY <1>2, <5>4 DEF Now
          <6>2. NewPayload(fs) /\ ~BothTmp(fs) /\ PayloadIn(fs) = {want}
            BY <1>2, <5>1 DEF NewPayload, BothTmp, PayloadIn, Exists
          <6> QED BY <2>10, <6>1, <6>2 DEF Recovers, Settled, Outcome
        <5> QED BY <2>1, <3>1, <5>3, <5>4
      <4> QED BY <4>2, <4>3, <4>4, <4>5 DEF Sound
    <3>2. RenamedOnce'
      BY <1>3 DEF RenamedOnce
    <3> QED BY <3>1, <3>2 DEF PastInv
  <2> QED BY <2>4, <2>5, <2>6, <2>7, <2>8, <2>9, <2>11, <2>12 DEF IInv
<1>4. CASE UNCHANGED <<fs, dirty, past, done>> /\ ret' = -1 /\ Fail(TRUE)
  <2>1. pc' = "drop" /\ drops' = <<"tmp", "crc", "crctmp">> /\ excused'
    BY <1>4 DEF Fail
  <2>2. Exists' = Exists /\ Payload' = Payload /\ dirty' = {}
    BY <1>2, <1>4, NoFileTouched, PayloadKept DEF Exists
  <2>3. TypeInv' /\ DirtyInv' /\ PlainInv' /\ CrcTmpInv'
    BY <1>1, <1>2, <1>4, <2>1, <2>2
       DEF IInv, TypeInv, DirtyInv, PlainInv, CrcTmpInv, Pcs, BothTmp, Exists, Readable
  <2>4. SessionInv' /\ PairInv' /\ SettledInv' /\ MoveInv'
    BY <2>1 DEF SessionInv, PairInv, SettledInv, MoveInv, BeforeRename
  <2>5. DropInv'
    BY <1>1, <1>2, <1>4, <2>1 DEF DropInv, SessionDrops
  <2>6. RestInv'
    BY <2>1 DEF RestInv, RefusedIsPrevious, CheckLeavesPairOrNothing
  <2>7. WholeInv'
    BY <1>1, <2>1, <2>2 DEF IInv, WholeInv, Whole
  <2>8. GoalInv'
    BY <1>2, <2>1 DEF GoalInv
  <2>9. PastInv'
    BY <1>1, <1>2, <1>4, <2>1, PastKept
  <2> QED BY <2>3, <2>4, <2>5, <2>6, <2>7, <2>8, <2>9 DEF IInv
<1> QED BY <1>3, <1>4 DEF CommitRenameCrc, fileVars

-----------------------------------------------------------------------------
(* The unlinks.                                                            *)

\* What one of them does whatever the call it ends.
LEMMA UnlinkKeeps ==
  ASSUME IInv, NEW f, Unlink(f), pc = "drop", pc' \in {"idle", "drop"},
         UNCHANGED <<with_crc, buf, ret, last, want, sealed, done, prev, before, made>>,
         excused' <=> excused,
         pc' = "idle" => "tmp" \notin Exists' /\ "crctmp" \notin Exists'
  PROVE  /\ Exists' = Exists \ {f}
         /\ \A q \in Path : q # f => Same(q)
         /\ dirty' = dirty \ {f}
         /\ TypeInv' /\ DirtyInv' /\ PlainInv' /\ CrcTmpInv' /\ SessionInv' /\ MoveInv'
         /\ Payload' \subseteq Payload /\ WholeInv'
         /\ (~excused \/ ~with_crc => Payload' = Payload) => GoalInv' /\ PastInv'
<1>1. /\ Exists' = Exists \ {f}
      /\ \A q \in Exists : q # f => fs'[q] = fs[q]
      /\ dirty' = dirty \ {f} /\ past' \subseteq past \cup {Now}
  BY UnlinkEffect DEF Exists
<1>2. \A q \in Path : q # f => Same(q)
  BY <1>1 DEF Same, Agree, Exists
<1>3. TypeInv'
  BY <1>1 DEF IInv, TypeInv, Pcs, Readable
<1>4. DirtyInv'
  BY <1>1 DEF IInv, DirtyInv
<1>5. PlainInv'
  BY <1>1 DEF IInv, PlainInv
<1>6. CrcTmpInv'
  BY <1>1 DEF IInv, CrcTmpInv, BothTmp, Exists, Whole
<1>7. SessionInv' /\ MoveInv'
  BY DEF SessionInv, MoveInv, BeforeRename
<1>8. Payload' \subseteq Payload
  BY <1>1 DEF Payload, PayloadIn, Exists
<1>9. WholeInv'
  BY <1>8 DEF IInv, WholeInv, Whole
<1>10. ~excused => ~Pending /\ ~Pending' /\ Goal = Payload /\ Goal' = Payload'
  <2>1. ~excused => ~BothTmp(fs) /\ ~BothTmp(fs)'
    BY <1>1 DEF IInv, DropInv, BothTmp, Exists
  <2> QED BY <2>1 DEF Pending, Goal
<1>11. ASSUME ~excused \/ ~with_crc => Payload' = Payload
       PROVE  GoalInv' /\ PastInv'
  <2>1. GoalInv'
    BY <1>10, <1>11 DEF IInv, GoalInv, PreviousOrNew
  <2> QED BY <1>1, <1>10, <1>11, <2>1, PastKept
<1> QED BY <1>1, <1>2, <1>3, <1>4, <1>5, <1>6, <1>7, <1>8, <1>9, <1>11

\* The end of a rollback or of a failed commit.
LEMMA SessionDropKeeps ==
  ASSUME IInv, Drop, UNCHANGED with_crc, last \in {"commit", "rollback"}
  PROVE  IInv'
<1>1. /\ pc = "drop" /\ Unlink(Head(drops)) /\ drops' = Tail(drops)
      /\ UNCHANGED <<buf, ret, last, want, sealed, done, prev, before, made>>
      /\ (excused' <=> excused)
      /\ pc' = IF Len(drops) = 1 THEN "idle" ELSE "drop"
  BY DEF Drop, history
<1>2. SessionDrops /\ (last = "commit" => ret = -1)
  BY <1>1 DEF IInv, DropInv
<1>3. CASE drops = <<"tmp">>
  <2>1. Head(drops) = "tmp" /\ pc' = "idle"
    BY <1>1, <1>3
  <2>2. /\ Exists' = Exists \ {"tmp"} /\ "crctmp" \notin Exists
        /\ Same("pay") /\ Same("crc") /\ Payload' = Payload
        /\ TypeInv' /\ DirtyInv' /\ PlainInv' /\ CrcTmpInv' /\ SessionInv' /\ MoveInv'
        /\ WholeInv' /\ GoalInv' /\ PastInv'
    <3>1. Unlink("tmp") /\ "crctmp" \notin Exists
      BY <1>1, <1>2, <1>3, <2>1 DEF SessionDrops
    <3>2. Exists' = Exists \ {"tmp"}
      BY <3>1, UnlinkEffect DEF Exists
    <3>3. Same("pay") /\ Same("crc")
      BY <1>1, <2>1, <3>1, <3>2, UnlinkKeeps DEF Path
    <3>4. Payload' = Payload
      BY <3>3, PayloadKept
    <3> QED BY <1>1, <2>1, <3>1, <3>2, <3>3, <3>4, UnlinkKeeps
  <2>4. PairInv'
    <3>1. with_crc /\ ~excused => Settled(fs)
      BY <1>1 DEF IInv, SettledInv
    <3>2. Settled(fs) => Paired(fs)
      BY <2>2 DEF Settled, OldPair, NewPair, BothTmp, NewPayload, Exists
    <3> QED BY <1>1, <2>2, <3>1, <3>2, PairedAgrees DEF PairInv, Same
  <2>5. SettledInv' /\ DropInv'
    BY <2>1 DEF SettledInv, DropInv
  <2>6. RestInv'
    <3>1. last # "check" /\ ~done /\ (~excused => Payload = prev)
      BY <1>2 DEF SessionDrops
    <3> QED BY <1>1, <2>2, <3>1 DEF RestInv, RefusedIsPrevious, CheckLeavesPairOrNothing
  <2> QED BY <2>2, <2>4, <2>5, <2>6 DEF IInv
<1>4. CASE drops \in {<<"tmp", "crc", "crctmp">>, <<"crc", "crctmp">>, <<"crctmp">>}
  <2>1. excused /\ excused' /\ with_crc /\ ~done
    BY <1>1, <1>2, <1>4 DEF SessionDrops, IInv, PlainInv
  <2>2. /\ Head(drops) \in {"tmp", "crc", "crctmp"} /\ pc' \in {"idle", "drop"}
        /\ pc' = "idle" => Head(drops) = "crctmp" /\ "tmp" \notin Exists
        /\ pc' = "drop" => \/ drops' = <<"crc", "crctmp">> /\ Head(drops) = "tmp"
                           \/ drops' = <<"crctmp">> /\ "tmp" \notin Exists
    <3>1. CASE drops = <<"tmp", "crc", "crctmp">>
      BY <1>1, <3>1
    <3>2. CASE drops = <<"crc", "crctmp">>
      BY <1>1, <1>2, <3>2 DEF SessionDrops
    <3>3. CASE drops = <<"crctmp">>
      BY <1>1, <1>2, <3>3 DEF SessionDrops
    <3> QED BY <1>4, <3>1, <3>2, <3>3
  <2>3. /\ Exists' = Exists \ {Head(drops)}
        /\ TypeInv' /\ DirtyInv' /\ PlainInv' /\ CrcTmpInv' /\ SessionInv' /\ MoveInv'
        /\ WholeInv' /\ GoalInv' /\ PastInv'
    <3>1. Exists' = Exists \ {Head(drops)}
      BY <1>1, UnlinkEffect DEF Exists
    <3>2. pc' = "idle" => "tmp" \notin Exists' /\ "crctmp" \notin Exists'
      BY <2>2, <3>1
    <3> QED BY <1>1, <2>1, <2>2, <3>1, <3>2, UnlinkKeeps
  <2>4. PairInv' /\ SettledInv'
    BY <2>1 DEF PairInv, SettledInv
  <2>5. DropInv'
    BY <1>1, <1>2, <2>1, <2>2, <2>3 DEF DropInv, SessionDrops
  <2>6. RestInv'
    BY <1>1, <1>2, <2>1 DEF RestInv, RefusedIsPrevious, CheckLeavesPairOrNothing
  <2> QED BY <2>3, <2>4, <2>5, <2>6 DEF IInv
<1> QED BY <1>2, <1>3, <1>4 DEF SessionDrops

\* From a settled disk without a complete new pair, payload.tmp may go; without a
\* payload there is nothing but payload.tmp.
LEMMA SettledWithoutTmp ==
  ASSUME Settled(fs), ~BothTmp(fs)
  PROVE  /\ Exists' = Exists \ {"tmp"} /\ Same("pay") /\ Same("crc") /\ Same("crctmp")
              => Settled(fs)'
         /\ "pay" \notin Exists => "crc" \notin Exists /\ "crctmp" \notin Exists
<1>1. OldPair(fs) \/ NewPayload(fs)
  BY DEF Settled, NewPair
<1>2. "pay" \notin Exists => "crc" \notin Exists /\ "crctmp" \notin Exists
  BY <1>1 DEF OldPair, NewPayload, Paired, Exists
<1>3. ASSUME Exists' = Exists \ {"tmp"}, Same("pay"), Same("crc"), Same("crctmp")
      PROVE  Settled(fs)'
  <2>1. CASE OldPair(fs)
    BY <1>3, <2>1, PairedAgrees DEF Settled, OldPair, Same, Agree
  <2>2. CASE NewPayload(fs)
    <3>1. Match(fs', "pay", "crctmp")
      BY <1>3, <2>2, MatchAgrees DEF NewPayload, Same
    <3>2. NewPayload(fs)'
      BY <1>3, <2>2, <3>1 DEF NewPayload, Same, Agree, Exists
    <3> QED BY <3>2 DEF Settled
  <2> QED BY <1>1, <2>1, <2>2
<1> QED BY <1>2, <1>3

\* The end of a check that succeeded.
LEMMA CheckDropKeepsPair ==
  ASSUME IInv, Drop, UNCHANGED with_crc, last \in {"check", "misread"}, ret = 0
  PROVE  IInv'
<1>1. /\ pc = "drop" /\ Unlink(Head(drops)) /\ drops' = Tail(drops)
      /\ UNCHANGED <<buf, ret, last, want, sealed, done, prev, before, made>>
      /\ (excused' <=> excused)
      /\ pc' = IF Len(drops) = 1 THEN "idle" ELSE "drop"
  BY DEF Drop, history
<1>2. /\ with_crc /\ dirty = {} /\ (last = "check" => PairThere)
      /\ last = "misread" => excused
      /\ drops \in {<<"tmp", "crctmp">>, <<"crctmp">>}
      /\ drops = <<"crctmp">> => "tmp" \notin Exists
      /\ ~excused => ~BothTmp(fs) /\ Settled(fs)
  BY <1>1 DEF IInv, DropInv, CheckDrops, SettledInv
<1>3. \/ drops = <<"tmp", "crctmp">> /\ Head(drops) = "tmp" /\ pc' = "drop" /\ drops' = <<"crctmp">>
      \/ drops = <<"crctmp">> /\ Head(drops) = "crctmp" /\ pc' = "idle" /\ "tmp" \notin Exists
  <2>1. CASE drops = <<"tmp", "crctmp">>
    BY <1>1, <2>1
  <2>2. CASE drops = <<"crctmp">>
    BY <1>1, <1>2, <2>2
  <2> QED BY <1>2, <2>1, <2>2
<1>4. /\ Exists' = Exists \ {Head(drops)}
      /\ Same("pay") /\ Same("crc") /\ (Head(drops) = "tmp" => Same("crctmp"))
      /\ dirty' = dirty \ {Head(drops)} /\ Payload' = Payload
      /\ TypeInv' /\ DirtyInv' /\ PlainInv' /\ CrcTmpInv' /\ SessionInv' /\ MoveInv'
      /\ WholeInv' /\ GoalInv' /\ PastInv'
  <2>1. Exists' = Exists \ {Head(drops)}
    BY <1>1, UnlinkEffect DEF Exists
  <2>2. pc' \in {"idle", "drop"} /\ (pc' = "idle" => "tmp" \notin Exists' /\ "crctmp" \notin Exists')
    BY <1>3, <2>1
  <2>3. \A q \in Path : q # Head(drops) => Same(q)
    BY <1>1, <2>2, UnlinkKeeps
  <2>4. Same("pay") /\ Same("crc") /\ (Head(drops) = "tmp" => Same("crctmp"))
    BY <1>3, <2>3 DEF Path
  <2>5. Payload' = Payload
    BY <2>4, PayloadKept
  <2> QED BY <1>1, <2>1, <2>2, <2>4, <2>5, UnlinkKeeps
<1>6. last = "check" => PairThere'
  BY <1>2, <1>4, MatchAgrees DEF PairThere, Same, Agree, Exists
<1>7. PairInv'
  BY <1>1, <1>2, <1>6 DEF PairInv, Paired, PairThere, Exists
<1>8. SettledInv'
  <2>1. SUFFICES ASSUME ~excused, pc' = "drop" PROVE Settled(fs)'
    BY <1>1, <1>3 DEF SettledInv
  <2>2. Head(drops) = "tmp"
    BY <1>3, <2>1
  <2> QED BY <1>2, <1>4, <2>1, <2>2, SettledWithoutTmp
<1>9. DropInv'
  <2>1. SUFFICES ASSUME pc' = "drop" PROVE CheckDrops' /\ ~BothTmp(fs)'
    BY <1>1, <1>2 DEF DropInv
  <2>2. Head(drops) = "tmp" /\ drops' = <<"crctmp">>
    BY <1>3, <2>1
  <2>3. "tmp" \notin Exists' /\ dirty' = {} /\ ret' = 0 /\ last' = last
    BY <1>1, <1>2, <1>4, <2>2
  <2>4. CheckDrops'
    BY <1>6, <2>2, <2>3 DEF CheckDrops
  <2> QED BY <2>3, <2>4 DEF BothTmp, Exists
<1>10. RestInv'
  <2>1. pc' = "idle" /\ last = "check" => Exists' = {"pay", "crc"}
    BY <1>3, <1>4, <1>6 DEF IInv, TypeInv, PairThere, Path
  <2> QED BY <1>1, <1>2, <1>6, <2>1
          DEF RestInv, CheckLeavesPairOrNothing, PairThere, RefusedIsPrevious
<1> QED BY <1>4, <1>7, <1>8, <1>9, <1>10 DEF IInv

\* The end of a check that failed.
LEMMA CheckDropErases ==
  ASSUME IInv, Drop, UNCHANGED with_crc, last \in {"check", "misread"}, ret = -1
  PROVE  IInv'
<1>1. /\ pc = "drop" /\ Unlink(Head(drops)) /\ drops' = Tail(drops)
      /\ UNCHANGED <<buf, ret, last, want, sealed, done, prev, before, made>>
      /\ (excused' <=> excused)
      /\ pc' = IF Len(drops) = 1 THEN "idle" ELSE "drop"
  BY DEF Drop, history
<1>2. /\ with_crc /\ dirty = {}
      /\ last = "misread" => excused
      /\ \/ drops = <<"tmp", "crctmp", "pay", "crc">>
         \/ drops = <<"crctmp", "pay", "crc">> /\ "tmp" \notin Exists
         \/ drops = <<"pay", "crc">> /\ Exists \subseteq {"pay", "crc"}
         \/ drops = <<"crc">> /\ Exists \subseteq {"crc"}
      /\ ~excused => "pay" \notin Exists /\ ~BothTmp(fs) /\ Settled(fs)
  BY <1>1 DEF IInv, DropInv, CheckDrops, SettledInv
<1>3. Exists' = Exists \ {Head(drops)} /\ (\A q \in Exists : q # Head(drops) => fs'[q] = fs[q])
  BY <1>1, UnlinkEffect DEF Exists
<1>4. \/ pc' = "idle" /\ Exists' = {}
      \/ pc' = "drop" /\ drops' = <<"crctmp", "pay", "crc">> /\ "tmp" \notin Exists'
      \/ pc' = "drop" /\ drops' = <<"pay", "crc">> /\ Exists' \subseteq {"pay", "crc"}
      \/ pc' = "drop" /\ drops' = <<"crc">> /\ Exists' \subseteq {"crc"}
  <2>1. CASE drops = <<"tmp", "crctmp", "pay", "crc">>
    BY <1>1, <1>3, <2>1
  <2>2. CASE drops = <<"crctmp", "pay", "crc">> /\ "tmp" \notin Exists
    <3>1. Exists \subseteq Path
      BY DEF IInv, TypeInv
    <3>2. Head(drops) = "crctmp" /\ pc' = "drop" /\ drops' = <<"pay", "crc">>
      BY <1>1, <2>2
    <3> QED BY <1>3, <2>2, <3>1, <3>2 DEF Path
  <2>3. CASE drops = <<"pay", "crc">> /\ Exists \subseteq {"pay", "crc"}
    <3>1. Head(drops) = "pay" /\ pc' = "drop" /\ drops' = <<"crc">>
      BY <1>1, <2>3
    <3> QED BY <1>3, <2>3, <3>1
  <2>4. CASE drops = <<"crc">> /\ Exists \subseteq {"crc"}
    <3>1. Head(drops) = "crc" /\ pc' = "idle"
      BY <1>1, <2>4
    <3> QED BY <1>3, <2>4, <3>1
  <2> QED BY <1>2, <2>1, <2>2, <2>3, <2>4
<1>5. /\ dirty' = dirty \ {Head(drops)}
      /\ TypeInv' /\ DirtyInv' /\ PlainInv' /\ CrcTmpInv' /\ SessionInv' /\ MoveInv'
      /\ WholeInv' /\ GoalInv' /\ PastInv'
  <2>1. pc' \in {"idle", "drop"} /\ (pc' = "idle" => "tmp" \notin Exists' /\ "crctmp" \notin Exists')
    BY <1>4
  <2>2. ~excused => Payload' = Payload
    BY <1>2, <1>3 DEF Payload, PayloadIn, Exists
  <2> QED BY <1>1, <1>2, <2>1, <2>2, UnlinkKeeps
<1>7. ASSUME ~excused
      PROVE  "pay" \notin Exists' /\ "crc" \notin Exists' /\ "crctmp" \notin Exists'
  BY <1>2, <1>3, <1>7, SettledWithoutTmp
<1>8. PairInv' /\ SettledInv'
  BY <1>1, <1>7 DEF PairInv, SettledInv, Settled, OldPair, Paired, Exists
<1>9. DropInv'
  <2>1. SUFFICES ASSUME pc' = "drop" PROVE CheckDrops' /\ (~excused => ~BothTmp(fs)')
    BY <1>1, <1>2 DEF DropInv
  <2>2. ~excused => ~BothTmp(fs)'
    BY <1>7 DEF BothTmp, Exists
  <2> QED BY <1>1, <1>2, <1>4, <1>5, <1>7, <2>1, <2>2 DEF CheckDrops
<1>10. RestInv'
  BY <1>1, <1>2, <1>4 DEF RestInv, RefusedIsPrevious, CheckLeavesPairOrNothing
<1> QED BY <1>5, <1>8, <1>9, <1>10 DEF IInv

LEMMA DropKeeps ==
  ASSUME IInv, Drop, UNCHANGED with_crc
  PROVE  IInv'
<1>1. \/ last \in {"commit", "rollback"}
      \/ last \in {"check", "misread"} /\ (ret = 0 \/ ret = -1)
  BY DEF IInv, TypeInv, DropInv, Drop
<1> QED BY <1>1, SessionDropKeeps, CheckDropKeepsPair, CheckDropErases

-----------------------------------------------------------------------------
(* futils_safew_file_check.                                                *)

\* What was read of a file of chunks, or of a file of CRCs.
LEMMA ReadWhole ==
  ASSUME NEW s, NEW n \in Nat, EndOfRead(n, s), s \in Seq(Chunks) \/ AtMostOne(s)
  PROVE  /\ n = Len(s) => SubSeq(s, 1, n) = s
         /\ AtMostOne(s) /\ SubSeq(s, 1, n) # <<>> => s # <<>>
<1>1. CASE s \in Seq(Chunks) /\ ~AtMostOne(s)
  BY <1>1, SubSeqFull
<1>2. CASE AtMostOne(s)
  <2>1. n <= Len(s)
    BY DEF EndOfRead
  <2> QED BY <1>2, <2>1, CutCrc
<1> QED BY <1>1, <1>2

\* It looks at the files and decides what to rename.
LEMMA CheckKeeps ==
  ASSUME IInv, Check, UNCHANGED with_crc
  PROVE  IInv'
<1>1. /\ with_crc /\ pc \in {"idle", "down"} /\ pc' = "move"
      /\ UNCHANGED <<fs, dirty, past, buf, want, sealed, done, prev, before, made>>
  BY DEF Check, fileVars, history
<1>0. PICK seen \in Opened : \E n \in [seen -> 0 .. MaxWrites + 1] :
        LET v == Recovery([p \in seen |-> SubSeq(fs[p], 1, n[p])])
            whole == \A p \in seen : n[p] = Len(fs[p])
        IN  /\ \A p \in seen : EndOfRead(n[p], fs[p])
            /\ ret' = v.ret
            /\ moves' = v.moves
            /\ excused' = (excused \/ seen # Exists \/ ~whole)
            /\ last' = IF whole THEN "check" ELSE "misread"
  BY DEF Check
<1>2. PICK n \in [seen -> 0 .. MaxWrites + 1] :
        LET v == Recovery([p \in seen |-> SubSeq(fs[p], 1, n[p])])
            whole == \A p \in seen : n[p] = Len(fs[p])
        IN  /\ \A p \in seen : EndOfRead(n[p], fs[p])
            /\ ret' = v.ret
            /\ moves' = v.moves
            /\ excused' = (excused \/ seen # Exists \/ ~whole)
            /\ last' = IF whole THEN "check" ELSE "misread"
  BY <1>0
<1> DEFINE f == [p \in seen |-> SubSeq(fs[p], 1, n[p])]
           whole == \A p \in seen : n[p] = Len(fs[p])
<1>3. /\ seen \subseteq Exists /\ seen \subseteq Path
      /\ \A p \in seen : n[p] \in Nat /\ EndOfRead(n[p], fs[p])
      /\ \A p \in seen : fs[p] \in Seq(Chunks) \/ AtMostOne(fs[p])
      /\ "crctmp" \in seen => AtMostOne(fs["crctmp"])
  <2>1. seen \subseteq Exists /\ seen \subseteq Path
    BY <1>0 DEF Opened, IInv, TypeInv
  <2>2. \A p \in seen : n[p] \in Nat /\ EndOfRead(n[p], fs[p])
    BY <1>2, ConstantsAssumption
  <2>3. \A p \in seen : fs[p] \in Seq(Chunks) \/ AtMostOne(fs[p])
    BY <2>1 DEF IInv, TypeInv, Path
  <2>4. "crctmp" \in seen => AtMostOne(fs["crctmp"])
    BY <2>1 DEF IInv, TypeInv
  <2> QED BY <2>1, <2>2, <2>3, <2>4
<1>4. DOMAIN f = seen /\ (\A p \in seen : f[p] = SubSeq(fs[p], 1, n[p]))
  OBVIOUS
<1>5. /\ ret' = Recovery(f).ret /\ moves' = Recovery(f).moves
      /\ excused' = (excused \/ seen # Exists \/ ~whole)
      /\ last' = IF whole THEN "check" ELSE "misread"
  BY <1>2
<1> HIDE DEF f
<1>6. /\ whole => \A p \in seen : f[p] = fs[p]
      /\ "crctmp" \in seen /\ f["crctmp"] # <<>> => fs["crctmp"] # <<>>
  <2>1. \A p \in seen : n[p] = Len(fs[p]) => SubSeq(fs[p], 1, n[p]) = fs[p]
    BY <1>3, ReadWhole
  <2>2. "crctmp" \in seen /\ SubSeq(fs["crctmp"], 1, n["crctmp"]) # <<>> => fs["crctmp"] # <<>>
    BY <1>3, ReadWhole
  <2> QED BY <1>4, <2>1, <2>2
<1> HIDE DEF whole
<1>7. Exists' = Exists /\ dirty' = {} /\ Payload' = Payload /\ ret' \in {0, -1}
  BY <1>1, <1>5, NoFileTouched, PayloadKept, RecoveryType DEF Exists, IInv, DirtyInv
<1>8. TypeInv'
  BY <1>1, <1>5, <1>7 DEF IInv, TypeInv, Pcs, Readable
<1>9. DirtyInv' /\ PlainInv' /\ CrcTmpInv'
  BY <1>1, <1>7 DEF IInv, DirtyInv, PlainInv, CrcTmpInv, BothTmp, Whole
<1>10. SessionInv' /\ PairInv' /\ DropInv'
  BY <1>1 DEF SessionInv, PairInv, DropInv, BeforeRename
<1>11. WholeInv'
  BY <1>1, <1>7 DEF IInv, WholeInv, Whole
<1>12. ASSUME ~excused'
       PROVE  /\ ~excused /\ seen = Exists /\ Settled(fs) /\ Settled(f)
              /\ BothTmp(f) <=> BothTmp(fs)
              /\ "crc" \in seen => Readable(f, "crc")
  <2>1. ~excused /\ seen = Exists /\ whole
    BY <1>5, <1>12
  <2>2. Settled(fs)
    <3>1. CASE pc = "idle"
      BY <1>1, <2>1, <3>1 DEF IInv, PairInv, CrcTmpInv, Settled, OldPair, Exists
    <3>2. CASE pc = "down"
      BY <1>1, <2>1, <3>2 DEF IInv, SettledInv
    <3> QED BY <1>1, <3>1, <3>2
  <2>3. DOMAIN f = DOMAIN fs /\ \A p \in DOMAIN fs : f[p] = fs[p]
    BY <1>4, <1>6, <2>1 DEF Exists
  <2>4. BothTmp(f) <=> BothTmp(fs)
    BY <2>3 DEF BothTmp
  <2>5. Settled(f)
    <3>1. \A p : Agree(fs, f, p)
      BY <2>3 DEF Agree
    <3>2. BothTmp(fs) => f["tmp"] = fs["tmp"]
      BY <2>3 DEF BothTmp
    <3> QED BY <2>2, <2>3, <3>1, <3>2, SettledAgrees
  <2>6. "crc" \in seen => Readable(f, "crc")
    BY <1>3, <2>3 DEF IInv, TypeInv, Readable, Exists
  <2> QED BY <2>1, <2>2, <2>4, <2>5, <2>6
<1>13. Settled(fs)' <=> Settled(fs)
  BY <1>1 DEF Settled, OldPair, NewPair, NewPayload, Paired, BothTmp, Match, Readable
<1>14. SettledInv'
  BY <1>12, <1>13 DEF SettledInv
<1>15. MoveInv'
  <2>1. last' = "check" => \A p \in seen : f[p] = fs[p]
    BY <1>5, <1>6
  <2>2. ASSUME ret' = 0 PROVE MovesMakePair'
    <3>1. CASE /\ moves' = <<>>
               /\ {"pay", "crc"} \subseteq DOMAIN f /\ Match(f, "pay", "crc")
      BY <1>1, <1>3, <1>4, <1>7, <2>1, <3>1
         DEF MovesMakePair, PairThere, Match, Readable
    <3>2. CASE /\ moves' = <<CrcTmpToCrc>>
               /\ {"pay", "crctmp"} \subseteq DOMAIN f /\ Match(f, "pay", "crctmp")
      BY <1>1, <1>3, <1>4, <1>6, <1>7, <2>1, <3>2 DEF MovesMakePair, Match, Readable
    <3>3. CASE /\ moves' = <<TmpToPay, CrcTmpToCrc>> \/ moves' = <<CrcTmpToCrc, TmpToPay>>
               /\ BothTmp(f) /\ Match(f, "tmp", "crctmp")
      BY <1>1, <1>3, <1>4, <1>6, <1>7, <2>1, <3>3
         DEF MovesMakePair, BothTmp, Match, Readable, Exists
    <3> QED BY <1>5, <2>2, <3>1, <3>2, <3>3, RecoveryMakesPair
  <2>3. ret' = -1 => moves' = <<>>
    BY <1>5, RecoveryType
  <2>4. ASSUME ~excused'
        PROVE  /\ ret' = -1 => "pay" \notin Exists'
               /\ moves' \in {<<>>, <<CrcTmpToCrc>>} => ~BothTmp(fs)'
    <3>1. /\ Recovery(f).ret = -1 => "pay" \notin DOMAIN f
          /\ BothTmp(f) => Recovery(f).moves \notin {<<>>, <<CrcTmpToCrc>>}
      BY <1>3, <1>4, <1>12, <2>4, RecoveryOfSettled
    <3>2. BothTmp(fs)' <=> BothTmp(f)
      BY <1>1, <1>12, <2>4 DEF BothTmp
    <3> QED BY <1>4, <1>5, <1>7, <1>12, <2>4, <3>1, <3>2
  <2>5. last' = "check" \/ (last' = "misread" /\ excused')
    BY <1>5
  <2>6. ~excused' => Settled(fs)'
    BY <1>12, <1>13
  <2> QED BY <1>1, <1>7, <2>2, <2>3, <2>4, <2>5, <2>6 DEF MoveInv
<1>16. RestInv'
  BY <1>1 DEF RestInv, RefusedIsPrevious, CheckLeavesPairOrNothing
<1>17. (Pending' <=> Pending) /\ Goal' = Goal
  <2>1. pc = "idle" => ~BothTmp(fs)
    BY DEF IInv, CrcTmpInv, BothTmp, Exists
  <2>2. Pending' <=> Pending
    BY <1>1, <2>1 DEF Pending, BothTmp
  <2> QED BY <1>1, <1>7, <2>2 DEF Goal
<1>18. excused => excused'
  BY <1>5
<1>19. GoalInv'
  BY <1>1, <1>7, <1>17, <1>18 DEF IInv, GoalInv
<1>20. PastInv'
  BY <1>1, <1>17, <1>18, PastKept
<1> QED BY <1>8, <1>9, <1>10, <1>11, <1>14, <1>15, <1>16, <1>19, <1>20 DEF IInv

\* The renames are done: what is left of the temporary files goes, and all of
\* it if the check failed.
LEMMA CheckDoneKeeps ==
  ASSUME IInv, CheckDone, UNCHANGED with_crc
  PROVE  IInv'
<1>1. /\ pc = "move" /\ moves = <<>> /\ pc' = "drop"
      /\ UNCHANGED <<fs, dirty, past, buf, ret, last, moves, want, sealed, done, prev,
                     before, made>>
      /\ (excused' <=> excused)
      /\ ret = 0 => drops' = <<"tmp", "crctmp">>
      /\ ret = -1 => drops' = <<"tmp", "crctmp", "pay", "crc">>
  BY DEF CheckDone, fileVars, history
<1>2. /\ with_crc /\ last \in {"check", "misread"} /\ (last = "misread" => excused)
      /\ dirty = {} /\ ret \in {0, -1}
      /\ ~excused => Settled(fs) /\ ~BothTmp(fs) /\ (ret = -1 => "pay" \notin Exists)
      /\ ret = 0 => MovesMakePair
  BY <1>1 DEF IInv, MoveInv, PlainInv, TypeInv
<1>3. Exists' = Exists /\ Payload' = Payload
  BY <1>1, NoFileTouched, PayloadKept DEF Exists
<1>4. ret = 0 /\ last = "check" => PairThere'
  <2>1. ret = 0 /\ last = "check" => PairThere
    BY <1>1, <1>2 DEF MovesMakePair
  <2> QED BY <1>1, <2>1 DEF PairThere, Exists, Match, Readable
<1>5. TypeInv' /\ DirtyInv' /\ PlainInv' /\ CrcTmpInv'
  BY <1>1, <1>2, <1>3
     DEF IInv, TypeInv, DirtyInv, PlainInv, CrcTmpInv, Pcs, BothTmp, Whole, Readable
<1>6. SessionInv' /\ PairInv' /\ MoveInv'
  BY <1>1 DEF SessionInv, PairInv, MoveInv, BeforeRename
<1>7. WholeInv'
  BY <1>1, <1>3 DEF IInv, WholeInv, Whole
<1>8. SettledInv'
  BY <1>1, <1>2
     DEF SettledInv, Settled, OldPair, NewPair, NewPayload, Paired, BothTmp, Match, Readable
<1>9. DropInv'
  <2>1. CheckDrops'
    BY <1>1, <1>2, <1>3, <1>4 DEF CheckDrops
  <2> QED BY <1>1, <1>2, <2>1 DEF DropInv, BothTmp
<1>10. RestInv'
  BY <1>1 DEF RestInv, RefusedIsPrevious, CheckLeavesPairOrNothing
<1>11. (Pending' <=> Pending) /\ Goal' = Goal
  <2>1. Pending' <=> Pending
    BY <1>1 DEF Pending, BothTmp
  <2> QED BY <1>1, <1>3, <2>1 DEF Goal
<1>12. GoalInv'
  BY <1>1, <1>3, <1>11 DEF IInv, GoalInv, PreviousOrNew
<1>13. PastInv'
  BY <1>1, <1>3, <1>11, PastKept
<1> QED BY <1>5, <1>6, <1>7, <1>8, <1>9, <1>10, <1>12, <1>13 DEF IInv

\* What a rename of the check does whatever the files: it is enough to see to
\* the payload and to the renames that are left.
LEMMA MoveKeeps ==
  ASSUME IInv, pc \in {"move", "moving"}, ret = 0,
         pc' = IF moves' = <<>> THEN "move" ELSE "moving",
         UNCHANGED <<with_crc, ret, buf, last, want, sealed, done, prev, before, made>>,
         excused' <=> excused,
         NEW from, NEW to, Rename(from, to), from \in Exists,
         \/ from = "tmp" /\ to = "pay" /\ fs["tmp"] \in Whole
         \/ from = "crctmp" /\ to = "crc" /\ Readable(fs, "crctmp"),
         MovesMakePair',
         last = "check" /\ moves' = <<>> => OldPair(fs)',
         ~excused => Goal' = Goal /\ (Pending' => Payload' = before)
  PROVE  IInv'
<1>1. /\ with_crc /\ dirty = {} /\ (last = "check" \/ (last = "misread" /\ excused))
  BY DEF IInv, MoveInv, PlainInv
<1>2. /\ Exists' = (Exists \ {from}) \cup {to} /\ fs'[to] = fs[from]
      /\ \A q \in Exists : q # from /\ q # to => fs'[q] = fs[q]
      /\ dirty' = {} /\ past' = past \cup {Now}
  BY <1>1, RenameEffect DEF Exists
<1>3. TypeInv'
  BY <1>2 DEF IInv, TypeInv, Pcs, Path, Readable
<1>4. ~BothTmp(fs)'
  BY <1>2 DEF BothTmp, Exists
<1>5. DirtyInv' /\ PlainInv' /\ CrcTmpInv'
  BY <1>1, <1>2, <1>4 DEF DirtyInv, PlainInv, CrcTmpInv
<1>6. SessionInv' /\ PairInv' /\ DropInv'
  BY DEF SessionInv, PairInv, DropInv, BeforeRename
<1>7. SettledInv'
  BY <1>1 DEF SettledInv, Settled
<1>8. MoveInv'
  BY <1>1, <1>2, <1>4 DEF MoveInv, Settled
<1>9. RestInv'
  <2>1. pc' # "idle"
    OBVIOUS
  <2> QED BY <2>1 DEF RestInv, RefusedIsPrevious, CheckLeavesPairOrNothing
<1>10. WholeInv'
  <2>1. Payload' \subseteq Whole
    BY <1>2 DEF IInv, WholeInv, Payload, PayloadIn, Exists
  <2> QED BY <2>1 DEF IInv, WholeInv, Whole
<1>11. GoalInv'
  BY <1>1 DEF IInv, GoalInv
<1>12. PastInv'
  BY <1>1, <1>2, PastKept
<1> QED BY <1>3, <1>5, <1>6, <1>7, <1>8, <1>9, <1>10, <1>11, <1>12 DEF IInv

\* One rename of the check.
LEMMA CheckMoveKeeps ==
  ASSUME IInv, CheckMove, UNCHANGED with_crc
  PROVE  IInv'
<1>1. /\ pc \in {"move", "moving"} /\ moves # <<>>
      /\ UNCHANGED <<buf, failure, last, drops, want, sealed, done, prev, before, made>>
  BY DEF CheckMove, history
<1>2. /\ with_crc /\ dirty = {} /\ ret = 0 /\ MovesMakePair
      /\ last = "check" \/ (last = "misread" /\ excused)
      /\ ~excused /\ moves = <<CrcTmpToCrc>> => ~BothTmp(fs)
  BY <1>1 DEF IInv, MoveInv, PlainInv, TypeInv
<1>3. CASE /\ UNCHANGED <<fs, dirty, past>> /\ moves' = <<>> /\ pc' = "move"
           /\ ret' = -1 /\ excused'
  <2>1. Exists' = Exists /\ Payload' = Payload
    BY <1>3, NoFileTouched, PayloadKept DEF Exists
  <2>2. TypeInv' /\ DirtyInv' /\ PlainInv' /\ CrcTmpInv'
    BY <1>1, <1>2, <1>3, <2>1
       DEF IInv, TypeInv, DirtyInv, PlainInv, CrcTmpInv, Pcs, BothTmp, Whole, Readable
  <2>3. SessionInv' /\ PairInv' /\ DropInv' /\ SettledInv'
    BY <1>3 DEF SessionInv, PairInv, DropInv, SettledInv, BeforeRename
  <2>4. MoveInv'
    BY <1>1, <1>2, <1>3 DEF MoveInv
  <2>5. RestInv'
    BY <1>3 DEF RestInv, RefusedIsPrevious, CheckLeavesPairOrNothing
  <2>6. WholeInv'
    BY <1>1, <1>3, <2>1 DEF IInv, WholeInv, Whole
  <2>7. GoalInv'
    BY <1>2, <1>3 DEF GoalInv
  <2>8. PastInv'
    BY <1>1, <1>2, <1>3, PastKept
  <2> QED BY <2>2, <2>3, <2>4, <2>5, <2>6, <2>7, <2>8 DEF IInv
<1>4. CASE /\ Rename(Head(moves)[1], Head(moves)[2]) /\ moves' = Tail(moves)
           /\ pc' = IF Tail(moves) = <<>> THEN "move" ELSE "moving"
           /\ ret' = ret /\ (excused' <=> excused)
  <2>0. /\ CrcTmpToCrc[1] = "crctmp" /\ CrcTmpToCrc[2] = "crc"
        /\ TmpToPay[1] = "tmp" /\ TmpToPay[2] = "pay"
        /\ pc' = IF moves' = <<>> THEN "move" ELSE "moving"
    BY <1>4 DEF CrcTmpToCrc, TmpToPay
  <2>1. BothTmp(fs) => Pending /\ fs["tmp"] \in Whole
    BY <1>1 DEF Pending, IInv, CrcTmpInv
  <2>2. CASE /\ moves = <<CrcTmpToCrc>>
             /\ {"pay", "crctmp"} \subseteq Exists /\ Readable(fs, "crctmp")
             /\ last = "check" => Match(fs, "pay", "crctmp")
    <3>1. Rename("crctmp", "crc") /\ moves' = <<>>
      BY <1>4, <2>0, <2>2
    <3>2. /\ Exists' = (Exists \ {"crctmp"}) \cup {"crc"} /\ fs'["crc"] = fs["crctmp"]
          /\ \A q \in Exists : q # "crctmp" /\ q # "crc" => fs'[q] = fs[q]
      <4>1. Rename("crctmp", "crc") /\ "crctmp" # "crc" /\ "crctmp" \in DOMAIN fs
        BY <2>2, <3>1 DEF Exists
      <4>2. /\ DOMAIN fs' = (DOMAIN fs \ {"crctmp"}) \cup {"crc"} /\ fs'["crc"] = fs["crctmp"]
            /\ \A q \in DOMAIN fs : q # "crctmp" /\ q # "crc" => fs'[q] = fs[q]
        BY <4>1, RenameEffect
      <4> QED BY <4>2 DEF Exists
    <3>3. (last = "check" => Match(fs, "pay", "crc")') /\ Payload' = Payload
      BY <2>2, <3>2 DEF Match, Readable, Payload, PayloadIn, Exists
    <3>4. MovesMakePair' /\ (last = "check" => OldPair(fs)')
      BY <1>1, <2>2, <3>1, <3>2, <3>3 DEF MovesMakePair, PairThere, OldPair, Paired, Exists
    <3>5. ~Pending'
      BY <3>1, <3>2 DEF Pending, BothTmp, Exists
    <3>6. ~excused => ~Pending
      BY <1>2, <2>2 DEF Pending, TmpToPay, CrcTmpToCrc
    <3>7. ~excused => Goal' = Goal
      BY <3>3, <3>5, <3>6 DEF Goal
    <3> QED BY <1>1, <1>2, <1>4, <2>0, <2>2, <3>1, <3>4, <3>5, <3>7, MoveKeeps
  <2>3. CASE /\ moves = <<TmpToPay, CrcTmpToCrc>> /\ BothTmp(fs) /\ Readable(fs, "crctmp")
             /\ last = "check" => Match(fs, "tmp", "crctmp")
    <3>1. Rename("tmp", "pay") /\ moves' = <<CrcTmpToCrc>> /\ {"tmp", "crctmp"} \subseteq Exists
      BY <1>4, <2>0, <2>3 DEF BothTmp, Exists
    <3>2. /\ Exists' = (Exists \ {"tmp"}) \cup {"pay"} /\ fs'["pay"] = fs["tmp"]
          /\ \A q \in Exists : q # "tmp" /\ q # "pay" => fs'[q] = fs[q]
      <4>1. Rename("tmp", "pay") /\ "tmp" # "pay" /\ "tmp" \in DOMAIN fs
        BY <3>1 DEF Exists
      <4>2. /\ DOMAIN fs' = (DOMAIN fs \ {"tmp"}) \cup {"pay"} /\ fs'["pay"] = fs["tmp"]
            /\ \A q \in DOMAIN fs : q # "tmp" /\ q # "pay" => fs'[q] = fs[q]
        BY <4>1, RenameEffect
      <4> QED BY <4>2 DEF Exists
    <3>3. /\ Readable(fs, "crctmp")' /\ (last = "check" => Match(fs, "pay", "crctmp")')
          /\ Payload' = {fs["tmp"]}
      BY <2>3, <3>1, <3>2 DEF Match, Readable, Payload, PayloadIn, Exists
    <3>4. MovesMakePair' /\ moves' # <<>>
      BY <1>1, <3>1, <3>2, <3>3 DEF MovesMakePair
    <3>5. ~Pending' /\ Goal' = Goal
      <4>1. ~Pending'
        BY <3>1, <3>2 DEF Pending, BothTmp, Exists, TmpToPay, CrcTmpToCrc
      <4> QED BY <2>1, <2>3, <3>3, <4>1 DEF Goal
    <3> QED BY <1>1, <1>2, <1>4, <2>0, <2>1, <2>3, <3>1, <3>4, <3>5, MoveKeeps
  <2>4. CASE /\ moves = <<CrcTmpToCrc, TmpToPay>> /\ BothTmp(fs) /\ Readable(fs, "crctmp")
             /\ last = "check" => Match(fs, "tmp", "crctmp")
    <3>1. Rename("crctmp", "crc") /\ moves' = <<TmpToPay>> /\ {"tmp", "crctmp"} \subseteq Exists
      BY <1>4, <2>0, <2>4 DEF BothTmp, Exists
    <3>2. /\ Exists' = (Exists \ {"crctmp"}) \cup {"crc"} /\ fs'["crc"] = fs["crctmp"]
          /\ \A q \in Exists : q # "crctmp" /\ q # "crc" => fs'[q] = fs[q]
      <4>1. Rename("crctmp", "crc") /\ "crctmp" # "crc" /\ "crctmp" \in DOMAIN fs
        BY <3>1 DEF Exists
      <4>2. /\ DOMAIN fs' = (DOMAIN fs \ {"crctmp"}) \cup {"crc"} /\ fs'["crc"] = fs["crctmp"]
            /\ \A q \in DOMAIN fs : q # "crctmp" /\ q # "crc" => fs'[q] = fs[q]
        BY <4>1, RenameEffect
      <4> QED BY <4>2 DEF Exists
    <3>3. /\ last = "check" => Match(fs, "tmp", "crc")'
          /\ fs'["tmp"] = fs["tmp"] /\ Payload' = Payload
      BY <2>4, <3>1, <3>2 DEF Match, Readable, Payload, PayloadIn, Exists
    <3>4. MovesMakePair' /\ moves' # <<>>
      <4>1. moves' # <<>> /\ pc' = "moving" /\ last' = last /\ Whole' = Whole
        BY <1>1, <2>0, <3>1 DEF Whole
      <4>2. {"tmp", "crc"} \subseteq Exists' /\ "crctmp" \notin Exists' /\ fs'["tmp"] \in Whole
        BY <2>1, <2>4, <3>1, <3>2, <3>3
      <4> QED BY <3>1, <3>3, <4>1, <4>2 DEF MovesMakePair
    <3>5. Pending' /\ Goal' = Goal
      <4>1. Pending'
        BY <2>0, <3>1 DEF Pending
      <4> QED BY <2>1, <2>4, <3>3, <4>1 DEF Goal
    <3>6. ~excused => Payload = before
      BY <1>2, <2>1, <2>4 DEF IInv, GoalInv
    <3> QED BY <1>1, <1>2, <1>4, <2>0, <2>4, <3>1, <3>3, <3>4, <3>5, <3>6, MoveKeeps
  <2>5. CASE /\ moves = <<TmpToPay>> /\ pc = "moving"
             /\ {"tmp", "crc"} \subseteq Exists /\ "crctmp" \notin Exists
             /\ fs["tmp"] \in Whole
             /\ last = "check" => Match(fs, "tmp", "crc")
    <3>1. Rename("tmp", "pay") /\ moves' = <<>> /\ "tmp" \in Exists
      BY <1>4, <2>0, <2>5
    <3>2. /\ Exists' = (Exists \ {"tmp"}) \cup {"pay"} /\ fs'["pay"] = fs["tmp"]
          /\ \A q \in Exists : q # "tmp" /\ q # "pay" => fs'[q] = fs[q]
      <4>1. Rename("tmp", "pay") /\ "tmp" # "pay" /\ "tmp" \in DOMAIN fs
        BY <3>1 DEF Exists
      <4>2. /\ DOMAIN fs' = (DOMAIN fs \ {"tmp"}) \cup {"pay"} /\ fs'["pay"] = fs["tmp"]
            /\ \A q \in DOMAIN fs : q # "tmp" /\ q # "pay" => fs'[q] = fs[q]
        BY <4>1, RenameEffect
      <4> QED BY <4>2 DEF Exists
    <3>3. (last = "check" => Match(fs, "pay", "crc")') /\ Payload' = {fs["tmp"]}
      BY <2>5, <3>2 DEF Match, Readable, Payload, PayloadIn, Exists
    <3>4. MovesMakePair' /\ (last = "check" => OldPair(fs)')
      BY <1>1, <2>5, <3>1, <3>2, <3>3 DEF MovesMakePair, PairThere, OldPair, Paired, Exists
    <3>5. ~Pending' /\ Goal' = Goal
      <4>1. ~Pending' /\ Pending
        BY <2>5, <3>1, <3>2 DEF Pending, BothTmp, Exists, TmpToPay
      <4> QED BY <3>3, <4>1 DEF Goal
    <3> QED BY <1>1, <1>2, <1>4, <2>0, <2>5, <3>1, <3>4, <3>5, MoveKeeps
  <2> QED BY <1>1, <1>2, <2>2, <2>3, <2>4, <2>5 DEF MovesMakePair
<1> QED BY <1>3, <1>4 DEF CheckMove, fileVars

-----------------------------------------------------------------------------
(* Crash and restart.                                                      *)

LEMMA CrashKeeps ==
  ASSUME IInv, Crash, UNCHANGED with_crc
  PROVE  IInv'
<1>1. /\ pc' = "down" /\ dirty' = {} /\ past' = {} /\ buf' = <<>> /\ last' = "none"
      /\ UNCHANGED <<ret, want, sealed, done, prev, before, made>>
  BY DEF Crash, history
<1>2. PICK v \in past \cup {Now} :
        /\ \E left \in [v.dirty -> 0 .. MaxWrites + 1] :
             /\ \A p \in v.dirty : left[p] <= Len(v.fs[p])
             /\ fs' = [p \in DOMAIN v.fs |->
                         IF p \in v.dirty THEN SubSeq(v.fs[p], 1, left[p]) ELSE v.fs[p]]
        /\ excused' = (excused \/ v.window)
  BY DEF Crash
<1>3. Sound(v)
  <2>1. CASE v \in past
    BY <2>1 DEF IInv, PastInv
  <2>2. CASE v = Now
    BY <2>2, NowSound
  <2> QED BY <1>2, <2>1, <2>2
<1>4. /\ DOMAIN fs' = DOMAIN v.fs
      /\ \A q \in DOMAIN fs' : q \notin v.dirty => fs'[q] = v.fs[q]
      /\ "tmp" \in DOMAIN fs' => fs'["tmp"] \in Seq(Chunks)
      /\ "crctmp" \in DOMAIN fs' => AtMostOne(fs'["crctmp"])
  <2>1. PICK left \in [v.dirty -> 0 .. MaxWrites + 1] :
             /\ \A p \in v.dirty : left[p] <= Len(v.fs[p])
             /\ fs' = [p \in DOMAIN v.fs |->
                         IF p \in v.dirty THEN SubSeq(v.fs[p], 1, left[p]) ELSE v.fs[p]]
    BY <1>2
  <2>2. SoundShape(v)
    BY <1>3 DEF Sound
  <2> QED BY <2>1, <2>2, CutEffect
<1>5. /\ Agree(v.fs, fs', "pay") /\ Agree(v.fs, fs', "crc")
      /\ v.dirty \subseteq {"tmp", "crctmp"}
      /\ PayloadIn(fs') = PayloadIn(v.fs)
  <2>1. v.dirty \subseteq {"tmp", "crctmp"}
    BY <1>3 DEF Sound, SoundShape
  <2>2. Agree(v.fs, fs', "pay") /\ Agree(v.fs, fs', "crc")
    BY <1>4, <2>1 DEF Agree
  <2> QED BY <2>1, <2>2, PayloadAgrees
<1>6. BothTmp(fs') <=> BothTmp(v.fs)
  BY <1>4 DEF BothTmp
<1>7. TypeInv'
  BY <1>1, <1>3, <1>4, <1>5
     DEF IInv, TypeInv, Pcs, Exists, Sound, SoundShape, Agree, Readable
<1>8. DirtyInv' /\ SessionInv' /\ PairInv' /\ MoveInv' /\ DropInv' /\ RestInv'
  BY <1>1 DEF DirtyInv, SessionInv, PairInv, MoveInv, DropInv, RestInv, BeforeRename,
              RefusedIsPrevious, CheckLeavesPairOrNothing
<1>9. PlainInv'
  BY <1>1, <1>2, <1>3, <1>4 DEF IInv, PlainInv, Sound, SoundPlain, Exists
<1>10. CrcTmpInv' /\ WholeInv'
  <2>1. BothTmp(fs') => fs'["tmp"] \in Whole
    BY <1>3, <1>4, <1>6 DEF Sound, SoundContents, BothTmp
  <2>2. Payload' \subseteq Whole
    BY <1>3, <1>5 DEF Sound, SoundContents, Payload
  <2> QED BY <1>1, <2>1, <2>2 DEF IInv, CrcTmpInv, WholeInv, Whole
<1>11. ASSUME with_crc, ~excused'
       PROVE  /\ Settled(fs') /\ Goal' = Goal /\ ~excused
              /\ Pending' => Payload' = before
  <2>1. ~excused /\ ~v.window /\ Recovers(v)
    BY <1>2, <1>3, <1>11 DEF Sound, SoundCrc
  <2>2. Agree(v.fs, fs', "crctmp") /\ (BothTmp(v.fs) => fs'["tmp"] = v.fs["tmp"])
    BY <1>3, <1>4, <2>1 DEF Recovers, Agree, Sound, SoundContents, BothTmp
  <2>3. Settled(fs') /\ Outcome(fs') = Outcome(v.fs)
    BY <1>4, <1>5, <2>1, <2>2, SettledAgrees DEF Recovers
  <2>4. Pending' <=> BothTmp(fs')
    BY <1>1 DEF Pending
  <2>5. Goal' = Outcome(fs')
    BY <2>4 DEF Goal, Outcome, Payload
  <2>6. Pending' => Payload' = before
    BY <1>5, <1>6, <2>1, <2>4 DEF Recovers, Payload
  <2> QED BY <2>1, <2>3, <2>5, <2>6 DEF Recovers
<1>12. SettledInv'
  BY <1>11 DEF SettledInv
<1>13. GoalInv'
  <2>1. ASSUME with_crc, ~excused'
        PROVE  /\ Goal' = prev \/ (sealed /\ Goal' = {want})
               /\ done => Goal' = {want}
               /\ Pending' => Payload' = before
    BY <1>11, <2>1 DEF IInv, GoalInv
  <2>2. ASSUME ~with_crc
        PROVE  \/ Payload' = prev \/ (sealed /\ Payload' = {want})
               \/ Payload' = before
    <3>1. Payload' \in {before, Payload}
      BY <1>3, <1>5, <2>2 DEF Sound, SoundPlain, Payload
    <3> QED BY <2>2, <3>1 DEF IInv, GoalInv, PreviousOrNew
  <2> QED BY <1>1, <2>1, <2>2 DEF GoalInv, PreviousOrNew
<1>14. PastInv'
  BY <1>1, NoPast
<1> QED BY <1>7, <1>8, <1>9, <1>10, <1>12, <1>13, <1>14 DEF IInv

\* Without CRC files the program goes on with what is on the disk.
LEMMA RestartKeeps ==
  ASSUME IInv, Restart, UNCHANGED with_crc
  PROVE  IInv'
<1>1. /\ pc = "down" /\ ~with_crc /\ pc' = "idle"
      /\ UNCHANGED <<fs, dirty, past, buf, ret, last, want, sealed, done, prev, before, made>>
      /\ (excused' <=> excused)
  BY DEF Restart, fileVars, history
<1>2. Exists' = Exists /\ Payload' = Payload
  BY <1>1, NoFileTouched, PayloadKept DEF Exists
<1>3. TypeInv' /\ DirtyInv' /\ PlainInv' /\ CrcTmpInv'
  BY <1>1, <1>2
     DEF IInv, TypeInv, DirtyInv, PlainInv, CrcTmpInv, Pcs, BothTmp, Whole, Readable, Exists
<1>4. SessionInv' /\ PairInv' /\ SettledInv' /\ MoveInv' /\ DropInv'
  BY <1>1 DEF SessionInv, PairInv, SettledInv, MoveInv, DropInv, BeforeRename
<1>5. last = "none"
  BY <1>1 DEF IInv, RestInv
<1>6. RestInv'
  BY <1>1, <1>5 DEF RestInv, RefusedIsPrevious, CheckLeavesPairOrNothing
<1>7. WholeInv'
  BY <1>1, <1>2 DEF IInv, WholeInv, Whole
<1>8. GoalInv'
  BY <1>1, <1>2 DEF IInv, GoalInv, PreviousOrNew
<1>9. PastInv'
  BY <1>1, <1>2, PastKept
<1> QED BY <1>3, <1>4, <1>6, <1>7, <1>8, <1>9 DEF IInv

-----------------------------------------------------------------------------
(* The theorems.                                                           *)

\* The invariant holds when the program starts, on an empty disk.
LEMMA InitHolds == Init => IInv
<1> SUFFICES ASSUME Init PROVE IInv
  OBVIOUS
<1>1. /\ pc = "idle" /\ ret = 0 /\ last = "none" /\ buf = <<>> /\ want = <<>> /\ dirty = {}
      /\ ~excused /\ ~done /\ prev = {} /\ past = {} /\ Exists = {}
  BY DEF Init, Exists
<1>2. TypeInv /\ DirtyInv /\ PlainInv /\ CrcTmpInv
  BY <1>1 DEF TypeInv, DirtyInv, PlainInv, CrcTmpInv, Pcs, BothTmp, Exists
<1>3. SessionInv /\ SettledInv /\ MoveInv /\ DropInv
  BY <1>1 DEF SessionInv, SettledInv, MoveInv, DropInv, BeforeRename
<1>4. PairInv
  BY <1>1 DEF PairInv, Paired, Exists
<1>5. RestInv
  BY <1>1 DEF RestInv, RefusedIsPrevious, CheckLeavesPairOrNothing
<1>6. Payload = {} /\ ~Pending /\ Goal = {}
  BY <1>1 DEF Payload, PayloadIn, Pending, Goal, BothTmp, Exists
<1>7. WholeInv /\ GoalInv /\ PastInv
  BY <1>1, <1>6 DEF WholeInv, GoalInv, PastInv, RenamedOnce, PreviousOrNew
<1> QED BY <1>2, <1>3, <1>4, <1>5, <1>7 DEF IInv

\* A step that changes nothing.
LEMMA StutterKeeps ==
  ASSUME IInv, UNCHANGED vars
  PROVE  IInv'
<1>1. UNCHANGED <<with_crc, fs, dirty, past, pc, buf, failure, ret, last, moves, drops,
                  want, sealed, done, prev, before, made, excused>>
  BY DEF vars, fileVars, history
<1>2. TypeInv' /\ DirtyInv' /\ PlainInv' /\ CrcTmpInv'
  BY <1>1
     DEF IInv, TypeInv, DirtyInv, PlainInv, CrcTmpInv, Exists, BothTmp, Whole, Readable
<1>3. SessionInv' /\ PairInv'
  BY <1>1 DEF IInv, SessionInv, PairInv, Paired, Payload, PayloadIn, Exists, Match, Readable
<1>4. Settled(fs)' <=> Settled(fs)
  BY <1>1 DEF Settled, OldPair, NewPair, NewPayload, BothTmp, Paired, Match, Readable
<1>5. MovesMakePair' <=> MovesMakePair
  BY <1>1 DEF MovesMakePair, PairThere, BothTmp, Exists, Match, Readable, Whole
<1>6. SettledInv' /\ MoveInv'
  BY <1>1, <1>4, <1>5 DEF IInv, SettledInv, MoveInv, BothTmp, Exists
<1>7. DropInv'
  BY <1>1 DEF IInv, DropInv, SessionDrops, CheckDrops, PairThere, BothTmp, Payload,
              PayloadIn, Exists, Match, Readable
<1>8. RestInv'
  BY <1>1 DEF IInv, RestInv, RefusedIsPrevious, CheckLeavesPairOrNothing,
              Payload, PayloadIn, Exists, Match, Readable
<1>9. Payload' = Payload /\ (Pending' <=> Pending) /\ Goal' = Goal
  BY <1>1 DEF Payload, PayloadIn, Pending, Goal, BothTmp
<1>10. WholeInv'
  BY <1>1, <1>9 DEF IInv, WholeInv, Whole
<1>11. GoalInv'
  BY <1>1, <1>9 DEF IInv, GoalInv, PreviousOrNew
<1>12. PastInv'
  <2>1. CASE pc # "rencrc"
    BY <1>1, <1>9, <2>1, PastKept
  <2>2. CASE pc = "rencrc"
    <3>1. ASSUME NEW v \in past PROVE Sound(v)'
      <4>1. Sound(v)
        BY <3>1 DEF IInv, PastInv
      <4> QED BY <1>1, <1>9, <4>1
              DEF Sound, SoundShape, SoundContents, SoundPlain, SoundCrc, Recovers, Whole
    <3>2. RenamedOnce'
      BY <1>1 DEF IInv, PastInv, RenamedOnce
    <3> QED BY <1>1, <3>1, <3>2 DEF PastInv
  <2> QED BY <2>1, <2>2
<1> QED BY <1>2, <1>3, <1>6, <1>7, <1>8, <1>10, <1>11, <1>12 DEF IInv

\* No call of safew.c, no failure of one and no crash breaks the invariant.
THEOREM Invariance == Spec => []IInv
<1>1. Init => IInv
  BY InitHolds
<1>2. IInv /\ [Next]_vars => IInv'
  <2> SUFFICES ASSUME IInv, [Next]_vars PROVE IInv'
    OBVIOUS
  <2>1. CASE UNCHANGED vars
    BY <2>1, StutterKeeps
  <2>2. CASE Session /\ UNCHANGED with_crc
    BY <2>2, FopenUnlinkKeeps, FopenKeeps, WriteKeeps, StdioFlushKeeps, RollbackKeeps,
       CommitKeeps DEF Session
  <2>3. CASE CommitSteps /\ UNCHANGED with_crc
    BY <2>3, CommitFflushKeeps, CommitFsyncKeeps, CommitFcloseKeeps, CrcReadKeeps,
       CrcOpenKeeps, CrcWriteKeeps, CrcSyncKeeps, CommitRenameKeeps,
       CommitRenameCrcKeeps, DropKeeps DEF CommitSteps
  <2>4. CASE (Check \/ CheckMove \/ CheckDone) /\ UNCHANGED with_crc
    BY <2>4, CheckKeeps, CheckMoveKeeps, CheckDoneKeeps
  <2>5. CASE (Crash \/ Restart) /\ UNCHANGED with_crc
    BY <2>5, CrashKeeps, RestartKeeps
  <2> QED BY <2>1, <2>2, <2>3, <2>4, <2>5 DEF Next
<1> QED BY <1>1, <1>2, PTL DEF Spec

\* Whatever fails and whenever the system stops, the payload file is never a
\* partly written one: it holds what it held when the last session that
\* fsync()ed its file began, or all that this session wrote, or it is gone.
THEOREM PayloadNeverTorn == Spec => []NeverTorn
<1>1. IInv => NeverTorn
  BY DEF IInv, WholeInv, Whole, NeverTorn
<1> QED BY <1>1, Invariance, PTL

\* Outside the failures and crash windows that excused records, the payload is
\* never lost either: "the file is either previous one, either new one once
\* completely written", through any number of crashes and recoveries, and
\* although a crash may undo renames that have returned.
THEOREM PayloadPreviousOrNew == Spec => []PreviousOrNewOutsideWindows
<1>1. ASSUME IInv PROVE PreviousOrNewOutsideWindows
  <2>1. SUFFICES ASSUME ~excused PROVE PreviousOrNew \/ TakenBack
    BY DEF PreviousOrNewOutsideWindows
  <2>2. CASE ~with_crc
    BY <1>1, <2>2 DEF IInv, GoalInv, TakenBack
  <2>3. CASE with_crc /\ ~Pending
    BY <1>1, <2>1, <2>3 DEF IInv, GoalInv, Goal, PreviousOrNew
  <2>4. CASE with_crc /\ Pending
    <3>1. Payload = before
      BY <1>1, <2>1, <2>4 DEF IInv, GoalInv
    <3>2. pc \in {"rename", "down", "move", "moving"}
      <4>1. pc # "drop"
        BY <1>1, <2>1, <2>4 DEF IInv, DropInv, Pending
      <4>2. pc \notin {"crcwrite", "crcsync"}
        BY <2>4 DEF Pending
      <4>3. pc \notin (BeforeRename \ {"rename"}) \cup {"idle", "rencrc"}
        BY <1>1, <2>4, NotPending DEF IInv
      <4> QED BY <1>1, <4>1, <4>2, <4>3 DEF IInv, TypeInv, Pcs, BeforeRename
    <3>3. pc = "rename" => Payload = prev
      BY <1>1 DEF IInv, SessionInv, BeforeRename
    <3> QED BY <3>1, <3>2, <3>3 DEF PreviousOrNew, TakenBack
  <2> QED BY <2>2, <2>3, <2>4
<1> QED BY <1>1, Invariance, PTL

\* Although no directory is fsync()ed and a crash may undo the renames of a commit
\* with a CRC that returned 0, no later crash or check takes its contents away:
\* whenever the program is between two calls they are there, with their CRC.
\* Without a CRC this holds until the system stops.
THEOREM CommitIsDurable == Spec => []CommittedIsDurable
<1>1. ASSUME IInv PROVE CommittedIsDurable
  <2>1. SUFFICES ASSUME done, ~excused, pc = "idle" \/ (pc = "drop" /\ last = "check")
                 PROVE  /\ with_crc \/ last = "commit" => Payload = {want}
                        /\ with_crc => "crc" \in Exists /\ Match(fs, "pay", "crc")
    BY DEF CommittedIsDurable
  <2>2. CASE ~with_crc
    BY <1>1, <2>1, <2>2 DEF IInv, RestInv, DropInv
  <2>3. CASE with_crc /\ pc = "idle"
    <3>1. Goal = Payload
      BY <1>1, <2>1, <2>3, NotPending DEF IInv
    <3>2. Payload = {want}
      BY <1>1, <2>1, <2>3, <3>1 DEF IInv, GoalInv
    <3>3. "pay" \in Exists
      BY <3>2 DEF Payload, PayloadIn, Exists
    <3>4. Paired(fs)
      BY <1>1, <2>1, <2>3 DEF IInv, PairInv
    <3> QED BY <3>2, <3>3, <3>4 DEF Paired, Exists
  <2>4. CASE with_crc /\ pc = "drop" /\ last = "check"
    <3>1. Goal = Payload
      BY <1>1, <2>1, <2>4 DEF IInv, DropInv, Goal, Pending
    <3>2. Payload = {want}
      BY <1>1, <2>1, <2>4, <3>1 DEF IInv, GoalInv
    <3>3. "pay" \in Exists
      BY <3>2 DEF Payload, PayloadIn, Exists
    <3>4. CheckDrops
      BY <1>1, <2>4 DEF IInv, DropInv
    <3>5. ret = 0
      BY <1>1, <2>1, <3>3, <3>4 DEF IInv, TypeInv, CheckDrops
    <3> QED BY <2>4, <3>2, <3>4, <3>5 DEF CheckDrops, PairThere
  <2> QED BY <2>1, <2>2, <2>3, <2>4
<1> QED BY <1>1, Invariance, PTL

\* A commit that returned -1 and a rollback leave the previous file and no
\* temporary one.
THEOREM RefusalKeepsPrevious == Spec => []RefusedIsPrevious
<1>1. IInv => RefusedIsPrevious
  BY DEF IInv, RestInv
<1> QED BY <1>1, Invariance, PTL

\* When a futils_safew_file_check() that met no read error returns, there is a
\* payload with its CRC and nothing else, or no file at all, as its return value
\* says.
THEOREM CheckIsAllOrNothing == Spec => []CheckLeavesPairOrNothing
<1>1. IInv => CheckLeavesPairOrNothing
  BY DEF IInv, RestInv
<1> QED BY <1>1, Invariance, PTL
=============================================================================
