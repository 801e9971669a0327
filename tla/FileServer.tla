----------------------------- MODULE FileServer -----------------------------
(***************************************************************************)
(* The file server of the host (NetBDOS, spybdos.h) and the file control   *)
(* block (FCB) of a program that it serves.                                *)
(*                                                                         *)
(* The server keeps nothing between two calls: the position in a file and  *)
(* the size that ends it are in the FCB, which travels with each call and  *)
(* comes back changed with some of the replies.  Meanwhile others change   *)
(* the same files: people at the host, and programs with FCBs of their     *)
(* own.  Contents are left out: what matters here is which record a call   *)
(* reaches, and whether it is there.                                       *)
(*                                                                         *)
(* The code has 128 for the bytes of a record, for the records of an       *)
(* extent and (80h) for the value at which the record counter turns over,  *)
(* which is half the range of a byte; Radix stands for all of them.        *)
(***************************************************************************)
EXTENDS Integers

CONSTANTS
  Names,      \* file names that programs use
  Radix,      \* 128
  SizeCap,    \* 737820, the largest size that is reported (a 720K disk)
  HostSizes,  \* sizes that others give to files
  Rates,      \* record sizes that programs set for block reads
  Counts,     \* numbers of records that block reads ask for
  MayFill,    \* TRUE: the disk of the host may be full
  MaxRec      \* bound: records of a file that programs reach

ASSUME FileAssumption ==
  /\ Radix \in Nat \ {0, 1}
  /\ SizeCap \in Nat
  /\ HostSizes \subseteq Nat /\ Rates \subseteq Nat /\ Counts \subseteq Nat
  /\ MayFill \in BOOLEAN
  /\ MaxRec \in Nat

VARIABLES
  size,    \* sizes of the files in bytes
  fcb,     \* the FCB
  alive,   \* the host program runs
  reply,   \* the answer to the latest call
  track    \* history: what the FCB was used for

vars == << size, fcb, alive, reply, track >>

NoFile == -1
ByteRange == 2 * Radix
Extent == Radix * Radix
Smaller(i, j) == IF i < j THEN i ELSE j
Larger(i, j) == IF i < j THEN j ELSE i

-----------------------------------------------------------------------------
(* The FCB.                                                                *)

\* ext: extent; cr: current record, a byte; rr: random record; rs: record
\* size; size: file size.  Bound: extents never reach 65536 (MaxRec).
Blank(n) == [name |-> n, ext |-> 0, cr |-> 0, rr |-> 0, rs |-> 0, size |-> 0]

\* The record that a sequential call reaches, and the first byte behind one.
RecordAt(b) == Radix * b.ext + b.cr
End(rec) == (rec + 1) * Radix

\* What sequential and random calls leave as record size: low byte 0, high
\* byte 128.
SequentialSize == Radix * ByteRange

\* Mutant of Advanced: the extent is not advanced.
Advanced_sameExtent(b) == [b EXCEPT !.cr = (b.cr + 1) % Radix, !.rs = SequentialSize]

\* The position after a sequential call.
Advanced(b) ==
  LET next == (b.cr + 1) % ByteRange IN
    IF next = Radix
      THEN [b EXCEPT !.cr = 0, !.ext = @ + 1, !.rs = SequentialSize]
      ELSE [b EXCEPT !.cr = next, !.rs = SequentialSize]

\* The position that a random read leaves: the offset within the extent, in
\* bytes, cut to one byte.
Positioned(b, off) ==
  [b EXCEPT !.cr = (off % Extent) % ByteRange, !.ext = off \div Extent,
            !.rs = SequentialSize]

-----------------------------------------------------------------------------
(* Replies and history.                                                    *)

Answer(f, r, res) == [func |-> f, rec |-> r, result |-> res]
Status(res) == Answer("status", 0, res)
NoReply == Answer("none", 0, 0)

\* mode: "start" when the FCB was set to the first record and has only been
\* read from sequentially since, "random" when a random read has moved it.
\* next: the record that the next sequential call should reach.
\* got: in mode "start", the records that were read.
\* blocks, taken: block reads began at the first byte; bytes that they gave.
\* knows: the size in the FCB covers the file: since it was opened or created
\* nobody else changed it, and no random write went beyond that size.
\* top: bytes of the file that successful writes need, when only they did.
Fresh ==
  [mode |-> "start", next |-> 0, got |-> {}, blocks |-> FALSE, taken |-> 0,
   knows |-> FALSE, top |-> 0]

\* The history with the position set to rec, or as it was, but nothing read.
At(t, rec) == [t EXCEPT !.mode = IF rec = 0 THEN "start" ELSE "on", !.next = rec, !.got = {}]
Again(t) == IF t.mode = "random" THEN t ELSE At(t, t.next)

\* The history when others changed files, the one of the FCB if it is in ns.
Disturbed(ns) ==
  IF fcb.name \in ns
    THEN [track EXCEPT !.knows = FALSE, !.top = 0, !.blocks = FALSE, !.taken = 0]
    ELSE track

NotInBlocks(t) == [t EXCEPT !.blocks = FALSE, !.taken = 0]

Init ==
  /\ size \in [Names -> HostSizes \union {NoFile}]
  /\ fcb \in { Blank(n) : n \in Names }
  /\ alive = TRUE /\ reply = NoReply
  /\ track = Fresh

-----------------------------------------------------------------------------
(* What the server reports as the size of a file, and as its records.      *)

\* FFFFFFFFh, beyond every file.
Huge == SizeCap + Radix * MaxRec + 1

\* Mutant of Reported: -1 stays -1.
Reported_signed(n) == Smaller(size[n], SizeCap)
\* internalGetFileSize; -1, that is FFFFFFFFh, when there is no file.
Reported(n) == IF size[n] = NoFile THEN Huge ELSE Smaller(size[n], SizeCap)

\* Mutant of Readable: the end that the FCB knows of is all that counts.
Readable_byFcb(rec) == rec * Radix < fcb.size

\* A read gives a record when it starts before the end that the FCB knows of
\* and fread finds at least one byte there.
Readable(rec) ==
  rec * Radix < fcb.size /\ rec * Radix < size[fcb.name]

\* The file that the FCB names is missing and fclose is given no file: the
\* program dies, or the C library takes it (that of Cygwin does).
Missing == size[fcb.name] = NoFile
Dies ==
  /\ Missing
  /\ alive' = FALSE /\ reply' = NoReply
  /\ UNCHANGED << size, fcb, track >>

-----------------------------------------------------------------------------
(* Calls that open, close, make and remove.                                *)

OpenFile ==
  /\ alive
  /\ \/ Dies
     \/ /\ Missing
        /\ reply' = Status(255)
        /\ UNCHANGED << size, fcb, alive, track >>
     \/ /\ ~Missing
        /\ fcb' = [fcb EXCEPT !.size = Reported(fcb.name)]
        /\ track' = [Again(track) EXCEPT !.knows = TRUE]
        /\ reply' = Status(0)
        /\ UNCHANGED << size, alive >>

CloseFile ==
  /\ alive
  /\ reply' = Status(0)
  /\ UNCHANGED << size, fcb, alive, track >>

\* "Create / overwrite": the FCB goes back as it came, with its old size.
CreateFile ==
  /\ alive
  /\ IF fcb.ext = 0
       THEN /\ size' = [size EXCEPT ![fcb.name] = 0]
            /\ track' = [Again(Disturbed({fcb.name})) EXCEPT !.knows = TRUE]
            /\ reply' = Status(0)
       ELSE /\ reply' = Status(255)
            /\ UNCHANGED << size, track >>
  /\ UNCHANGED << fcb, alive >>

DeleteFile ==
  /\ alive
  /\ size' = [size EXCEPT ![fcb.name] = NoFile]
  /\ track' = Disturbed({fcb.name})
  /\ reply' = Status(IF Missing THEN 255 ELSE 0)
  /\ UNCHANGED << fcb, alive >>

\* rename() of the host: a file that has the new name is replaced.
RenameFile(m) ==
  /\ alive
  /\ IF Missing
       THEN /\ reply' = Status(255)
            /\ UNCHANGED << size, track >>
       ELSE /\ size' = [[size EXCEPT ![fcb.name] = NoFile] EXCEPT ![m] = size[fcb.name]]
            /\ track' = Disturbed({fcb.name, m})
            /\ reply' = Status(0)
  /\ UNCHANGED << fcb, alive >>

GetFileSize ==
  /\ alive
  /\ fcb' = [fcb EXCEPT !.size = Reported(fcb.name)]
  /\ reply' = Status(IF Missing THEN 255 ELSE 0)
  /\ UNCHANGED << size, alive, track >>

-----------------------------------------------------------------------------
(* Calls that read and write.                                              *)

\* The position advances at the end of the file too.
SequentialRead ==
  /\ alive
  /\ LET rec == RecordAt(fcb)
         read == IF Readable(rec) THEN {rec} ELSE {} IN
       /\ rec < MaxRec
       /\ \/ Dies
          \/ /\ Missing => rec * Radix >= fcb.size
             /\ fcb' = Advanced(fcb)
             /\ track' = [NotInBlocks(track) EXCEPT !.next = @ + 1,
                  !.got = IF track.mode = "start" THEN @ \union read ELSE @]
             /\ reply' = Answer("read", rec, IF read = {} THEN 1 ELSE 0)
             /\ UNCHANGED << size, alive >>

\* Mutant of Grown: the file ends behind the record that was written.
Grown_truncating(rec) == [size EXCEPT ![fcb.name] = End(rec)]

\* Where a write of 128 bytes leaves the file.
Grown(rec) == [size EXCEPT ![fcb.name] = Larger(@, End(rec))]

\* fwrite fills a buffer; that the disk is full shows when fclose writes it,
\* whose result nobody looks at.
Written(rec) ==
  \/ ~Missing /\ size' = Grown(rec)
  \/ (Missing \/ MayFill) /\ size' = size

\* The history after a write, which counts when it is answered with success.
AfterWrite(rec) ==
  [NotInBlocks(track) EXCEPT !.mode = IF @ = "start" THEN "on" ELSE @, !.got = {},
                             !.top = IF Missing THEN @ ELSE Larger(@, End(rec))]

SequentialWrite ==
  /\ alive
  /\ LET rec == RecordAt(fcb) IN
       /\ rec < MaxRec
       /\ \/ Dies
          \/ /\ Written(rec)
             /\ fcb' = [Advanced(fcb) EXCEPT !.size = Larger(@, End(rec))]
             /\ track' = [AfterWrite(rec) EXCEPT !.next = @ + 1]
             /\ reply' = Answer("write", rec, IF Missing THEN 1 ELSE 0)
             /\ UNCHANGED alive

\* The record counter is set only when the read got past the end-of-file test.
RandomRead(rec) ==
  /\ alive
  /\ LET past == rec * Radix >= fcb.size
         asked == [fcb EXCEPT !.rr = rec] IN
       \/ Dies
       \/ /\ Missing => past
          /\ fcb' = IF past THEN asked ELSE Positioned(asked, rec * Radix)
          /\ track' = IF past THEN NotInBlocks(track)
                      ELSE [NotInBlocks(track) EXCEPT !.mode = "random", !.next = rec, !.got = {}]
          /\ reply' = Answer("randomRead", rec, IF Readable(rec) THEN 0 ELSE 1)
          /\ UNCHANGED << size, alive >>

\* The FCB does not come back: neither its position nor its size changes.
RandomWrite(rec) ==
  /\ alive
  /\ \/ Dies
     \/ /\ Written(rec)
        /\ fcb' = [fcb EXCEPT !.rr = rec]
        /\ track' = [AfterWrite(rec) EXCEPT !.knows = @ /\ End(rec) <= fcb.size]
        /\ reply' = Answer("write", rec, IF Missing THEN 1 ELSE 0)
        /\ UNCHANGED alive

\* Mutant of WholeRecords: the records that were asked for.
WholeRecords_asked(at, rate, count) == IF size[fcb.name] <= at THEN 0 ELSE count

\* fread of count records of rate bytes each from the byte at on: whole
\* records only.
WholeRecords(at, rate, count) ==
  IF rate = 0 \/ size[fcb.name] <= at THEN 0
  ELSE Smaller(count, (size[fcb.name] - at) \div rate)

BlockRead(count) ==
  /\ alive
  /\ LET at == fcb.rr * fcb.rs
         past == at >= fcb.size
         n == IF past THEN 0 ELSE WholeRecords(at, fcb.rs, count) IN
       \/ Dies
       \/ /\ Missing => past
          /\ fcb' = [fcb EXCEPT !.rr = @ + n]
          /\ track' = [track EXCEPT !.taken = IF track.blocks THEN @ + n * fcb.rs ELSE 0]
          /\ reply' = Answer("blockRead", 0, IF ~past /\ n = count THEN 0 ELSE 1)
          /\ UNCHANGED << size, alive >>

ServerStep ==
  \/ OpenFile \/ CloseFile \/ CreateFile \/ DeleteFile \/ GetFileSize
  \/ SequentialRead \/ SequentialWrite
  \/ \E m \in Names : RenameFile(m)
  \/ \E rec \in 0..(MaxRec - 1) : RandomRead(rec) \/ RandomWrite(rec)
  \/ \E count \in Counts : BlockRead(count)

-----------------------------------------------------------------------------
(* The program, and the others.                                            *)

\* The program makes an FCB for a file; sets its sequential position; or sets
\* where block reads begin and the size of their records.
MakeFcb(n) ==
  /\ fcb' = Blank(n)
  /\ track' = Fresh
  /\ reply' = NoReply /\ UNCHANGED << size, alive >>

SetPosition(rec) ==
  /\ fcb' = [fcb EXCEPT !.ext = rec \div Radix, !.cr = rec % Radix]
  /\ track' = At(track, rec)
  /\ reply' = NoReply /\ UNCHANGED << size, alive >>

SetBlock(rr, rs) ==
  /\ fcb' = [fcb EXCEPT !.rr = rr, !.rs = rs]
  /\ track' = [track EXCEPT !.blocks = (rr = 0), !.taken = 0]
  /\ reply' = NoReply /\ UNCHANGED << size, alive >>

OthersChange(n) ==
  /\ \E s \in HostSizes \union {NoFile} : size' = [size EXCEPT ![n] = s]
  /\ track' = Disturbed({n})
  /\ reply' = NoReply /\ UNCHANGED << fcb, alive >>

ProgramStep ==
  \/ \E n \in Names : MakeFcb(n) \/ OthersChange(n)
  \/ \E rec \in 0..(MaxRec - 1) : SetPosition(rec)
  \/ \E rr \in {0, 1}, rs \in Rates : SetBlock(rr, rs)

Next == ServerStep \/ ProgramStep

Spec == Init /\ [][Next]_vars

-----------------------------------------------------------------------------
(* Properties.                                                             *)

FcbType == [name : Names, ext : Nat, cr : 0..(ByteRange - 1), rr : Nat, rs : Nat, size : Nat]
TrackType ==
  [mode : {"start", "on", "random"}, next : Nat, got : SUBSET Nat,
   blocks : BOOLEAN, taken : Nat, knows : BOOLEAN, top : Nat]
ReplyType ==
  [func : {"none", "status", "read", "write", "randomRead", "blockRead"},
   rec : Nat, result : {0, 1, 255}]

\* Types: the record counter of the FCB is a byte.
TypeOK ==
  /\ size \in [Names -> Nat \union {NoFile}]
  /\ fcb \in FcbType
  /\ alive \in BOOLEAN
  /\ reply \in ReplyType
  /\ track \in TrackType

\* Sequential calls reach one record after another, across the ends of extents,
\* from where the program set the position (sequentialRead, randomWrite).
PositionKept ==
  track.mode # "random" => fcb.cr < Radix /\ RecordAt(fcb) = track.next

\* The size in the FCB covers the file, which can be reported in full.
Whole == track.knows /\ size[fcb.name] <= SizeCap

\* The records of the file before the record next, of the first MaxRec.
RecordsBefore(next) == { r \in 0..MaxRec : r < next /\ r * Radix < size[fcb.name] }

\* What every call relies on, and what makes the properties below inductive:
\* the FCB knows all of a file that nobody else changed; reads from the first
\* record have given every record before the position; block reads from the
\* first byte have given every byte before theirs.
FcbFitsFile ==
  /\ PositionKept
  /\ track.knows => size[fcb.name] # NoFile
  /\ Whole => size[fcb.name] <= fcb.size
  /\ Whole /\ track.mode = "start" => track.got = RecordsBefore(track.next)
  /\ track.blocks => fcb.rr * fcb.rs = track.taken
  /\ track.blocks => track.taken = 0 \/ track.taken <= size[fcb.name]

\* A read that succeeds gives a record of the file, never padding alone, also
\* when others cut the file after it was opened; one that fails was at the end
\* of the file, if nobody else changed it (randomRead, sequentialRead).
ReadsTellTheEnd ==
  reply.func \in {"read", "randomRead"} =>
    /\ reply.result = 0 => reply.rec * Radix < size[fcb.name]
    /\ reply.result = 1 /\ Whole => reply.rec * Radix >= size[fcb.name]

\* Whoever reads from the first record until the end is reported has read every
\* record of the file, also of one that was written through this FCB before.
WholeFileRead ==
  reply.func = "read" /\ reply.result = 1 /\ Whole /\ track.mode = "start" =>
    track.got = { r \in 0..MaxRec : r * Radix < size[fcb.name] }

\* Whoever reads blocks from the first byte until fewer records come than were
\* asked for has read all bytes of the file that fill records (randomBlockRead).
WholeFileInBlocks ==
  reply.func = "blockRead" /\ reply.result = 1 /\ Whole /\ track.blocks /\ fcb.rs # 0 =>
    track.taken = size[fcb.name] - (size[fcb.name] % fcb.rs)

\* Files are read to their end, in records and in blocks.
ReadsComplete == WholeFileRead /\ WholeFileInBlocks

\* spybdos.h:493, "result: 01 = error, 0 if ok": what was written with result 0
\* is in the file, and no later write cuts it off.
RecordsKept == track.top = 0 \/ track.top <= size[fcb.name]

\* spybdos.h:293, "Update Current Record and Extent for sequential read": after
\* a random read the sequential position is at the record that was read.
RandomSetsPosition ==
  reply.func = "randomRead" /\ reply.result = 0 => RecordAt(fcb) = reply.rec
=============================================================================
