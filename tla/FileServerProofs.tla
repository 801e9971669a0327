-------------------------- MODULE FileServerProofs --------------------------
(***************************************************************************)
(* Proofs about FileServer: a file is read as a whole, and what was        *)
(* written stays, for every Radix, SizeCap and all sizes.                  *)
(***************************************************************************)
EXTENDS FileServer, TLAPS

-----------------------------------------------------------------------------
(* Arithmetic of records, extents and bytes.                               *)

LEMMA Multiples ==
  ASSUME NEW i \in Nat, NEW k \in Nat, NEW r \in Nat, i <= k
  PROVE  i * r <= k * r
  OBVIOUS

\* Division with remainder by the size of a record.
LEMMA Split ==
  ASSUME NEW s \in Nat, NEW r \in Nat \ {0}
  PROVE  /\ s \div r \in Nat /\ s % r \in 0..(r - 1)
         /\ s = (s \div r) * r + (s % r)
         /\ (s \div r) * r <= s /\ s < (s \div r) * r + r
  OBVIOUS

\* The multiple of r that s is less than r away from.
LEMMA WholePart ==
  ASSUME NEW s \in Nat, NEW r \in Nat \ {0}, NEW k \in Nat,
         k * r <= s, s < k * r + r
  PROVE  k * r = s - (s % r)
<1> DEFINE q == s \div r
<1>1. q \in Nat /\ q * r <= s /\ s < q * r + r /\ s = q * r + (s % r)
  BY Split
<1>2. (q + 1) * r = q * r + r /\ (k + 1) * r = k * r + r
  BY <1>1
<1> HIDE DEF q
<1>3. ~(q + 1 <= k)
  <2> SUFFICES ASSUME q + 1 <= k PROVE FALSE
    OBVIOUS
  <2>1. (q + 1) * r <= k * r
    BY <1>1, Multiples
  <2> QED
    BY <1>1, <1>2, <2>1
<1>4. ~(k + 1 <= q)
  <2> SUFFICES ASSUME k + 1 <= q PROVE FALSE
    OBVIOUS
  <2>1. (k + 1) * r <= q * r
    BY <1>1, Multiples
  <2> QED
    BY <1>1, <1>2, <2>1
<1> QED
  BY <1>1, <1>3, <1>4

LEMMA Constants ==
  /\ ByteRange \in Nat /\ Radix \in Nat /\ Radix > 0 /\ Radix < ByteRange
  /\ Extent \in Nat \ {0} /\ SequentialSize \in Nat
  /\ Huge \in Nat /\ Huge > SizeCap
  BY FileAssumption DEF ByteRange, Extent, SequentialSize, Huge

\* A sequential call leaves a well-formed FCB for the same file.
LEMMA AdvancedType ==
  ASSUME NEW b \in FcbType
  PROVE  /\ Advanced(b) \in FcbType
         /\ Advanced(b).name = b.name /\ Advanced(b).size = b.size
<1>1. (b.cr + 1) % ByteRange \in 0..(ByteRange - 1)
  <2>1. b.cr + 1 \in Nat /\ ByteRange \in Nat \ {0}
    BY Constants DEF FcbType
  <2> QED
    BY <2>1, Split
<1>2. b.ext + 1 \in Nat /\ 0 \in 0..(ByteRange - 1)
  BY Constants DEF FcbType
<1> QED
  BY <1>1, <1>2, Constants DEF Advanced, FcbType

\* Within an extent, a sequential call advances the position by one record.
LEMMA AdvancedPosition ==
  ASSUME NEW b \in FcbType, b.cr < Radix
  PROVE  Advanced(b).cr < Radix /\ RecordAt(Advanced(b)) = RecordAt(b) + 1
<1>1. b.cr \in Nat /\ b.ext \in Nat /\ (b.cr + 1) % ByteRange = b.cr + 1
  BY Constants, FileAssumption DEF FcbType, ByteRange
<1>2. CASE b.cr + 1 = Radix
  <2>1. Advanced(b).cr = 0 /\ Advanced(b).ext = b.ext + 1
    BY <1>1, <1>2 DEF Advanced, FcbType
  <2>2. Radix * (b.ext + 1) = Radix * b.ext + Radix
    BY <1>1, Constants
  <2> QED
    BY <1>1, <1>2, <2>1, <2>2, Constants DEF RecordAt
<1>3. CASE b.cr + 1 # Radix
  <2>1. Advanced(b).cr = b.cr + 1 /\ Advanced(b).ext = b.ext
    BY <1>1, <1>3 DEF Advanced, FcbType
  <2>2. Radix * b.ext \in Nat
    BY <1>1, Constants
  <2> QED
    BY <1>1, <1>3, <2>1, <2>2, Constants DEF RecordAt
<1> QED
  BY <1>2, <1>3

LEMMA PositionedType ==
  ASSUME NEW b \in FcbType, NEW off \in Nat
  PROVE  /\ Positioned(b, off) \in FcbType
         /\ Positioned(b, off).name = b.name /\ Positioned(b, off).size = b.size
<1>1. off % Extent \in Nat /\ off \div Extent \in Nat
  BY Constants, Split
<1>2. (off % Extent) % ByteRange \in 0..(ByteRange - 1)
  BY <1>1, Constants, Split
<1> QED
  BY <1>1, <1>2, Constants DEF Positioned, FcbType

-----------------------------------------------------------------------------
(* Types.                                                                  *)

LEMMA HistoryTypes ==
  ASSUME TypeOK
  PROVE  /\ track \in TrackType
         /\ Fresh \in TrackType
         /\ Again(track) \in TrackType
         /\ NotInBlocks(track) \in TrackType
         /\ \A rec \in Nat : At(track, rec) \in TrackType /\ AfterWrite(rec) \in TrackType
         /\ \A ns : Disturbed(ns) \in TrackType /\ Again(Disturbed(ns)) \in TrackType
<1> USE DEF TypeOK, TrackType
<1>1. Fresh \in TrackType
  BY DEF Fresh
<1>2. \A t \in TrackType, rec \in Nat : At(t, rec) \in TrackType
  BY DEF At
<1>3. \A t \in TrackType : Again(t) \in TrackType
  BY <1>2 DEF Again
<1>4. NotInBlocks(track) \in TrackType
  BY DEF NotInBlocks
<1>5. \A rec \in Nat : End(rec) \in Nat
  BY Constants DEF End
<1>6. \A rec \in Nat : AfterWrite(rec) \in TrackType
  BY <1>4, <1>5 DEF AfterWrite, Larger
<1>7. \A ns : Disturbed(ns) \in TrackType
  BY DEF Disturbed
<1> QED
  BY <1>1, <1>2, <1>3, <1>4, <1>6, <1>7

LEMMA StatusTypes ==
  /\ NoReply \in ReplyType
  /\ \A res \in {0, 1, 255} : Status(res) \in ReplyType
  /\ \A f \in {"read", "write", "randomRead", "blockRead"}, rec \in Nat, res \in {0, 1, 255} :
       Answer(f, rec, res) \in ReplyType
  BY DEF NoReply, Status, Answer, ReplyType

\* The values that steps compute have their types.
LEMMA ValueTypes ==
  ASSUME TypeOK
  PROVE  /\ \A n \in Names : Blank(n) \in FcbType /\ Reported(n) \in Nat
         /\ \A rec \in Nat : rec * Radix \in Nat /\ End(rec) \in Nat
         /\ \A rec \in Nat : Grown(rec) \in [Names -> Nat \union {NoFile}]
         /\ RecordAt(fcb) \in Nat
         /\ fcb.rr * fcb.rs \in Nat
         /\ fcb \in FcbType /\ fcb.name \in Names
<1> USE DEF TypeOK, FcbType
<1>1. \A n \in Names : Blank(n) \in FcbType
  BY Constants DEF Blank
<1>2. \A n \in Names : Reported(n) \in Nat
  BY Constants, FileAssumption DEF Reported, Smaller, NoFile
<1>3. \A rec \in Nat : rec * Radix \in Nat /\ End(rec) \in Nat
  BY Constants DEF End
<1>4. \A rec \in Nat : Grown(rec) \in [Names -> Nat \union {NoFile}]
  BY <1>3 DEF Grown, Larger, NoFile
<1>5. RecordAt(fcb) \in Nat
  BY Constants DEF RecordAt
<1> QED
  BY <1>1, <1>2, <1>3, <1>4, <1>5

\* The number of records that a block read returns.
LEMMA BlockCount ==
  ASSUME TypeOK, NEW count \in Nat, size[fcb.name] # NoFile
  PROVE  /\ WholeRecords(fcb.rr * fcb.rs, fcb.rs, count) \in 0..count
         /\ fcb.rr * fcb.rs <= size[fcb.name] =>
              fcb.rr * fcb.rs + WholeRecords(fcb.rr * fcb.rs, fcb.rs, count) * fcb.rs
                <= size[fcb.name]
<1> DEFINE at == fcb.rr * fcb.rs
           n == WholeRecords(at, fcb.rs, count)
<1>1. size[fcb.name] \in Nat /\ fcb.rs \in Nat /\ at \in Nat
  BY ValueTypes DEF TypeOK, FcbType
<1> HIDE DEF at
<1>2. CASE fcb.rs = 0 \/ size[fcb.name] <= at
  <2>1. n = 0
    BY <1>2 DEF WholeRecords
  <2>2. n * fcb.rs = 0 /\ n \in 0..count
    BY <1>1, <2>1
  <2> HIDE DEF n
  <2>3. at + n * fcb.rs = at
    BY <1>1, <2>2
  <2> QED
    BY <2>2, <2>3 DEF n, at
<1>3. CASE ~(fcb.rs = 0 \/ size[fcb.name] <= at)
  <2> DEFINE q == (size[fcb.name] - at) \div fcb.rs
  <2>1. q \in Nat /\ q * fcb.rs <= size[fcb.name] - at
    <3>1. size[fcb.name] - at \in Nat /\ fcb.rs \in Nat \ {0}
      BY <1>1, <1>3
    <3> QED
      BY <3>1, Split
  <2>2. n = Smaller(count, q)
    BY <1>1, <1>3 DEF WholeRecords
  <2> HIDE DEF q, n
  <2>3. n \in 0..count /\ n <= q
    BY <2>1, <2>2 DEF Smaller
  <2>4. n * fcb.rs <= q * fcb.rs
    BY <1>1, <2>1, <2>3, Multiples
  <2>5. n * fcb.rs \in Nat /\ q * fcb.rs \in Nat
    BY <1>1, <2>1, <2>3
  <2>6. at + n * fcb.rs <= size[fcb.name]
    BY <1>1, <2>1, <2>4, <2>5
  <2> QED
    BY <2>3, <2>6 DEF n, at
<1> QED
  BY <1>2, <1>3

LEMMA TypeInit == Init => TypeOK
<1> SUFFICES ASSUME Init PROVE TypeOK
  OBVIOUS
<1>1. size \in [Names -> Nat \union {NoFile}]
  BY FileAssumption DEF Init
<1>2. fcb \in FcbType
  BY Constants DEF Init, Blank, FcbType
<1>3. track \in TrackType
  BY DEF Init, Fresh, TrackType
<1> QED
  BY <1>1, <1>2, <1>3, StatusTypes DEF Init, TypeOK

\* The changes that steps make to single fields.
LEMMA FcbUpdates ==
  ASSUME NEW b \in FcbType, NEW k \in Nat
  PROVE  /\ [b EXCEPT !.size = k] \in FcbType
         /\ [b EXCEPT !.rr = k] \in FcbType
         /\ [b EXCEPT !.size = Larger(@, k)] \in FcbType
         /\ [b EXCEPT !.rr = @ + k] \in FcbType
  BY DEF FcbType, Larger

LEMMA TrackUpdates ==
  ASSUME NEW t \in TrackType
  PROVE  /\ [t EXCEPT !.knows = TRUE] \in TrackType
         /\ [t EXCEPT !.next = @ + 1] \in TrackType
         /\ \A p \in BOOLEAN : [t EXCEPT !.knows = p] \in TrackType
         /\ \A g \in SUBSET Nat : [t EXCEPT !.next = @ + 1, !.got = g] \in TrackType
         /\ \A rec \in Nat : [t EXCEPT !.mode = "random", !.next = rec, !.got = {}] \in TrackType
         /\ \A k \in Nat : [t EXCEPT !.taken = IF t.blocks THEN @ + k ELSE 0] \in TrackType
         /\ \A p \in BOOLEAN : [t EXCEPT !.blocks = p, !.taken = 0] \in TrackType
<1>1. [t EXCEPT !.next = @ + 1] \in TrackType
  <2>1. t.next + 1 \in Nat
    BY DEF TrackType
  <2>2. \A k \in Nat : [t EXCEPT !.next = k] \in TrackType
    BY DEF TrackType
  <2> QED
    BY <2>1, <2>2
<1>2. ASSUME NEW p \in BOOLEAN
      PROVE  [t EXCEPT !.knows = p] \in TrackType /\ [t EXCEPT !.blocks = p, !.taken = 0] \in TrackType
  <2>1. [t EXCEPT !.knows = p] \in TrackType
    BY DEF TrackType
  <2>2. [t EXCEPT !.blocks = p, !.taken = 0] \in TrackType
    BY DEF TrackType
  <2> QED
    BY <2>1, <2>2
<1>3. ASSUME NEW g \in SUBSET Nat
      PROVE  [t EXCEPT !.next = @ + 1, !.got = g] \in TrackType
  <2>1. [t EXCEPT !.got = g] \in TrackType
    BY DEF TrackType
  <2>2. t.next + 1 \in Nat
    BY DEF TrackType
  <2>3. \A k \in Nat : [t EXCEPT !.next = k, !.got = g] \in TrackType
    BY <2>1 DEF TrackType
  <2> QED
    BY <2>2, <2>3
<1>4. ASSUME NEW rec \in Nat
      PROVE  [t EXCEPT !.mode = "random", !.next = rec, !.got = {}] \in TrackType
  <2>1. {} \in SUBSET Nat /\ "random" \in {"start", "on", "random"}
    OBVIOUS
  <2>2. [t EXCEPT !.mode = "random"] \in TrackType
    BY <2>1 DEF TrackType
  <2> QED
    BY <2>1, <2>2 DEF TrackType
<1>5. ASSUME NEW k \in Nat
      PROVE  [t EXCEPT !.taken = IF t.blocks THEN @ + k ELSE 0] \in TrackType
  <2>1. (IF t.blocks THEN t.taken + k ELSE 0) \in Nat
    BY DEF TrackType
  <2> QED
    BY <2>1 DEF TrackType
<1> QED
  BY <1>1, <1>2, <1>3, <1>4, <1>5

LEMMA TypeStep == TypeOK /\ [Next]_vars => TypeOK'
<1> DEFINE Sizes == [Names -> Nat \union {NoFile}]
<1> SUFFICES ASSUME TypeOK, [Next]_vars PROVE TypeOK'
  OBVIOUS
<1>1. /\ size \in Sizes /\ fcb \in FcbType /\ alive \in BOOLEAN
      /\ reply \in ReplyType /\ track \in TrackType
  BY DEF TypeOK
<1>2. ASSUME size' \in Sizes, fcb' \in FcbType, alive' \in BOOLEAN,
             reply' \in ReplyType, track' \in TrackType
      PROVE  TypeOK'
  BY <1>2 DEF TypeOK
<1>3. CASE UNCHANGED vars
  BY <1>1, <1>2, <1>3 DEF vars
<1>4. CASE Dies
  BY <1>1, <1>2, <1>4, StatusTypes DEF Dies
<1>5. fcb.name \in Names /\ RecordAt(fcb) \in Nat
  BY ValueTypes
<1>6. \A rec \in Nat : Written(rec) => size' \in Sizes
  BY <1>1, ValueTypes DEF Written
<1>7. \A rec \in 0..(MaxRec - 1) : rec \in Nat
  BY FileAssumption
<1>8. CASE OpenFile
  <2>1. CASE ~Missing /\ ~Dies
    <3>1. [fcb EXCEPT !.size = Reported(fcb.name)] \in FcbType
      BY <1>1, <1>5, ValueTypes, FcbUpdates
    <3>2. [Again(track) EXCEPT !.knows = TRUE] \in TrackType
      BY HistoryTypes, TrackUpdates
    <3> QED
      <4>1. /\ fcb' = [fcb EXCEPT !.size = Reported(fcb.name)]
            /\ track' = [Again(track) EXCEPT !.knows = TRUE]
            /\ reply' = Status(0) /\ size' = size /\ alive' = alive
        BY <1>8, <2>1 DEF OpenFile
      <4> QED
        BY <1>1, <1>2, <3>1, <3>2, <4>1, StatusTypes
  <2>2. CASE Missing /\ ~Dies
    <3>1. reply' = Status(255) /\ UNCHANGED << size, fcb, alive, track >>
      BY <1>8, <2>2 DEF OpenFile
    <3> QED
      BY <1>1, <1>2, <3>1, StatusTypes
  <2> QED
    BY <1>4, <2>1, <2>2
<1>9. CASE CloseFile
  BY <1>1, <1>2, <1>9, StatusTypes DEF CloseFile
<1>10. CASE CreateFile
  <2>1. [size EXCEPT ![fcb.name] = 0] \in Sizes
    BY <1>1
  <2>2. [Again(Disturbed({fcb.name})) EXCEPT !.knows = TRUE] \in TrackType
    BY HistoryTypes, TrackUpdates
  <2> QED
    <3>1. size' \in Sizes /\ track' \in TrackType
      BY <1>1, <1>10, <2>1, <2>2 DEF CreateFile
    <3>2. reply' \in ReplyType
      BY <1>10, StatusTypes DEF CreateFile
    <3> QED
      BY <1>1, <1>2, <1>10, <3>1, <3>2 DEF CreateFile
<1>11. CASE DeleteFile
  <2>1. [size EXCEPT ![fcb.name] = NoFile] \in Sizes
    BY <1>1
  <2> QED
    BY <1>1, <1>2, <1>11, <2>1, StatusTypes, HistoryTypes DEF DeleteFile
<1>12. CASE GetFileSize
  <2>1. [fcb EXCEPT !.size = Reported(fcb.name)] \in FcbType
    BY <1>1, <1>5, ValueTypes, FcbUpdates
  <2> QED
    BY <1>1, <1>2, <1>12, <2>1, StatusTypes DEF GetFileSize
<1>13. CASE SequentialRead
  <2>1. CASE ~Dies
    <3> DEFINE rec == RecordAt(fcb)
               read == IF Readable(rec) THEN {rec} ELSE {}
               got == NotInBlocks(track).got
               past == [NotInBlocks(track) EXCEPT !.next = @ + 1,
                          !.got = IF track.mode = "start" THEN @ \union read ELSE @]
    <3>1. Advanced(fcb) \in FcbType
      BY <1>1, AdvancedType
    <3>2. past \in TrackType
      <4>1. got \in SUBSET Nat /\ read \in SUBSET Nat
        BY <1>5, HistoryTypes DEF TrackType
      <4>2. (IF track.mode = "start" THEN got \union read ELSE got) \in SUBSET Nat
        BY <4>1
      <4> HIDE DEF read
      <4> QED
        BY <4>2, HistoryTypes, TrackUpdates
    <3>3. Answer("read", rec, IF read = {} THEN 1 ELSE 0) \in ReplyType
      BY <1>5 DEF Answer, ReplyType
    <3>4. fcb' = Advanced(fcb) /\ track' = past /\ size' = size /\ alive' = alive
          /\ reply' = Answer("read", rec, IF read = {} THEN 1 ELSE 0)
      BY <1>13, <2>1 DEF SequentialRead
    <3> HIDE DEF past, read, rec
    <3> QED
      BY <1>1, <1>2, <3>1, <3>2, <3>3, <3>4
  <2> QED
    BY <1>4, <2>1
<1>14. CASE SequentialWrite
  <2>1. CASE ~Dies
    <3> DEFINE rec == RecordAt(fcb)
    <3>1. [Advanced(fcb) EXCEPT !.size = Larger(@, End(rec))] \in FcbType
      BY <1>1, <1>5, ValueTypes, AdvancedType, FcbUpdates
    <3>2. [AfterWrite(rec) EXCEPT !.next = @ + 1] \in TrackType
      BY <1>5, HistoryTypes, TrackUpdates
    <3>3. Answer("write", rec, IF Missing THEN 1 ELSE 0) \in ReplyType
      BY <1>5 DEF Answer, ReplyType
    <3> QED
      BY <1>1, <1>2, <1>5, <1>6, <1>14, <2>1, <3>1, <3>2, <3>3 DEF SequentialWrite
  <2> QED
    BY <1>4, <2>1
<1>15. ASSUME NEW m \in Names, RenameFile(m) PROVE TypeOK'
  <2>1. [[size EXCEPT ![fcb.name] = NoFile] EXCEPT ![m] = size[fcb.name]] \in Sizes
    BY <1>1, <1>5
  <2> QED
    BY <1>1, <1>2, <1>15, <2>1, StatusTypes, HistoryTypes DEF RenameFile
<1>16. ASSUME NEW rec \in 0..(MaxRec - 1), RandomRead(rec) PROVE TypeOK'
  <2>1. CASE ~Dies
    <3> DEFINE asked == [fcb EXCEPT !.rr = rec]
    <3>1. asked \in FcbType
      BY <1>1, <1>7, FcbUpdates
    <3>2. Positioned(asked, rec * Radix) \in FcbType
      BY <1>7, <3>1, ValueTypes, PositionedType
    <3>3. [NotInBlocks(track) EXCEPT !.mode = "random", !.next = rec, !.got = {}] \in TrackType
      BY <1>7, HistoryTypes, TrackUpdates
    <3>4. Answer("randomRead", rec, IF Readable(rec) THEN 0 ELSE 1) \in ReplyType
      BY <1>7 DEF Answer, ReplyType
    <3> QED
      BY <1>1, <1>2, <1>16, <2>1, <3>1, <3>2, <3>3, <3>4, HistoryTypes DEF RandomRead
  <2> QED
    BY <1>4, <2>1
<1>17. ASSUME NEW rec \in 0..(MaxRec - 1), RandomWrite(rec) PROVE TypeOK'
  <2>1. CASE ~Dies
    <3>1. [fcb EXCEPT !.rr = rec] \in FcbType
      BY <1>1, <1>7, FcbUpdates
    <3>2. [AfterWrite(rec) EXCEPT !.knows = @ /\ End(rec) <= fcb.size] \in TrackType
      <4>1. AfterWrite(rec) \in TrackType
        BY <1>7, HistoryTypes
      <4>2. (AfterWrite(rec).knows /\ End(rec) <= fcb.size) \in BOOLEAN
        OBVIOUS
      <4> QED
        BY <4>1, <4>2, TrackUpdates
    <3>3. Answer("write", rec, IF Missing THEN 1 ELSE 0) \in ReplyType
      BY <1>7 DEF Answer, ReplyType
    <3> QED
      BY <1>1, <1>2, <1>6, <1>7, <1>17, <2>1, <3>1, <3>2, <3>3 DEF RandomWrite
  <2> QED
    BY <1>4, <2>1
<1>18. ASSUME NEW count \in Counts, BlockRead(count) PROVE TypeOK'
  <2>1. CASE ~Dies
    <3> DEFINE at == fcb.rr * fcb.rs
               n == IF at >= fcb.size THEN 0 ELSE WholeRecords(at, fcb.rs, count)
               res == IF ~(at >= fcb.size) /\ n = count THEN 0 ELSE 1
    <3>1. n \in Nat
      <4>1. count \in Nat /\ 0 \in Nat
        BY FileAssumption
      <4>2. size[fcb.name] = NoFile => at >= fcb.size
        BY <1>18, <2>1 DEF BlockRead, Missing
      <4>3. CASE at >= fcb.size
        BY <4>1, <4>3
      <4>4. CASE ~(at >= fcb.size)
        BY <4>1, <4>2, <4>4, BlockCount
      <4> QED
        BY <4>3, <4>4
    <3>2. /\ fcb' = [fcb EXCEPT !.rr = @ + n]
          /\ track' = [track EXCEPT !.taken = IF track.blocks THEN @ + n * fcb.rs ELSE 0]
          /\ reply' = Answer("blockRead", 0, res)
          /\ size' = size /\ alive' = alive
      BY <1>18, <2>1 DEF BlockRead
    <3> HIDE DEF n
    <3>3. n * fcb.rs \in Nat
      BY <1>1, <3>1 DEF FcbType
    <3>4. fcb' \in FcbType
      BY <1>1, <3>1, <3>2, FcbUpdates
    <3>5. track' \in TrackType
      BY <1>1, <3>2, <3>3, TrackUpdates
    <3>6. reply' \in ReplyType
      BY <3>2 DEF Answer, ReplyType
    <3> QED
      BY <1>1, <1>2, <3>2, <3>4, <3>5, <3>6
  <2> QED
    BY <1>4, <2>1
<1>19. ASSUME NEW n \in Names, MakeFcb(n) PROVE TypeOK'
  BY <1>1, <1>2, <1>19, ValueTypes, HistoryTypes, StatusTypes DEF MakeFcb
<1>20. ASSUME NEW n \in Names, OthersChange(n) PROVE TypeOK'
  <2>1. size' \in Sizes
    BY <1>1, <1>20, FileAssumption DEF OthersChange
  <2> QED
    BY <1>1, <1>2, <1>20, <2>1, HistoryTypes, StatusTypes DEF OthersChange
<1>21. ASSUME NEW rec \in 0..(MaxRec - 1), SetPosition(rec) PROVE TypeOK'
  <2>1. rec \div Radix \in Nat /\ rec % Radix \in 0..(ByteRange - 1)
    BY <1>7, Constants DEF ByteRange
  <2>2. fcb' \in FcbType
    BY <1>1, <1>21, <2>1 DEF SetPosition, FcbType
  <2> QED
    BY <1>1, <1>2, <1>7, <1>21, <2>2, HistoryTypes, StatusTypes DEF SetPosition
<1>22. ASSUME NEW rr \in {0, 1}, NEW rs \in Rates, SetBlock(rr, rs) PROVE TypeOK'
  <2>1. fcb' \in FcbType
    <3>1. rr \in Nat /\ rs \in Nat
      BY FileAssumption
    <3> QED
      BY <1>1, <1>22, <3>1 DEF SetBlock, FcbType
  <2>2. track' \in TrackType
    BY <1>1, <1>22, TrackUpdates DEF SetBlock
  <2> QED
    BY <1>1, <1>2, <1>22, <2>1, <2>2, StatusTypes DEF SetBlock
<1> QED
  BY <1>3, <1>8, <1>9, <1>10, <1>11, <1>12, <1>13, <1>14, <1>15, <1>16, <1>17, <1>18,
     <1>19, <1>20, <1>21, <1>22 DEF Next, ServerStep, ProgramStep

\* Types, among them that the record counter of the FCB stays a byte.
THEOREM FileTypesCorrect == Spec => []TypeOK
<1> QED
  BY TypeInit, TypeStep, PTL DEF Spec
-----------------------------------------------------------------------------
(* A file is read as a whole.                                              *)

\* The fields of the FCB and of the history.
LEMMA Fields ==
  ASSUME TypeOK
  PROVE  /\ fcb.name \in Names /\ fcb.ext \in Nat /\ fcb.cr \in 0..(ByteRange - 1)
         /\ fcb.rr \in Nat /\ fcb.rs \in Nat /\ fcb.size \in Nat
         /\ track.mode \in {"start", "on", "random"} /\ track.next \in Nat
         /\ track.got \in SUBSET Nat /\ track.blocks \in BOOLEAN /\ track.taken \in Nat
         /\ track.knows \in BOOLEAN /\ track.top \in Nat
         /\ size[fcb.name] \in Nat \union {-1}
         /\ DOMAIN size = Names
  BY DEF TypeOK, FcbType, TrackType, NoFile

\* What a history says after the operators of the module.
LEMMA HistoryFields ==
  ASSUME TypeOK
  PROVE  /\ \A ns : fcb.name \in ns =>
              /\ Disturbed(ns).mode = track.mode /\ Disturbed(ns).next = track.next
              /\ Disturbed(ns).got = track.got /\ Disturbed(ns).blocks = FALSE
              /\ Disturbed(ns).knows = FALSE /\ Disturbed(ns).top = 0
         /\ \A ns : fcb.name \notin ns => Disturbed(ns) = track
         /\ NotInBlocks(track).mode = track.mode /\ NotInBlocks(track).next = track.next
         /\ NotInBlocks(track).got = track.got /\ NotInBlocks(track).blocks = FALSE
         /\ NotInBlocks(track).knows = track.knows /\ NotInBlocks(track).top = track.top
  BY DEF TypeOK, TrackType, Disturbed, NotInBlocks

LEMMA WriteFields ==
  ASSUME TypeOK, NEW rec \in Nat
  PROVE  /\ AfterWrite(rec).mode = (IF track.mode = "start" THEN "on" ELSE track.mode)
         /\ AfterWrite(rec).next = track.next /\ AfterWrite(rec).blocks = FALSE
         /\ AfterWrite(rec).knows = track.knows
         /\ AfterWrite(rec).top = (IF Missing THEN track.top ELSE Larger(track.top, End(rec)))
  BY DEF TypeOK, TrackType, AfterWrite, NotInBlocks

LEMMA AgainFields ==
  ASSUME NEW t \in TrackType
  PROVE  /\ Again(t).mode = "start" => t.next = 0 /\ Again(t).got = {}
         /\ Again(t).mode # "random" <=> t.mode # "random"
         /\ Again(t).next = t.next /\ Again(t).blocks = t.blocks /\ Again(t).taken = t.taken
         /\ Again(t).top = t.top
  BY DEF TrackType, Again, At

LEMMA FitsInit == Init => FcbFitsFile
<1> SUFFICES ASSUME Init PROVE FcbFitsFile
  OBVIOUS
<1>1. /\ fcb.cr = 0 /\ fcb.ext = 0 /\ track.next = 0 /\ track.knows = FALSE
      /\ track.blocks = FALSE
  BY DEF Init, Blank, Fresh
<1>2. RecordAt(fcb) = 0
  BY <1>1, Constants DEF RecordAt
<1> QED
  BY <1>1, <1>2, Constants DEF FcbFitsFile, PositionKept, Whole

LEMMA FitsStep == TypeOK /\ FcbFitsFile /\ [Next]_vars => FcbFitsFile'
<1> SUFFICES ASSUME TypeOK, FcbFitsFile, [Next]_vars PROVE FcbFitsFile'
  OBVIOUS
\* A step that leaves the file, the position and the history as they are, and
\* the FCB covering the file as far as it did.
<1>1. ASSUME size'[fcb.name] = size[fcb.name], fcb'.name = fcb.name,
             fcb'.cr = fcb.cr, fcb'.ext = fcb.ext,
             track'.mode = track.mode, track'.next = track.next, track'.got = track.got,
             track'.knows => track.knows,
             Whole /\ track'.knows => size[fcb.name] <= fcb'.size,
             track'.blocks => track.blocks /\ track'.taken = track.taken
                              /\ fcb'.rr = fcb.rr /\ fcb'.rs = fcb.rs
      PROVE  FcbFitsFile'
  BY <1>1 DEF FcbFitsFile, PositionKept, Whole, RecordsBefore, RecordAt
<1>2. CASE UNCHANGED vars
  BY <1>2 DEF vars, FcbFitsFile, PositionKept, Whole, RecordsBefore
<1>3. CASE UNCHANGED << size, fcb, track >>
  BY <1>3 DEF FcbFitsFile, PositionKept, Whole, RecordsBefore
<1>4. CASE OpenFile
  <2>1. CASE ~Missing /\ ~Dies
    <3>1. fcb' = [fcb EXCEPT !.size = Reported(fcb.name)] /\ size' = size
          /\ track' = [Again(track) EXCEPT !.knows = TRUE]
      BY <1>4, <2>1 DEF OpenFile
    <3>2. Reported(fcb.name) = Smaller(size[fcb.name], SizeCap)
      BY <2>1 DEF Missing, Reported
    <3>3. /\ fcb'.name = fcb.name /\ fcb'.cr = fcb.cr /\ fcb'.ext = fcb.ext
          /\ fcb'.rr = fcb.rr /\ fcb'.rs = fcb.rs
          /\ fcb'.size = Smaller(size[fcb.name], SizeCap)
      BY <3>1, <3>2 DEF TypeOK, FcbType
    <3>4. /\ track'.mode = "start" => track'.next = 0 /\ track'.got = {}
          /\ track'.mode # "random" <=> track.mode # "random"
          /\ track'.next = track.next /\ track'.blocks = track.blocks
          /\ track'.taken = track.taken
      <4>1. Again(track) \in TrackType
        BY HistoryTypes
      <4> QED
        BY <3>1, <4>1, AgainFields DEF TypeOK, TrackType
    <3>5. Whole' => size[fcb.name] <= fcb'.size
      BY <3>1, <3>3, Fields, FileAssumption DEF Whole, Smaller
    <3>6. PositionKept'
      BY <3>3, <3>4 DEF FcbFitsFile, PositionKept, RecordAt
    <3>7. track'.mode = "start" => track'.got = RecordsBefore(track.next)'
      BY <3>1, <3>4, FileAssumption DEF RecordsBefore
    <3>8. size'[fcb'.name] # NoFile
      BY <2>1, <3>1, <3>3 DEF Missing
    <3> QED
      BY <3>1, <3>3, <3>4, <3>5, <3>6, <3>7, <3>8 DEF FcbFitsFile
  <2> QED
    BY <1>3, <1>4, <2>1 DEF OpenFile, Dies
<1>5. CASE CloseFile
  BY <1>3, <1>5 DEF CloseFile
<1>6. CASE CreateFile
  <2>1. CASE fcb.ext = 0
    <3> DEFINE t == Disturbed({fcb.name})
    <3>1. size' = [size EXCEPT ![fcb.name] = 0] /\ fcb' = fcb
          /\ track' = [Again(t) EXCEPT !.knows = TRUE]
      BY <1>6, <2>1 DEF CreateFile
    <3>2. t \in TrackType /\ Again(t) \in TrackType
      BY HistoryTypes
    <3>3. t.mode = track.mode /\ t.next = track.next /\ t.blocks = FALSE
      BY HistoryFields
    <3> HIDE DEF t
    <3>4. /\ track'.mode = "start" => track'.next = 0 /\ track'.got = {}
          /\ track'.mode # "random" <=> track.mode # "random"
          /\ track'.next = track.next /\ track'.blocks = FALSE
      BY <3>1, <3>2, <3>3, AgainFields DEF TrackType
    <3>5. size'[fcb.name] = 0
      BY <3>1, Fields
    <3>6. PositionKept'
      BY <3>1, <3>4 DEF FcbFitsFile, PositionKept
    <3>7. track'.mode = "start" => track'.got = RecordsBefore(track.next)'
      BY <3>4, FileAssumption DEF RecordsBefore
    <3> QED
      BY <3>1, <3>4, <3>5, <3>6, <3>7, Fields DEF FcbFitsFile, NoFile
  <2> QED
    BY <1>3, <1>6, <2>1 DEF CreateFile
<1>7. ASSUME fcb' = fcb, NEW ns, track' = Disturbed(ns),
             fcb.name \notin ns => size'[fcb.name] = size[fcb.name]
      PROVE  FcbFitsFile'
  <2>1. CASE fcb.name \in ns
    BY <1>7, <2>1, HistoryFields DEF FcbFitsFile, PositionKept, Whole
  <2>2. CASE fcb.name \notin ns
    <3>1. track' = track /\ size'[fcb.name] = size[fcb.name]
      BY <1>7, <2>2, HistoryFields
    <3> QED
      BY <1>1, <1>7, <3>1 DEF FcbFitsFile
  <2> QED
    BY <2>1, <2>2
<1>8. CASE DeleteFile
  <2>1. fcb' = fcb /\ track' = Disturbed({fcb.name})
    BY <1>8 DEF DeleteFile
  <2> QED
    BY <1>7, <2>1
<1>9. CASE GetFileSize
  <2>1. fcb' = [fcb EXCEPT !.size = Reported(fcb.name)] /\ size' = size /\ track' = track
    BY <1>9 DEF GetFileSize
  <2>2. /\ fcb'.name = fcb.name /\ fcb'.cr = fcb.cr /\ fcb'.ext = fcb.ext
        /\ fcb'.rr = fcb.rr /\ fcb'.rs = fcb.rs /\ fcb'.size = Reported(fcb.name)
    BY <2>1 DEF TypeOK, FcbType
  <2>3. Whole => size[fcb.name] <= fcb'.size
    BY <2>2, Constants, Fields, FileAssumption DEF Whole, Reported, Smaller, NoFile
  <2> QED
    BY <1>1, <2>1, <2>2, <2>3
<1>10. CASE SequentialRead
  <2>1. CASE ~Dies
    <3> DEFINE rec == RecordAt(fcb)
               read == IF Readable(rec) THEN {rec} ELSE {}
    <3>1. /\ fcb' = Advanced(fcb) /\ size' = size /\ rec < MaxRec
          /\ track' = [NotInBlocks(track) EXCEPT !.next = @ + 1,
                         !.got = IF track.mode = "start" THEN @ \union read ELSE @]
      BY <1>10, <2>1 DEF SequentialRead
    <3>2. /\ track'.mode = track.mode /\ track'.next = track.next + 1
          /\ track'.knows = track.knows /\ track'.blocks = FALSE
          /\ track'.got = IF track.mode = "start" THEN track.got \union read ELSE track.got
      <4>1. NotInBlocks(track) \in TrackType
        BY HistoryTypes
      <4> HIDE DEF read
      <4> QED
        BY <3>1, <4>1, HistoryFields DEF TrackType
    <3>3. fcb'.name = fcb.name /\ fcb'.size = fcb.size
      BY <3>1, AdvancedType DEF TypeOK
    <3>4. track.mode # "random" => fcb'.cr < Radix /\ RecordAt(fcb') = rec + 1
      BY <3>1, AdvancedPosition DEF TypeOK, FcbFitsFile, PositionKept
    <3>5. track.mode # "random" => rec = track.next
      BY DEF FcbFitsFile, PositionKept
    <3>6. Whole' /\ track'.mode = "start" => track'.got = RecordsBefore(track.next)'
      <4>0. /\ Whole' => Whole
            /\ track.mode = "start" => RecordsBefore(track.next)' = RecordsBefore(rec + 1)
        BY <3>1, <3>2, <3>3, <3>5 DEF Whole, RecordsBefore
      <4> SUFFICES ASSUME Whole, track.mode = "start"
                   PROVE  track.got \union read = RecordsBefore(rec + 1)
        BY <3>2, <4>0
      <4>1. track.got = RecordsBefore(rec) /\ size[fcb.name] <= fcb.size
        BY <3>5 DEF FcbFitsFile
      <4>2. Readable(rec) <=> rec * Radix < size[fcb.name]
        <5>1. rec * Radix \in Nat
          BY ValueTypes
        <5> QED
          BY <4>1, <5>1, Fields DEF Readable
      <4>3. rec \in 0..MaxRec
        BY <3>1, ValueTypes, FileAssumption
      <4> HIDE DEF rec
      <4> QED
        BY <4>1, <4>2, <4>3 DEF RecordsBefore
    <3> HIDE DEF rec, read
    <3>7. PositionKept'
      BY <3>2, <3>4, <3>5 DEF PositionKept
    <3>8. Whole' => size'[fcb'.name] <= fcb'.size
      BY <3>1, <3>2, <3>3 DEF FcbFitsFile, Whole
    <3>9. track'.knows => size'[fcb'.name] # NoFile
      BY <3>1, <3>2, <3>3 DEF FcbFitsFile
    <3> QED
      BY <3>2, <3>6, <3>7, <3>8, <3>9 DEF FcbFitsFile
  <2> QED
    BY <1>3, <2>1 DEF Dies
<1>11. ASSUME NEW rec \in Nat, Written(rec), rec < MaxRec
       PROVE  /\ size'[fcb.name] = size[fcb.name]
                 \/ size'[fcb.name] = Larger(size[fcb.name], End(rec))
              /\ size'[fcb.name] <= SizeCap => size[fcb.name] <= SizeCap
              /\ size[fcb.name] # NoFile => size'[fcb.name] # NoFile
  BY <1>11, ValueTypes, Fields, FileAssumption DEF Written, Grown, Larger, TypeOK, NoFile
<1>12. CASE SequentialWrite
  <2>1. CASE ~Dies
    <3> DEFINE rec == RecordAt(fcb)
    <3>0. rec \in Nat /\ End(rec) \in Nat
      BY ValueTypes
    <3>1. /\ fcb' = [Advanced(fcb) EXCEPT !.size = Larger(@, End(rec))]
          /\ track' = [AfterWrite(rec) EXCEPT !.next = @ + 1]
          /\ Written(rec) /\ rec < MaxRec
      BY <1>12, <2>1 DEF SequentialWrite
    <3>2. /\ track'.mode # "start" /\ (track'.mode = "random" <=> track.mode = "random")
          /\ track'.next = track.next + 1
          /\ track'.knows = track.knows /\ track'.blocks = FALSE
      <4>1. AfterWrite(rec) \in TrackType
        BY <3>0, HistoryTypes
      <4> QED
        BY <3>0, <3>1, <4>1, WriteFields, Fields DEF TrackType
    <3>3. /\ fcb'.name = fcb.name /\ fcb'.size = Larger(fcb.size, End(rec))
          /\ fcb'.cr = Advanced(fcb).cr /\ fcb'.ext = Advanced(fcb).ext
      <4>1. Advanced(fcb) \in FcbType /\ Advanced(fcb).name = fcb.name
            /\ Advanced(fcb).size = fcb.size
        BY AdvancedType DEF TypeOK
      <4> QED
        BY <3>1, <4>1 DEF FcbType
    <3>4. track.mode # "random" => fcb'.cr < Radix /\ RecordAt(fcb') = rec + 1
      BY <3>3, AdvancedPosition DEF TypeOK, FcbFitsFile, PositionKept, RecordAt
    <3>5. track.mode # "random" => rec = track.next
      BY DEF FcbFitsFile, PositionKept
    <3> HIDE DEF rec
    <3>6. Whole' => size'[fcb.name] <= fcb'.size
      BY <1>11, <3>0, <3>1, <3>2, <3>3, Fields DEF FcbFitsFile, Whole, Larger
    <3>7. PositionKept'
      BY <3>2, <3>4, <3>5 DEF PositionKept
    <3>8. track'.knows => size'[fcb'.name] # NoFile
      BY <1>11, <3>0, <3>1, <3>2, <3>3 DEF FcbFitsFile
    <3> QED
      BY <3>2, <3>3, <3>6, <3>7, <3>8 DEF FcbFitsFile
  <2> QED
    BY <1>3, <2>1 DEF Dies
<1>13. ASSUME NEW m \in Names, RenameFile(m) PROVE FcbFitsFile'
  <2>1. CASE Missing
    BY <1>3, <1>13, <2>1 DEF RenameFile
  <2>2. CASE ~Missing
    <3>1. fcb' = fcb /\ track' = Disturbed({fcb.name, m})
      BY <1>13, <2>2 DEF RenameFile
    <3> QED
      BY <1>7, <3>1
  <2> QED
    BY <2>1, <2>2
<1>14. ASSUME NEW rec \in 0..(MaxRec - 1), RandomRead(rec) PROVE FcbFitsFile'
  <2>1. CASE ~Dies
    <3> DEFINE asked == [fcb EXCEPT !.rr = rec]
    <3>1. asked \in FcbType /\ rec \in Nat /\ rec * Radix \in Nat
      <4>1. rec \in Nat
        BY FileAssumption
      <4> QED
        BY <4>1, FcbUpdates, ValueTypes DEF TypeOK
    <3>2. asked.name = fcb.name /\ asked.size = fcb.size /\ asked.cr = fcb.cr /\ asked.ext = fcb.ext
      BY DEF TypeOK, FcbType
    <3>3. CASE rec * Radix >= fcb.size
      <4>1. fcb' = asked /\ track' = NotInBlocks(track) /\ size' = size
        BY <1>14, <2>1, <3>3 DEF RandomRead
      <4> HIDE DEF asked
      <4> QED
        BY <1>1, <3>2, <4>1, HistoryFields DEF FcbFitsFile
    <3>4. CASE ~(rec * Radix >= fcb.size)
      <4>1. /\ fcb' = Positioned(asked, rec * Radix) /\ size' = size
            /\ track' = [NotInBlocks(track) EXCEPT !.mode = "random", !.next = rec, !.got = {}]
        BY <1>14, <2>1, <3>4 DEF RandomRead
      <4>2. fcb'.name = fcb.name /\ fcb'.size = fcb.size
        BY <3>1, <3>2, <4>1, PositionedType
      <4>3. track'.mode = "random" /\ track'.blocks = FALSE /\ track'.knows = track.knows
        <5>1. NotInBlocks(track) \in TrackType
          BY HistoryTypes
        <5> QED
          BY <4>1, <5>1, HistoryFields DEF TrackType
      <4> QED
        BY <4>1, <4>2, <4>3 DEF FcbFitsFile, PositionKept, Whole
    <3> QED
      BY <3>3, <3>4
  <2> QED
    BY <1>3, <2>1 DEF Dies
<1>15. ASSUME NEW rec \in 0..(MaxRec - 1), RandomWrite(rec) PROVE FcbFitsFile'
  <2>1. CASE ~Dies
    <3>0. rec \in Nat /\ rec < MaxRec /\ End(rec) \in Nat
      BY FileAssumption, ValueTypes
    <3>1. /\ fcb' = [fcb EXCEPT !.rr = rec] /\ Written(rec)
          /\ track' = [AfterWrite(rec) EXCEPT !.knows = @ /\ End(rec) <= fcb.size]
      BY <1>15, <2>1 DEF RandomWrite
    <3>2. /\ track'.mode # "start" /\ (track'.mode = "random" <=> track.mode = "random")
          /\ track'.next = track.next /\ track'.blocks = FALSE
          /\ track'.knows => track.knows /\ End(rec) <= fcb.size
      <4>1. AfterWrite(rec) \in TrackType
        BY <3>0, HistoryTypes
      <4> QED
        BY <3>0, <3>1, <4>1, WriteFields, Fields DEF TrackType
    <3>3. /\ fcb'.name = fcb.name /\ fcb'.size = fcb.size
          /\ fcb'.cr = fcb.cr /\ fcb'.ext = fcb.ext
      BY <3>1 DEF TypeOK, FcbType
    <3>4. Whole' => size'[fcb.name] <= fcb'.size
      BY <1>11, <3>0, <3>1, <3>2, <3>3, Fields DEF FcbFitsFile, Whole, Larger
    <3>5. PositionKept'
      BY <3>2, <3>3 DEF FcbFitsFile, PositionKept, RecordAt
    <3>6. track'.knows => size'[fcb'.name] # NoFile
      BY <1>11, <3>0, <3>1, <3>2, <3>3 DEF FcbFitsFile
    <3> QED
      BY <3>2, <3>3, <3>4, <3>5, <3>6 DEF FcbFitsFile
  <2> QED
    BY <1>3, <2>1 DEF Dies
<1>16. ASSUME NEW count \in Counts, BlockRead(count) PROVE FcbFitsFile'
  <2>1. CASE ~Dies
    <3> DEFINE at == fcb.rr * fcb.rs
               n == IF at >= fcb.size THEN 0 ELSE WholeRecords(at, fcb.rs, count)
    <3>1. /\ fcb' = [fcb EXCEPT !.rr = @ + n] /\ size' = size
          /\ track' = [track EXCEPT !.taken = IF track.blocks THEN @ + n * fcb.rs ELSE 0]
      BY <1>16, <2>1 DEF BlockRead
    <3>2. n \in Nat /\ (at <= size[fcb.name] => at + n * fcb.rs <= size[fcb.name])
                    /\ (at = 0 => n * fcb.rs = 0 \/ n * fcb.rs <= size[fcb.name])
      <4>1. count \in Nat /\ at \in Nat /\ fcb.size \in Nat
        BY FileAssumption, Fields, ValueTypes
      <4>2. size[fcb.name] = NoFile => at >= fcb.size
        BY <1>16, <2>1 DEF BlockRead, Missing
      <4>3. CASE at >= fcb.size
        <5>1. n = 0 /\ n * fcb.rs = 0
          BY <4>3, Fields
        <5> HIDE DEF n, at
        <5> QED
          BY <4>1, <5>1
      <4>4. CASE ~(at >= fcb.size)
        <5>1. size[fcb.name] # NoFile /\ n = WholeRecords(at, fcb.rs, count)
          BY <4>1, <4>2, <4>4
        <5>2. n \in 0..count /\ (at <= size[fcb.name] => at + n * fcb.rs <= size[fcb.name])
          BY <4>1, <5>1, BlockCount
        <5>3. size[fcb.name] \in Nat
          BY <5>1, Fields DEF NoFile
        <5>4. n * fcb.rs \in Nat
          BY <4>1, <5>2, Fields
        <5> HIDE DEF n, at
        <5> QED
          BY <4>1, <5>2, <5>3, <5>4
      <4> QED
        BY <4>3, <4>4
    <3>3. /\ fcb'.name = fcb.name /\ fcb'.size = fcb.size /\ fcb'.cr = fcb.cr
          /\ fcb'.ext = fcb.ext /\ fcb'.rr = fcb.rr + n /\ fcb'.rs = fcb.rs
      BY <3>1 DEF TypeOK, FcbType
    <3>4. /\ track'.mode = track.mode /\ track'.next = track.next /\ track'.got = track.got
          /\ track'.knows = track.knows /\ track'.blocks = track.blocks
          /\ track.blocks => track'.taken = track.taken + n * fcb.rs
      BY <3>1 DEF TypeOK, TrackType
    <3>5. (fcb.rr + n) * fcb.rs = at + n * fcb.rs
      BY <3>2, Fields
    <3> HIDE DEF n
    <3>6. track.blocks => track'.taken = fcb'.rr * fcb'.rs
      BY <3>3, <3>4, <3>5 DEF FcbFitsFile
    <3>7. track.blocks => track'.taken = 0 \/ track'.taken <= size[fcb.name]
      <4>1. track.blocks => at = track.taken /\ (at = 0 \/ at <= size[fcb.name])
        BY DEF FcbFitsFile
      <4>2. n * fcb.rs \in Nat /\ at \in Nat
        <5>1. n \in Nat /\ fcb.rs \in Nat /\ fcb.rr \in Nat
          BY <3>2, Fields
        <5> QED
          BY <5>1
      <4> HIDE DEF at
      <4> QED
        BY <3>2, <3>4, <4>1, <4>2, Fields
    <3>8. PositionKept' /\ (Whole' <=> Whole)
          /\ RecordsBefore(track.next)' = RecordsBefore(track.next)
      BY <3>1, <3>3, <3>4 DEF FcbFitsFile, PositionKept, RecordAt, Whole, RecordsBefore
    <3> QED
      BY <3>1, <3>3, <3>4, <3>6, <3>7, <3>8 DEF FcbFitsFile
  <2> QED
    BY <1>3, <2>1 DEF Dies
<1>17. ASSUME NEW n \in Names, MakeFcb(n) PROVE FcbFitsFile'
  <2>1. /\ fcb'.cr = 0 /\ fcb'.ext = 0 /\ track'.next = 0 /\ track'.knows = FALSE
        /\ track'.blocks = FALSE
    BY <1>17 DEF MakeFcb, Blank, Fresh
  <2>2. RecordAt(fcb') = 0
    BY <2>1, Constants DEF RecordAt
  <2> QED
    BY <2>1, <2>2, Constants DEF FcbFitsFile, PositionKept, Whole
<1>18. ASSUME NEW n \in Names, OthersChange(n) PROVE FcbFitsFile'
  <2>1. fcb' = fcb /\ track' = Disturbed({n})
    BY <1>18 DEF OthersChange
  <2>2. fcb.name # n => size'[fcb.name] = size[fcb.name]
    BY <1>18, Fields DEF OthersChange, TypeOK
  <2> QED
    BY <1>7, <2>1, <2>2
<1>19. ASSUME NEW rec \in 0..(MaxRec - 1), SetPosition(rec) PROVE FcbFitsFile'
  <2>1. rec \in Nat
    BY FileAssumption
  <2>2. fcb' = [fcb EXCEPT !.ext = rec \div Radix, !.cr = rec % Radix] /\ size' = size
        /\ track' = At(track, rec)
    BY <1>19 DEF SetPosition
  <2>3. /\ fcb'.name = fcb.name /\ fcb'.size = fcb.size /\ fcb'.rr = fcb.rr /\ fcb'.rs = fcb.rs
        /\ fcb'.ext = rec \div Radix /\ fcb'.cr = rec % Radix
    BY <2>2 DEF TypeOK, FcbType
  <2>4. /\ track'.next = rec /\ track'.got = {} /\ track'.mode = IF rec = 0 THEN "start" ELSE "on"
        /\ track'.knows = track.knows /\ track'.blocks = track.blocks
        /\ track'.taken = track.taken
    BY <2>2 DEF At, TypeOK, TrackType
  <2>5. PositionKept'
    <3>1. Radix \in Nat \ {0}
      BY FileAssumption
    <3>2. rec % Radix \in 0..(Radix - 1) /\ rec = (rec \div Radix) * Radix + (rec % Radix)
          /\ rec \div Radix \in Nat
      BY <2>1, <3>1, Split
    <3> QED
      BY <2>3, <2>4, <3>1, <3>2 DEF PositionKept, RecordAt
  <2>6. track'.mode = "start" => RecordsBefore(track.next)' = {}
    BY <2>4, FileAssumption DEF RecordsBefore
  <2> QED
    BY <2>2, <2>3, <2>4, <2>5, <2>6 DEF FcbFitsFile, Whole
<1>20. ASSUME NEW rr \in {0, 1}, NEW rs \in Rates, SetBlock(rr, rs) PROVE FcbFitsFile'
  <2>1. fcb' = [fcb EXCEPT !.rr = rr, !.rs = rs] /\ size' = size
        /\ track' = [track EXCEPT !.blocks = (rr = 0), !.taken = 0]
    BY <1>20 DEF SetBlock
  <2>2. /\ fcb'.name = fcb.name /\ fcb'.size = fcb.size /\ fcb'.cr = fcb.cr
        /\ fcb'.ext = fcb.ext /\ fcb'.rr = rr /\ fcb'.rs = rs
    BY <2>1 DEF TypeOK, FcbType
  <2>3. /\ track'.mode = track.mode /\ track'.next = track.next /\ track'.got = track.got
        /\ track'.knows = track.knows /\ track'.blocks = (rr = 0) /\ track'.taken = 0
    BY <2>1 DEF TypeOK, TrackType
  <2>4. track'.blocks => fcb'.rr * fcb'.rs = 0
    <3>1. rs \in Nat
      BY FileAssumption
    <3>2. 0 * rs = 0
      BY <3>1
    <3> QED
      BY <2>2, <2>3, <3>2
  <2>5. PositionKept' /\ (Whole' <=> Whole)
        /\ RecordsBefore(track.next)' = RecordsBefore(track.next)
    BY <2>1, <2>2, <2>3 DEF FcbFitsFile, PositionKept, RecordAt, Whole, RecordsBefore
  <2> QED
    BY <2>1, <2>2, <2>3, <2>4, <2>5 DEF FcbFitsFile
<1> QED
  BY <1>2, <1>4, <1>5, <1>6, <1>8, <1>9, <1>10, <1>12, <1>13, <1>14, <1>15, <1>16,
     <1>17, <1>18, <1>19, <1>20 DEF Next, ServerStep, ProgramStep

\* The FCB, the history and the file agree at every moment.
THEOREM FcbAlwaysFits == Spec => []FcbFitsFile
<1> QED
  BY TypeInit, TypeStep, FitsInit, FitsStep, PTL DEF Spec

\* Only reads answer like reads.
LEMMA OtherReplies ==
  ASSUME [Next]_vars
  PROVE  \/ SequentialRead /\ ~Dies
         \/ \E rec \in 0..(MaxRec - 1) : RandomRead(rec) /\ ~Dies
         \/ \E count \in Counts : BlockRead(count) /\ ~Dies
         \/ UNCHANGED vars
         \/ reply'.func \in {"none", "status", "write"}
<1>1. CASE Dies
  BY <1>1 DEF Dies, NoReply, Answer
<1>2. CASE OpenFile \/ CloseFile \/ CreateFile \/ DeleteFile \/ GetFileSize
  BY <1>1, <1>2 DEF OpenFile, CloseFile, CreateFile, DeleteFile, GetFileSize, Status, Answer
<1>3. ASSUME NEW m \in Names, RenameFile(m) PROVE reply'.func \in {"none", "status", "write"}
  BY <1>3 DEF RenameFile, Status, Answer
<1>4. CASE SequentialWrite
  <2>1. CASE ~Dies
    <3>1. reply' = Answer("write", RecordAt(fcb), IF Missing THEN 1 ELSE 0)
      BY <1>4, <2>1 DEF SequentialWrite
    <3> QED
      BY <3>1 DEF Answer
  <2> QED
    BY <1>1, <2>1
<1>5. ASSUME NEW rec \in 0..(MaxRec - 1), RandomWrite(rec)
      PROVE  reply'.func \in {"none", "status", "write"}
  <2>1. CASE ~Dies
    <3>1. reply' = Answer("write", rec, IF Missing THEN 1 ELSE 0)
      BY <1>5, <2>1 DEF RandomWrite
    <3> QED
      BY <3>1 DEF Answer
  <2>2. CASE Dies
    BY <2>2 DEF Dies, NoReply, Answer
  <2> QED
    BY <2>1, <2>2
<1>6. CASE ProgramStep
  <2>1. reply' = NoReply
    BY <1>6 DEF ProgramStep, MakeFcb, OthersChange, SetPosition, SetBlock
  <2> QED
    BY <2>1 DEF NoReply, Answer
<1> QED
  BY <1>1, <1>2, <1>3, <1>4, <1>5, <1>6 DEF Next, ServerStep

\* What a sequential and a random read leave and answer.
LEMMA SequentialReadAnswer ==
  ASSUME TypeOK, SequentialRead, ~Dies
  PROVE  /\ reply' = Answer("read", RecordAt(fcb), IF Readable(RecordAt(fcb)) THEN 0 ELSE 1)
         /\ size' = size /\ fcb'.name = fcb.name /\ fcb'.size = fcb.size
         /\ track'.knows = track.knows /\ track'.mode = track.mode
         /\ RecordAt(fcb) \in Nat /\ RecordAt(fcb) < MaxRec
         /\ track'.next = track.next + 1
<1> DEFINE rec == RecordAt(fcb)
           read == IF Readable(rec) THEN {rec} ELSE {}
<1>1. /\ fcb' = Advanced(fcb) /\ size' = size /\ rec < MaxRec
      /\ track' = [NotInBlocks(track) EXCEPT !.next = @ + 1,
                     !.got = IF track.mode = "start" THEN @ \union read ELSE @]
      /\ reply' = Answer("read", rec, IF read = {} THEN 1 ELSE 0)
  BY DEF SequentialRead
<1>2. read = {} <=> ~Readable(rec)
  OBVIOUS
<1>3. fcb'.name = fcb.name /\ fcb'.size = fcb.size
  BY <1>1, AdvancedType DEF TypeOK
<1> HIDE DEF read
<1>4. track'.knows = track.knows /\ track'.mode = track.mode /\ track'.next = track.next + 1
  <2>1. NotInBlocks(track) \in TrackType
    BY HistoryTypes
  <2> QED
    BY <1>1, <2>1, HistoryFields DEF TrackType
<1> QED
  BY <1>1, <1>2, <1>3, <1>4, ValueTypes

LEMMA RandomReadAnswer ==
  ASSUME TypeOK, NEW rec \in 0..(MaxRec - 1), RandomRead(rec), ~Dies
  PROVE  /\ reply' = Answer("randomRead", rec, IF Readable(rec) THEN 0 ELSE 1)
         /\ size' = size /\ fcb'.name = fcb.name /\ fcb'.size = fcb.size
         /\ track'.knows = track.knows
<1> DEFINE asked == [fcb EXCEPT !.rr = rec]
<1>1. asked \in FcbType /\ rec * Radix \in Nat
  <2>1. rec \in Nat
    BY FileAssumption
  <2> QED
    BY <2>1, FcbUpdates, ValueTypes DEF TypeOK
<1>2. asked.name = fcb.name /\ asked.size = fcb.size
  BY DEF TypeOK, FcbType
<1>3. fcb'.name = fcb.name /\ fcb'.size = fcb.size
  BY <1>1, <1>2, PositionedType DEF RandomRead
<1>4. track'.knows = track.knows
  <2>1. NotInBlocks(track) \in TrackType
    BY HistoryTypes
  <2> QED
    BY <2>1, HistoryFields DEF RandomRead, TrackType
<1> QED
  BY <1>3, <1>4 DEF RandomRead

\* The number of records of a block read, at or before the end of the file.
BlockGiven(count) ==
  IF fcb.rr * fcb.rs >= fcb.size THEN 0 ELSE WholeRecords(fcb.rr * fcb.rs, fcb.rs, count)

LEMMA BlockReadAnswer ==
  ASSUME TypeOK, NEW count \in Counts, BlockRead(count), ~Dies
  PROVE  /\ reply'.func = "blockRead"
         /\ reply'.result = 1 => fcb.rr * fcb.rs >= fcb.size \/ BlockGiven(count) # count
         /\ size' = size /\ fcb'.name = fcb.name /\ fcb'.size = fcb.size /\ fcb'.rs = fcb.rs
         /\ track'.knows = track.knows /\ track'.blocks = track.blocks
         /\ track.blocks => track'.taken = track.taken + BlockGiven(count) * fcb.rs
         /\ Missing => fcb.rr * fcb.rs >= fcb.size
<1>1. /\ fcb' = [fcb EXCEPT !.rr = @ + BlockGiven(count)] /\ size' = size
      /\ track' = [track EXCEPT !.taken =
           IF track.blocks THEN @ + BlockGiven(count) * fcb.rs ELSE 0]
      /\ Missing => fcb.rr * fcb.rs >= fcb.size
  BY DEF BlockRead, BlockGiven
<1>2. reply' = Answer("blockRead", 0,
         IF ~(fcb.rr * fcb.rs >= fcb.size) /\ BlockGiven(count) = count THEN 0 ELSE 1)
  BY DEF BlockRead, BlockGiven
<1>3. reply'.func = "blockRead"
      /\ (reply'.result = 1 => fcb.rr * fcb.rs >= fcb.size \/ BlockGiven(count) # count)
  BY <1>2 DEF Answer
<1> QED
  BY <1>1, <1>3 DEF TypeOK, FcbType, TrackType

LEMMA EndStep == TypeOK /\ FcbFitsFile /\ ReadsTellTheEnd /\ [Next]_vars => ReadsTellTheEnd'
<1> SUFFICES ASSUME TypeOK, FcbFitsFile, ReadsTellTheEnd, [Next]_vars PROVE ReadsTellTheEnd'
  OBVIOUS
<1>1. ASSUME NEW rec \in Nat, reply'.rec = rec, size' = size, fcb'.name = fcb.name,
             reply'.result = IF Readable(rec) THEN 0 ELSE 1, track'.knows = track.knows
      PROVE  ReadsTellTheEnd'
  <2>1. Whole' <=> Whole
    BY <1>1 DEF Whole
  <2>2. Whole => size[fcb.name] <= fcb.size
    BY DEF FcbFitsFile
  <2>3. rec * Radix \in Nat
    BY ValueTypes
  <2>4. Whole /\ ~Readable(rec) => rec * Radix >= size[fcb.name]
    BY <2>2, <2>3, Fields DEF Readable
  <2>5. Readable(rec) => rec * Radix < size[fcb.name]
    BY DEF Readable
  <2> QED
    BY <1>1, <2>1, <2>4, <2>5 DEF ReadsTellTheEnd
<1>2. CASE SequentialRead /\ ~Dies
  BY <1>1, <1>2, SequentialReadAnswer DEF Answer
<1>3. ASSUME NEW rec \in 0..(MaxRec - 1), RandomRead(rec), ~Dies PROVE ReadsTellTheEnd'
  <2>1. rec \in Nat
    BY FileAssumption
  <2> QED
    BY <1>1, <1>3, <2>1, RandomReadAnswer DEF Answer
<1>4. ASSUME NEW count \in Counts, BlockRead(count), ~Dies PROVE ReadsTellTheEnd'
  BY <1>4, BlockReadAnswer DEF Answer, ReadsTellTheEnd
<1>5. CASE UNCHANGED vars
  BY <1>5 DEF vars, ReadsTellTheEnd, Whole
<1>6. CASE reply'.func \in {"none", "status", "write"}
  BY <1>6 DEF ReadsTellTheEnd
<1> QED
  BY <1>2, <1>3, <1>4, <1>5, <1>6, OtherReplies

LEMMA WholeReadStep ==
  TypeOK /\ FcbFitsFile /\ FcbFitsFile' /\ ReadsTellTheEnd' /\ WholeFileRead /\ [Next]_vars
    => WholeFileRead'
<1> SUFFICES ASSUME TypeOK, FcbFitsFile, FcbFitsFile', ReadsTellTheEnd', WholeFileRead,
                    [Next]_vars
             PROVE  WholeFileRead'
  OBVIOUS
<1>1. CASE SequentialRead /\ ~Dies
  <2> SUFFICES ASSUME reply'.result = 1, Whole', track'.mode = "start"
               PROVE  track'.got = { r \in 0..MaxRec : r * Radix < size'[fcb'.name] }
    BY DEF WholeFileRead
  <2> DEFINE rec == RecordAt(fcb)
  <2>1. /\ rec \in Nat /\ reply'.rec = rec /\ reply'.func = "read"
        /\ rec = track.next /\ track'.next = rec + 1
    BY <1>1, SequentialReadAnswer DEF Answer, FcbFitsFile, PositionKept
  <2>2. rec * Radix >= size'[fcb'.name]
    BY <2>1 DEF ReadsTellTheEnd
  <2>3. track'.got = { r \in 0..MaxRec : r < rec + 1 /\ r * Radix < size'[fcb'.name] }
    BY <2>1 DEF FcbFitsFile, RecordsBefore
  <2>4. size'[fcb'.name] \in Int
    BY <1>1, SequentialReadAnswer, Fields
  <2> HIDE DEF rec
  <2>5. \A r \in 0..MaxRec : r * Radix < size'[fcb'.name] => r < rec + 1
    <3> SUFFICES ASSUME NEW r \in 0..MaxRec, rec <= r
                 PROVE  ~(r * Radix < size'[fcb'.name])
      BY <2>1, FileAssumption
    <3>1. r \in Nat /\ Radix \in Nat
      BY FileAssumption
    <3>2. rec * Radix <= r * Radix /\ rec * Radix \in Nat /\ r * Radix \in Nat
      BY <2>1, <3>1, Multiples
    <3> QED
      BY <2>2, <2>4, <3>2
  <2> QED
    BY <2>3, <2>5
<1>2. ASSUME NEW rec \in 0..(MaxRec - 1), RandomRead(rec), ~Dies PROVE WholeFileRead'
  BY <1>2, RandomReadAnswer DEF Answer, WholeFileRead
<1>3. ASSUME NEW count \in Counts, BlockRead(count), ~Dies PROVE WholeFileRead'
  BY <1>3, BlockReadAnswer DEF Answer, WholeFileRead
<1>4. CASE UNCHANGED vars
  BY <1>4 DEF vars, WholeFileRead, Whole
<1>5. CASE reply'.func \in {"none", "status", "write"}
  BY <1>5 DEF WholeFileRead
<1> QED
  BY <1>1, <1>2, <1>3, <1>4, <1>5, OtherReplies

LEMMA WholeBlocksStep ==
  TypeOK /\ FcbFitsFile /\ FcbFitsFile' /\ WholeFileInBlocks /\ [Next]_vars
    => WholeFileInBlocks'
<1> SUFFICES ASSUME TypeOK, FcbFitsFile, FcbFitsFile', WholeFileInBlocks, [Next]_vars
             PROVE  WholeFileInBlocks'
  OBVIOUS
<1>1. ASSUME NEW count \in Counts, BlockRead(count), ~Dies PROVE WholeFileInBlocks'
  <2> SUFFICES ASSUME reply'.result = 1, Whole', track'.blocks, fcb'.rs # 0
               PROVE  track'.taken = size'[fcb'.name] - (size'[fcb'.name] % fcb'.rs)
    BY DEF WholeFileInBlocks
  <2> DEFINE g == BlockGiven(count)
             at == fcb.rr * fcb.rs
             s == size[fcb.name]
             k == fcb'.rr
  <2>1. /\ at >= fcb.size \/ g # count
        /\ size' = size /\ fcb'.name = fcb.name /\ fcb'.rs = fcb.rs
        /\ track.blocks /\ Whole /\ track'.taken = at + g * fcb.rs
    BY <1>1, BlockReadAnswer DEF FcbFitsFile, Whole
  <2>2. track'.taken = k * fcb.rs /\ (track'.taken = 0 \/ track'.taken <= s) /\ k \in Nat
    BY <1>1, <2>1, TypeStep DEF FcbFitsFile, TypeOK, FcbType
  <2>3. s \in Nat /\ s <= fcb.size /\ fcb.size \in Nat
    BY <2>1, Fields DEF FcbFitsFile, Whole, NoFile
  <2>4. fcb.rs \in Nat \ {0} /\ at \in Nat /\ count \in Nat
    BY <2>1, Fields, FileAssumption, ValueTypes
  <2>5. s < track'.taken + fcb.rs
    <3>1. CASE at >= s /\ g = 0
      <4>1. g * fcb.rs = 0
        BY <2>4, <3>1
      <4> HIDE DEF g, at, s
      <4> QED
        BY <2>1, <2>3, <2>4, <3>1, <4>1
    <3>2. CASE at >= fcb.size
      <4>1. g = 0
        BY <3>2 DEF BlockGiven
      <4>2. at >= s
        BY <2>3, <2>4, <3>2
      <4> QED
        BY <3>1, <4>1, <4>2
    <3>3. CASE ~(at >= fcb.size) /\ s <= at
      <4>1. g = 0
        BY <3>3 DEF BlockGiven, WholeRecords
      <4>2. at >= s
        BY <2>3, <2>4, <3>3
      <4> QED
        BY <3>1, <4>1, <4>2
    <3>4. CASE ~(at >= fcb.size) /\ ~(s <= at)
      <4> DEFINE q == (s - at) \div fcb.rs
      <4>1. g = Smaller(count, q)
        BY <2>4, <3>4 DEF BlockGiven, WholeRecords
      <4>2. s - at \in Nat
        BY <2>3, <2>4, <3>4
      <4>3. q \in Nat /\ s - at < q * fcb.rs + fcb.rs
        BY <2>4, <4>2, Split
      <4> HIDE DEF g, q, at, s
      <4>4. g = q
        BY <2>1, <3>4, <4>1 DEF Smaller
      <4>5. q * fcb.rs \in Nat
        BY <2>4, <4>3
      <4> QED
        BY <2>1, <2>3, <2>4, <4>3, <4>4, <4>5
    <3> QED
      BY <3>2, <3>3, <3>4
  <2> HIDE DEF g, at, s, k
  <2>6. k * fcb.rs <= s /\ s < k * fcb.rs + fcb.rs
    BY <2>2, <2>3, <2>5
  <2>7. k * fcb.rs = s - (s % fcb.rs)
    BY <2>2, <2>3, <2>4, <2>6, WholePart
  <2>8. size'[fcb'.name] = s /\ fcb'.rs = fcb.rs
    BY <2>1 DEF s
  <2> QED
    BY <2>2, <2>7, <2>8
<1>2. CASE SequentialRead /\ ~Dies
  BY <1>2, SequentialReadAnswer DEF Answer, WholeFileInBlocks
<1>3. ASSUME NEW rec \in 0..(MaxRec - 1), RandomRead(rec), ~Dies PROVE WholeFileInBlocks'
  BY <1>3, RandomReadAnswer DEF Answer, WholeFileInBlocks
<1>4. CASE UNCHANGED vars
  BY <1>4 DEF vars, WholeFileInBlocks, Whole
<1>5. CASE reply'.func \in {"none", "status", "write"}
  BY <1>5 DEF WholeFileInBlocks
<1> QED
  BY <1>1, <1>2, <1>3, <1>4, <1>5, OtherReplies

\* A read that succeeds gives a record of the file; one that fails was at the
\* end of it, if nobody else changed the file.
THEOREM ReadsTellEnd == Spec => []ReadsTellTheEnd
<1>1. Init => ReadsTellTheEnd
  BY DEF Init, NoReply, Answer, ReadsTellTheEnd
<1> QED
  BY <1>1, TypeInit, TypeStep, FitsInit, FitsStep, EndStep, PTL DEF Spec

\* A file read from its first record to the end reported has been read whole.
THEOREM FileReadWhole == Spec => []WholeFileRead
<1>1. Init => WholeFileRead /\ ReadsTellTheEnd
  BY DEF Init, NoReply, Answer, WholeFileRead, ReadsTellTheEnd
<1> QED
  BY <1>1, TypeInit, TypeStep, FitsInit, FitsStep, EndStep, WholeReadStep, PTL DEF Spec

\* A file read in blocks from its first byte to the end reported has been read
\* whole, up to the last record that the file fills.
THEOREM FileReadWholeInBlocks == Spec => []WholeFileInBlocks
<1>1. Init => WholeFileInBlocks
  BY DEF Init, NoReply, Answer, WholeFileInBlocks
<1> QED
  BY <1>1, TypeInit, TypeStep, FitsInit, FitsStep, WholeBlocksStep, PTL DEF Spec

\* ReadsComplete: both ways of reading give the whole file.
THEOREM FilesReadToTheEnd == Spec => []ReadsComplete
<1>1. WholeFileRead /\ WholeFileInBlocks => ReadsComplete
  BY DEF ReadsComplete
<1> QED
  BY <1>1, FileReadWhole, FileReadWholeInBlocks, PTL

-----------------------------------------------------------------------------
(* What was written stays.                                                 *)

LEMMA KeptStep ==
  ASSUME ~MayFill
  PROVE  TypeOK /\ RecordsKept /\ [Next]_vars => RecordsKept'
<1> SUFFICES ASSUME TypeOK, RecordsKept, [Next]_vars PROVE RecordsKept'
  OBVIOUS
<1>1. ASSUME fcb'.name = fcb.name, size'[fcb.name] = size[fcb.name], track'.top = track.top
      PROVE  RecordsKept'
  BY <1>1 DEF RecordsKept
<1>2. ASSUME track'.top = 0 PROVE RecordsKept'
  BY <1>2 DEF RecordsKept
<1>3. CASE UNCHANGED vars
  BY <1>1, <1>3 DEF vars
<1>4. CASE UNCHANGED << size, fcb, track >>
  BY <1>1, <1>4
<1>5. ASSUME NEW ns, track' = Disturbed(ns), fcb'.name = fcb.name,
             fcb.name \notin ns => size'[fcb.name] = size[fcb.name]
      PROVE  RecordsKept'
  BY <1>1, <1>2, <1>5, HistoryFields
<1>6. ASSUME NEW rec \in Nat, Written(rec), fcb'.name = fcb.name,
             track'.top = AfterWrite(rec).top
      PROVE  RecordsKept'
  <2>1. CASE Missing
    <3>1. size' = size
      BY <1>6, <2>1 DEF Written
    <3> QED
      BY <1>1, <1>6, <2>1, <3>1, WriteFields
  <2>2. CASE ~Missing
    <3>1. size'[fcb.name] = Larger(size[fcb.name], End(rec))
      BY <1>6, <2>2, Fields DEF Written, Grown
    <3>2. track'.top = Larger(track.top, End(rec)) /\ End(rec) \in Nat
      BY <1>6, <2>2, WriteFields, ValueTypes
    <3>3. size[fcb.name] \in Nat
      BY <2>2, Fields DEF Missing, NoFile
    <3> QED
      BY <1>6, <3>1, <3>2, <3>3, Fields DEF RecordsKept, Larger
  <2> QED
    BY <2>1, <2>2
<1>7. CASE OpenFile
  <2>1. CASE ~Missing /\ ~Dies
    <3>1. fcb' = [fcb EXCEPT !.size = Reported(fcb.name)] /\ size' = size
          /\ track' = [Again(track) EXCEPT !.knows = TRUE]
      BY <1>7, <2>1 DEF OpenFile
    <3>2. fcb'.name = fcb.name
      BY <3>1 DEF TypeOK, FcbType
    <3>3. track'.top = track.top
      <4>1. Again(track) \in TrackType
        BY HistoryTypes
      <4> QED
        BY <3>1, <4>1, AgainFields DEF TypeOK, TrackType
    <3> QED
      BY <1>1, <3>1, <3>2, <3>3
  <2> QED
    BY <1>4, <1>7, <2>1 DEF OpenFile, Dies
<1>8. CASE CloseFile
  BY <1>4, <1>8 DEF CloseFile
<1>9. CASE CreateFile
  <2>1. CASE fcb.ext = 0
    <3> DEFINE t == Disturbed({fcb.name})
    <3>1. track' = [Again(t) EXCEPT !.knows = TRUE]
      BY <1>9, <2>1 DEF CreateFile
    <3>2. t \in TrackType /\ Again(t) \in TrackType /\ t.top = 0
      BY HistoryTypes, HistoryFields
    <3> HIDE DEF t
    <3>3. track'.top = 0
      BY <3>1, <3>2, AgainFields DEF TrackType
    <3> QED
      BY <1>2, <3>3
  <2> QED
    BY <1>4, <1>9, <2>1 DEF CreateFile
<1>10. CASE DeleteFile
  <2>1. fcb' = fcb /\ track' = Disturbed({fcb.name})
    BY <1>10 DEF DeleteFile
  <2> QED
    BY <1>5, <2>1
<1>11. CASE GetFileSize
  <2>1. fcb' = [fcb EXCEPT !.size = Reported(fcb.name)] /\ size' = size /\ track' = track
    BY <1>11 DEF GetFileSize
  <2>2. fcb'.name = fcb.name
    BY <2>1 DEF TypeOK, FcbType
  <2> QED
    BY <1>1, <2>1, <2>2
<1>12. CASE SequentialRead
  <2>1. CASE ~Dies
    <3>1. track'.top = NotInBlocks(track).top
      <4>1. NotInBlocks(track) \in TrackType
        BY HistoryTypes
      <4>2. track' = [NotInBlocks(track) EXCEPT !.next = track'.next, !.got = track'.got]
        BY <1>12, <2>1, <4>1 DEF SequentialRead, TrackType
      <4> QED
        BY <4>1, <4>2 DEF TrackType
    <3> QED
      BY <1>1, <1>12, <2>1, <3>1, SequentialReadAnswer, HistoryFields
  <2> QED
    BY <1>4, <2>1 DEF Dies
<1>13. CASE SequentialWrite
  <2>1. CASE ~Dies
    <3> DEFINE rec == RecordAt(fcb)
    <3>1. /\ fcb' = [Advanced(fcb) EXCEPT !.size = Larger(@, End(rec))]
          /\ track' = [AfterWrite(rec) EXCEPT !.next = @ + 1] /\ Written(rec)
      BY <1>13, <2>1 DEF SequentialWrite
    <3>2. rec \in Nat
      BY ValueTypes
    <3>3. fcb'.name = fcb.name
      <4>1. Advanced(fcb) \in FcbType /\ Advanced(fcb).name = fcb.name
        BY AdvancedType DEF TypeOK
      <4> QED
        BY <3>1, <4>1 DEF FcbType
    <3>4. track'.top = AfterWrite(rec).top
      <4>1. AfterWrite(rec) \in TrackType
        BY <3>2, HistoryTypes
      <4> QED
        BY <3>1, <4>1 DEF TrackType
    <3> QED
      BY <1>6, <3>1, <3>2, <3>3, <3>4
  <2> QED
    BY <1>4, <2>1 DEF Dies
<1>14. ASSUME NEW m \in Names, RenameFile(m) PROVE RecordsKept'
  <2>1. CASE Missing
    BY <1>4, <1>14, <2>1 DEF RenameFile
  <2>2. CASE ~Missing
    <3>1. fcb' = fcb /\ track' = Disturbed({fcb.name, m})
      BY <1>14, <2>2 DEF RenameFile
    <3> QED
      BY <1>5, <3>1
  <2> QED
    BY <2>1, <2>2
<1>15. ASSUME NEW rec \in 0..(MaxRec - 1), RandomRead(rec) PROVE RecordsKept'
  <2>1. CASE ~Dies
    <3>1. track'.top = track.top
      <4>1. NotInBlocks(track) \in TrackType
        BY HistoryTypes
      <4> QED
        BY <1>15, <2>1, <4>1, HistoryFields DEF RandomRead, TrackType
    <3> QED
      BY <1>1, <1>15, <2>1, <3>1, RandomReadAnswer
  <2> QED
    BY <1>4, <2>1 DEF Dies
<1>16. ASSUME NEW rec \in 0..(MaxRec - 1), RandomWrite(rec) PROVE RecordsKept'
  <2>1. CASE ~Dies
    <3>1. rec \in Nat
      BY FileAssumption
    <3>2. /\ fcb' = [fcb EXCEPT !.rr = rec] /\ Written(rec)
          /\ track' = [AfterWrite(rec) EXCEPT !.knows = @ /\ End(rec) <= fcb.size]
      BY <1>16, <2>1 DEF RandomWrite
    <3>3. fcb'.name = fcb.name
      BY <3>2 DEF TypeOK, FcbType
    <3>4. track'.top = AfterWrite(rec).top
      <4>1. AfterWrite(rec) \in TrackType
        BY <3>1, HistoryTypes
      <4> QED
        BY <3>2, <4>1 DEF TrackType
    <3> QED
      BY <1>6, <3>1, <3>2, <3>3, <3>4
  <2> QED
    BY <1>4, <2>1 DEF Dies
<1>17. ASSUME NEW count \in Counts, BlockRead(count) PROVE RecordsKept'
  <2>1. CASE ~Dies
    <3>1. track'.top = track.top
      BY <1>17, <2>1 DEF BlockRead, TypeOK, TrackType
    <3> QED
      BY <1>1, <1>17, <2>1, <3>1, BlockReadAnswer
  <2> QED
    BY <1>4, <2>1 DEF Dies
<1>18. ASSUME NEW n \in Names, MakeFcb(n) PROVE RecordsKept'
  BY <1>2, <1>18 DEF MakeFcb, Fresh
<1>19. ASSUME NEW n \in Names, OthersChange(n) PROVE RecordsKept'
  <2>1. fcb' = fcb /\ track' = Disturbed({n})
    BY <1>19 DEF OthersChange
  <2>2. fcb.name # n => size'[fcb.name] = size[fcb.name]
    BY <1>19, Fields DEF OthersChange, TypeOK
  <2> QED
    BY <1>5, <2>1, <2>2
<1>20. ASSUME NEW rec \in 0..(MaxRec - 1), SetPosition(rec) PROVE RecordsKept'
  <2>1. fcb'.name = fcb.name /\ size' = size
    BY <1>20 DEF SetPosition, TypeOK, FcbType
  <2>2. track'.top = track.top
    BY <1>20 DEF SetPosition, At, TypeOK, TrackType
  <2> QED
    BY <1>1, <2>1, <2>2
<1>21. ASSUME NEW rr \in {0, 1}, NEW rs \in Rates, SetBlock(rr, rs) PROVE RecordsKept'
  <2>1. fcb'.name = fcb.name /\ size' = size
    BY <1>21 DEF SetBlock, TypeOK, FcbType
  <2>2. track'.top = track.top
    BY <1>21 DEF SetBlock, TypeOK, TrackType
  <2> QED
    BY <1>1, <2>1, <2>2
<1> QED
  BY <1>3, <1>7, <1>8, <1>9, <1>10, <1>11, <1>12, <1>13, <1>14, <1>15, <1>16, <1>17,
     <1>18, <1>19, <1>20, <1>21 DEF Next, ServerStep, ProgramStep

\* Unless the disk of the host may be full, what was written with success stays
\* in the file for as long as nobody else changes it.
THEOREM WritesStay ==
  ASSUME ~MayFill
  PROVE  Spec => []RecordsKept
<1>1. Init => RecordsKept
  BY DEF Init, Fresh, RecordsKept
<1> QED
  BY <1>1, TypeInit, TypeStep, KeptStep, PTL DEF Spec
=============================================================================
