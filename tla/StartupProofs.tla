--------------------------- MODULE StartupProofs ---------------------------
(***************************************************************************)
(* Proofs about Startup, for any layout of the memory: the loader survives *)
(* the upload, memory is what the host has sent, and the warm boot starts  *)
(* nothing but COMMAND.COM.                                                *)
(***************************************************************************)
EXTENDS Startup, SequenceTheorems, TLAPS

-----------------------------------------------------------------------------
(* The regions.                                                            *)

LEMMA Sizes ==
  /\ MemSize \in Nat /\ 2 <= MemSize /\ ZeroLen \in Nat /\ NetAt \in Nat /\ WorkArea \in Nat
  /\ 1 <= ZeroLen /\ ZeroLen <= NetAt /\ NetAt <= WorkArea /\ WorkArea <= MemSize
  /\ ComMax \in Nat /\ 1 <= ComMax /\ ComMax <= MemSize
BY StartupAssumption

LEMMA LayoutFields ==
  ASSUME lay \in Layouts
  PROVE  /\ lay.start \in Nat /\ lay.start <= MemSize
         /\ lay.boot \in Nat /\ lay.boot <= MemSize
         /\ lay.bootEnd \in Nat /\ lay.bootEnd <= MemSize
         /\ lay.net \in Nat /\ 1 <= lay.net /\ lay.net <= MemSize
         /\ lay.com \in Nat /\ lay.stack \in Nat /\ 2 <= lay.stack /\ lay.stack <= MemSize
BY StartupAssumption

\* Regions of which all bytes come from the memory's image or a file's beginning.
AnyRegion ==
  { r \in [at : Nat, len : Int, what : {"image", "net", "com"}, from : Nat] :
      /\ r.at <= MemSize /\ r.from <= MemSize
      /\ r.len <= MemSize /\ r.from + r.len <= MemSize }

\* Regions that are not empty, fit the memory and miss the loader.
GoodRegion ==
  { r \in AnyRegion :
      /\ r.len # 0 /\ r.len \in Nat /\ r.len < MemSize /\ r.at + r.len <= MemSize
      /\ \A a \in Int : r.at <= a /\ a < r.at + r.len => a \notin Loader }

LEMMA RegionFields ==
  ASSUME NEW r \in AnyRegion
  PROVE  /\ r.at \in Nat /\ r.len \in Int /\ r.what \in {"image", "net", "com"} /\ r.from \in Nat
         /\ r.at <= MemSize /\ r.from <= MemSize
         /\ r.len <= MemSize /\ r.from + r.len <= MemSize
BY DEF AnyRegion

\* What Bootstrap's three parts of the sequence are made of.
Kernel ==
  IF lay.boot - lay.start > 0
    THEN << Image(lay.start, lay.boot - lay.start),
            Image(lay.bootEnd, WorkArea - lay.bootEnd) >>
    ELSE << Image(lay.start, WorkArea - lay.start) >>
Program ==
  IF lay.com > 0 THEN << File(ZeroLen, LeastOf(lay.com, ComMax), "com") >> ELSE << >>

LEMMA FourParts ==
  ASSUME NEW S, NEW s \in Seq(S), NEW t \in Seq(S), NEW u \in Seq(S), NEW v \in Seq(S),
         Len(s) = 1, Len(t) \in {1, 2}, Len(u) = 1, Len(v) \in {0, 1}
  PROVE  s \o t \o u \o v \in Seq(S) /\ Len(s \o t \o u \o v) \in 1..5
<1> DEFINE a == s \o t
<1>1. a \in Seq(S) /\ Len(a) = Len(s) + Len(t)
  BY ConcatProperties
<1> HIDE DEF a
<1> DEFINE b == a \o u
<1>2. b \in Seq(S) /\ Len(b) = Len(a) + Len(u)
  BY <1>1, ConcatProperties
<1> HIDE DEF b
<1> DEFINE c == b \o v
<1>3. c \in Seq(S) /\ Len(c) = Len(b) + Len(v)
  BY <1>2, ConcatProperties
<1> HIDE DEF c
<1>4. Len(c) \in 1..5
  <2>1. \A ls, lt, lu, lv, la, lb, lc :
          (/\ la = ls + lt /\ lb = la + lu /\ lc = lb + lv
           /\ ls = 1 /\ lt \in {1, 2} /\ lu = 1 /\ lv \in {0, 1}) => lc \in 1..5
    OBVIOUS
  <2> QED
    BY <1>1, <1>2, <1>3, <2>1, Zenon
<1>5. c = s \o t \o u \o v
  BY DEF a, b, c
<1> QED
  BY <1>3, <1>4, <1>5

\* A set that has all regions of a layout has the sequence.
LEMMA RegionsIn ==
  ASSUME NEW S,
         Image(0, ZeroLen) \in S,
         lay.boot - lay.start > 0 =>
           /\ Image(lay.start, lay.boot - lay.start) \in S
           /\ Image(lay.bootEnd, WorkArea - lay.bootEnd) \in S,
         ~(lay.boot - lay.start > 0) => Image(lay.start, WorkArea - lay.start) \in S,
         File(NetAt, lay.net, "net") \in S,
         lay.com > 0 => File(ZeroLen, LeastOf(lay.com, ComMax), "com") \in S
  PROVE  Regions \in Seq(S) /\ Len(Regions) \in 1..5
<1> DEFINE z == Image(0, ZeroLen)
           n == File(NetAt, lay.net, "net")
<1>1. << z >> \in Seq(S) /\ Len(<< z >>) = 1
  OBVIOUS
<1>2. << n >> \in Seq(S) /\ Len(<< n >>) = 1
  OBVIOUS
<1>3. Kernel \in Seq(S) /\ Len(Kernel) \in {1, 2}
  <2>1. CASE lay.boot - lay.start > 0
    <3> DEFINE x == Image(lay.start, lay.boot - lay.start)
               y == Image(lay.bootEnd, WorkArea - lay.bootEnd)
    <3>1. x \in S /\ y \in S /\ Kernel = << x, y >>
      BY <2>1 DEF Kernel
    <3> HIDE DEF x, y
    <3> QED
      BY <3>1
  <2>2. CASE ~(lay.boot - lay.start > 0)
    <3> DEFINE x == Image(lay.start, WorkArea - lay.start)
    <3>1. x \in S /\ Kernel = << x >>
      BY <2>2 DEF Kernel
    <3> HIDE DEF x
    <3> QED
      BY <3>1
  <2> QED
    BY <2>1, <2>2
<1>4. Program \in Seq(S) /\ Len(Program) \in {0, 1}
  <2>1. CASE lay.com > 0
    <3> DEFINE x == File(ZeroLen, LeastOf(lay.com, ComMax), "com")
    <3>1. x \in S /\ Program = << x >>
      BY <2>1 DEF Program
    <3> HIDE DEF x
    <3> QED
      BY <3>1
  <2>2. CASE ~(lay.com > 0)
    BY <2>2 DEF Program
  <2> QED
    BY <2>1, <2>2
<1> HIDE DEF z, n
<1>5. Regions = << z >> \o Kernel \o << n >> \o Program
  BY DEF Regions, Kernel, Program, z, n
<1> QED
  BY <1>1, <1>2, <1>3, <1>4, <1>5, FourParts

LEMMA AnyLayout ==
  ASSUME lay \in Layouts
  PROVE  Regions \in Seq(AnyRegion) /\ Len(Regions) \in 1..5
<1>1. Image(0, ZeroLen) \in AnyRegion
  BY Sizes, LayoutFields DEF Image, AnyRegion
<1>2. lay.boot - lay.start > 0 =>
        /\ Image(lay.start, lay.boot - lay.start) \in AnyRegion
        /\ Image(lay.bootEnd, WorkArea - lay.bootEnd) \in AnyRegion
  BY Sizes, LayoutFields DEF Image, AnyRegion
<1>3. Image(lay.start, WorkArea - lay.start) \in AnyRegion
  BY Sizes, LayoutFields DEF Image, AnyRegion
<1>4. File(NetAt, lay.net, "net") \in AnyRegion
  BY Sizes, LayoutFields DEF File, AnyRegion
<1>5. lay.com > 0 => File(ZeroLen, LeastOf(lay.com, ComMax), "com") \in AnyRegion
  BY Sizes, LayoutFields DEF File, AnyRegion, LeastOf
<1> QED
  BY <1>1, <1>2, <1>3, <1>4, <1>5, RegionsIn

\* The conditions Fits are what makes the upload safe.
LEMMA GoodLayout ==
  ASSUME lay \in Layouts, Fits
  PROVE  Regions \in Seq(GoodRegion)
<1>1. Image(0, ZeroLen) \in GoodRegion
  BY Sizes, LayoutFields DEF Image, AnyRegion, GoodRegion, Fits, Loader
<1>2. lay.boot - lay.start > 0 =>
        /\ Image(lay.start, lay.boot - lay.start) \in GoodRegion
        /\ Image(lay.bootEnd, WorkArea - lay.bootEnd) \in GoodRegion
  BY Sizes, LayoutFields DEF Image, AnyRegion, GoodRegion, Fits, Loader
<1>3. ~(lay.boot - lay.start > 0) => Image(lay.start, WorkArea - lay.start) \in GoodRegion
  BY Sizes, LayoutFields DEF Image, AnyRegion, GoodRegion, Fits, Loader
<1>4. File(NetAt, lay.net, "net") \in GoodRegion
  BY Sizes, LayoutFields DEF File, AnyRegion, GoodRegion, Fits, Loader
<1>5. lay.com > 0 => File(ZeroLen, LeastOf(lay.com, ComMax), "com") \in GoodRegion
  BY Sizes, LayoutFields DEF File, AnyRegion, GoodRegion, Fits, Loader, LeastOf
<1> QED
  BY <1>1, <1>2, <1>3, <1>4, <1>5, RegionsIn

LEMMA RegionAt ==
  ASSUME lay \in Layouts, NEW i \in 1..Len(Regions)
  PROVE  Regions[i] \in AnyRegion /\ (Fits => Regions[i] \in GoodRegion)
BY AnyLayout, GoodLayout, ElementOfSeq

-----------------------------------------------------------------------------
(* Types.                                                                  *)

Phases == {"cmd", "addr", "len", "data", "launch", "lost", "check", "open",
           "load", "run", "prompt", "stray", "hung"}
Sendable == {"word", "image", "net", "com"} \X (0..MemSize)

TypeInv ==
  /\ TypeOK
  /\ region <= Len(Regions) => sent <= LastItem(Regions[region])

LEMMA ItemType ==
  ASSUME NEW r \in AnyRegion, NEW i \in Nat, i <= LastItem(r)
  PROVE  Item(r, i) \in Sendable
<1> USE Sizes, RegionFields
<1>1. CASE i = 0
  BY <1>1 DEF Item, Word, Sendable
<1>2. CASE i = 1
  BY <1>2 DEF Item, Word, Sendable
<1>3. CASE i = 2
  <2>1. r.len % MemSize \in 0..MemSize
    OBVIOUS
  <2> QED
    BY <1>3, <2>1 DEF Item, Word, Sendable
<1>4. CASE i > 2
  <2>1. r.len > 0 /\ i <= r.len + 2
    BY <1>4 DEF LastItem
  <2>2. r.from + i - 3 \in 0..MemSize
    BY <1>4, <2>1
  <2>3. Item(r, i) = << r.what, r.from + i - 3 >>
    BY <1>4 DEF Item
  <2> QED
    BY <2>2, <2>3 DEF Sendable
<1> QED
  BY <1>1, <1>2, <1>3, <1>4

LEMMA SendTypes == TypeInv /\ SendItem => TypeInv'
<1> SUFFICES ASSUME TypeInv, SendItem PROVE TypeInv'
  OBVIOUS
<1>1. /\ lay \in Layouts /\ Len(Regions) \in 1..5 /\ region \in Nat /\ sent \in Nat
      /\ region >= 1 /\ sent <= MemSize + 2
  BY AnyLayout DEF TypeInv, TypeOK
<1>2. Regions' = Regions
  BY DEF SendItem, Regions
<1>3. UNCHANGED << lay, phase, hl, bc, mem, bootVars >>
  BY DEF SendItem
<1>4. SUFFICES /\ region' \in 1..(Len(Regions) + 2) /\ sent' \in 0..(MemSize + 2)
               /\ line'[1] \in Sendable
               /\ region' <= Len(Regions) => sent' <= LastItem(Regions[region'])
  BY <1>2, <1>3 DEF TypeInv, TypeOK, bootVars, loadVars, Sendable, LastItem
<1>5. CASE region > Len(Regions)
  <2>1. line' = << Word(2) >> /\ region' = region + 1 /\ sent' = 0 /\ region = Len(Regions) + 1
    BY <1>1, <1>5 DEF SendItem
  <2>2. Word(2) \in Sendable
    BY Sizes, <1>1 DEF Word, Sendable
  <2>3. region' \in 1..(Len(Regions) + 2) /\ sent' \in 0..(MemSize + 2)
        /\ ~(region' <= Len(Regions))
    BY <1>1, <2>1, Sizes
  <2> QED
    BY <2>1, <2>2, <2>3
<1>6. CASE region <= Len(Regions)
  <2> DEFINE r == Regions[region]
  <2>1. r \in AnyRegion
    BY <1>1, <1>6, RegionAt
  <2>2. /\ line' = << Item(r, sent) >>
        /\ IF sent = LastItem(r)
             THEN region' = region + 1 /\ sent' = 0
             ELSE sent' = sent + 1 /\ UNCHANGED region
    BY <1>1, <1>6 DEF SendItem
  <2>3. sent <= LastItem(r)
    BY <1>6 DEF TypeInv
  <2> HIDE DEF r
  <2>4. Item(r, sent) \in Sendable
    BY <1>1, <2>1, <2>3, ItemType
  <2>5. LastItem(r) \in Nat /\ LastItem(r) <= MemSize + 2
    BY <2>1, RegionFields, Sizes DEF LastItem
  <2>6. \A i \in 1..Len(Regions) : LastItem(Regions[i]) >= 0
    <3> TAKE i \in 1..Len(Regions)
    <3>1. Regions[i].len \in Int
      BY <1>1, RegionAt, RegionFields
    <3> QED
      BY <3>1 DEF LastItem
  <2>7. CASE sent = LastItem(r)
    BY <1>1, <1>6, <2>2, <2>4, <2>6, <2>7, Sizes
  <2>8. CASE sent # LastItem(r)
    <3>1. sent + 1 <= LastItem(r)
      BY <1>1, <2>3, <2>5, <2>8
    <3> QED
      BY <1>1, <1>6, <2>2, <2>4, <2>5, <2>8, <3>1, Sizes DEF r
  <2> QED
    BY <2>7, <2>8
<1> QED
  BY <1>1, <1>5, <1>6

\* Steps that leave the host alone.
LEMMA SameHost ==
  ASSUME TypeInv, UNCHANGED hostVars
  PROVE  /\ lay' \in Layouts /\ region' \in 1..(Len(Regions) + 2)' /\ sent' \in 0..(MemSize + 2)
         /\ (region <= Len(Regions) => sent <= LastItem(Regions[region]))'
<1>1. Regions' = Regions
  BY DEF hostVars, Regions
<1> QED
  BY <1>1 DEF TypeInv, TypeOK, hostVars, LastItem

\* What a warm boot, a user or a program changes.
LEMMA SameBoot ==
  ASSUME TypeInv, UNCHANGED bootVars, phase' = "load" => phase = "load"
  PROVE  /\ dies' \in BOOLEAN /\ file' \in {"none", "empty", "whole", "long"}
         /\ opened' \in {"none", "empty", "full"} /\ (phase' = "load" => opened' # "none")
         /\ tpa' \in {"old", "part", "command"} /\ got' \in {"all", "part", "nothing", "escape"}
         /\ resident' \in {"other", "command", "alike"}
         /\ changes' \in 0..MaxChanges /\ exits' \in 0..MaxExits /\ escapes' \in 0..MaxEscapes
BY DEF TypeInv, TypeOK, bootVars, loadVars

LEMMA TakeItemTypes == TypeInv /\ TakeItem => TypeInv'
<1> SUFFICES ASSUME TypeInv, TakeItem PROVE TypeInv'
  OBVIOUS
<1>1. line[1] \in Sendable /\ line' = << >>
  BY DEF TakeItem, TypeInv, TypeOK, Sendable
<1>2. line[1][2] \in 0..MemSize
  BY <1>1 DEF Sendable
<1>3. phase' \in Phases \ {"load"} /\ hl' \in 0..MemSize /\ bc' \in 0..MemSize
  BY <1>2 DEF TakeItem, Survived, TypeInv, TypeOK, Phases
<1>4. UNCHANGED hostVars /\ UNCHANGED bootVars
  BY DEF TakeItem
<1>5. DOMAIN mem' = 0..(MemSize - 1)
  BY DEF TakeItem, Called, TypeInv, TypeOK
<1> QED
  BY <1>1, <1>3, <1>4, <1>5, SameHost, SameBoot DEF TypeInv, TypeOK, Phases

LEMMA TakeByteTypes == TypeInv /\ TakeByte => TypeInv'
<1> SUFFICES ASSUME TypeInv, TakeByte PROVE TypeInv'
  OBVIOUS
<1>1. hl \in Int /\ bc \in Int
  BY Sizes DEF TypeInv, TypeOK
<1>2. \A n \in Int : n % MemSize \in 0..MemSize
  BY Sizes
<1>3. hl' \in 0..MemSize /\ bc' \in 0..MemSize
  <2>1. hl' = (hl + 1) % MemSize /\ bc' = (bc - 1) % MemSize
    BY DEF TakeByte
  <2> QED
    BY <1>1, <1>2, <2>1
<1>4. line' = << >> /\ phase' \in Phases \ {"load"} /\ UNCHANGED hostVars /\ UNCHANGED bootVars
  BY DEF TakeByte, Survived, Phases
<1>5. DOMAIN mem' = 0..(MemSize - 1)
  BY DEF TakeByte, Called, TypeInv, TypeOK
<1> QED
  BY <1>3, <1>4, <1>5, SameHost, SameBoot DEF TypeInv, TypeOK, Phases

LEMMA BootTypes ==
  TypeInv /\ (Launch \/ Checksum \/ OpenCommand \/ LoadCommand \/ Run \/ EscapeCall) => TypeInv'
<1> SUFFICES ASSUME TypeInv,
                    Launch \/ Checksum \/ OpenCommand \/ LoadCommand \/ Run \/ EscapeCall
             PROVE  TypeInv'
  OBVIOUS
<1>1. UNCHANGED hostVars /\ UNCHANGED << line, hl, bc >>
  BY DEF Launch, Checksum, OpenCommand, LoadCommand, Run, EscapeCall
<1>2. DOMAIN mem' = DOMAIN mem
  BY DEF Launch, Checksum, OpenCommand, LoadCommand, Run, EscapeCall
<1>3. /\ phase' \in Phases /\ tpa' \in {"old", "part", "command"}
      /\ resident' \in {"other", "command", "alike"}
      /\ got' \in {"all", "part", "nothing", "escape"}
      /\ opened' \in {"none", "empty", "full"} /\ (phase' = "load" => opened' # "none")
      /\ UNCHANGED << dies, file, changes, exits >>
  BY DEF Launch, Checksum, OpenCommand, LoadCommand, Run, EscapeCall, TypeInv, TypeOK, Phases,
         bootVars, loadVars
<1>4. escapes' \in 0..MaxEscapes
  <2>1. escapes \in 0..MaxEscapes /\ MaxEscapes \in Nat
    BY StartupAssumption DEF TypeInv, TypeOK
  <2> QED
    BY <2>1 DEF Launch, Checksum, OpenCommand, LoadCommand, Run, EscapeCall, bootVars
<1> QED
  BY <1>1, <1>2, <1>3, <1>4, SameHost DEF TypeInv, TypeOK, Phases

LEMMA WorldTypes == TypeInv /\ (Exit \/ FileChanges) => TypeInv'
<1> SUFFICES ASSUME TypeInv, Exit \/ FileChanges PROVE TypeInv'
  OBVIOUS
<1>1. UNCHANGED hostVars /\ UNCHANGED << line, hl, bc, mem, dies, opened, got, escapes >>
  BY DEF Exit, FileChanges
<1>2. changes' \in 0..MaxChanges /\ exits' \in 0..MaxExits
  <2>1. /\ changes \in 0..MaxChanges /\ exits \in 0..MaxExits
        /\ MaxChanges \in Nat /\ MaxExits \in Nat
    BY StartupAssumption DEF TypeInv, TypeOK
  <2> QED
    BY <2>1 DEF Exit, FileChanges
<1>3. /\ phase' \in Phases /\ tpa' \in {"old", "part", "command"}
      /\ resident' \in {"other", "command", "alike"}
      /\ file' \in {"none", "empty", "whole", "long"}
      /\ phase' = "load" => phase = "load"
  BY DEF Exit, FileChanges, TypeInv, TypeOK, Phases
<1> QED
  BY <1>1, <1>2, <1>3, SameHost DEF TypeInv, TypeOK, Phases

LEMMA TypeStep == TypeInv /\ [Next]_vars => TypeInv'
<1>1. ASSUME TypeInv, UNCHANGED vars PROVE TypeInv'
  BY <1>1, SameHost DEF vars, hostVars, TypeInv, TypeOK
<1> QED
  BY <1>1, SendTypes, TakeItemTypes, TakeByteTypes, BootTypes, WorldTypes DEF Next, System

LEMMA TypeInit == Init => TypeInv
<1> SUFFICES ASSUME Init PROVE TypeInv
  OBVIOUS
<1>1. lay \in Layouts /\ Len(Regions) \in 1..5 /\ region = 1 /\ sent = 0
  BY AnyLayout DEF Init
<1>2. Regions[1] \in AnyRegion
  BY <1>1, RegionAt
<1>3. sent <= LastItem(Regions[region])
  BY <1>1, <1>2, RegionFields DEF LastItem
<1>4. /\ region \in 1..(Len(Regions) + 2) /\ sent \in 0..(MemSize + 2)
      /\ hl \in 0..MemSize /\ bc \in 0..MemSize
      /\ changes \in 0..MaxChanges /\ exits \in 0..MaxExits /\ escapes \in 0..MaxEscapes
  BY <1>1, Sizes, StartupAssumption DEF Init
<1>5. TypeOK
  BY <1>1, <1>4 DEF Init, TypeOK
<1> QED
  BY <1>3, <1>5 DEF TypeInv

LEMMA AlwaysTyped == Spec => []TypeInv
BY TypeInit, TypeStep, PTL DEF Spec

\* The registers of the loader stay 16 bits wide, the host sends no more than a
\* region has, and what it sends are 16-bit numbers and bytes of the memory's
\* image, the Net-BDOS or a program: for every layout.
THEOREM StartupTypes == Spec => []TypeOK
BY AlwaysTyped, PTL DEF TypeInv

-----------------------------------------------------------------------------
(* What the warm boot starts.                                              *)

LoadedWhole ==
  /\ CommandStarted
  /\ phase = "run" => got \in {"nothing", "escape"} \/ (got = "all" /\ tpa = "command")

\* What is jumped to is all of COMMAND.COM, or the last 27h has read nothing or was
\* left by ESC: whatever happens to the file, no step between the read and the jump
\* replaces what was read, and no other result of 27h is taken for a success.
THEOREM CommandWhole == Spec => []CommandStarted
<1>1. Init => LoadedWhole
  BY DEF Init, LoadedWhole, CommandStarted
<1>2. LoadedWhole /\ [Next]_vars => LoadedWhole'
  <2> SUFFICES ASSUME LoadedWhole, [Next]_vars PROVE LoadedWhole'
    OBVIOUS
  <2> USE DEF LoadedWhole, CommandStarted
  <2>1. CASE SendItem
    BY <2>1 DEF SendItem, bootVars, loadVars
  <2>2. CASE TakeItem
    BY <2>2 DEF TakeItem, Survived, bootVars, loadVars
  <2>3. CASE TakeByte
    BY <2>3 DEF TakeByte, Survived, bootVars, loadVars
  <2>4. CASE Launch
    BY <2>4 DEF Launch, bootVars, loadVars
  <2>5. CASE Checksum
    BY <2>5 DEF Checksum, bootVars, loadVars
  <2>6. CASE OpenCommand
    BY <2>6 DEF OpenCommand
  <2>7. CASE LoadCommand
    BY <2>7 DEF LoadCommand
  <2>8. CASE Run
    BY <2>8 DEF Run, loadVars
  <2>9. CASE EscapeCall
    BY <2>9 DEF EscapeCall
  <2>10. CASE Exit
    BY <2>10 DEF Exit
  <2>11. CASE FileChanges
    BY <2>11 DEF FileChanges
  <2>12. CASE UNCHANGED vars
    BY <2>12 DEF vars
  <2> QED
    BY <2>1, <2>2, <2>3, <2>4, <2>5, <2>6, <2>7, <2>8, <2>9, <2>10, <2>11, <2>12
    DEF Next, System
<1> QED
  BY <1>1, <1>2, PTL DEF Spec, LoadedWhole

-----------------------------------------------------------------------------
(* The upload.                                                             *)

Uploading == {"cmd", "addr", "len", "data", "launch"}
WarmBoot == {"check", "open", "load", "run", "prompt", "stray", "hung"}

\* The loader has taken j of the items of region q.
LoaderAt(q, j) ==
  \/ j = 0 /\ phase = "cmd"
  \/ j = 1 /\ phase = "addr"
  \/ j = 2 /\ phase = "len" /\ hl = Regions[q].at
  \/ /\ j >= 3 /\ phase = "data"
     /\ hl = Regions[q].at + (j - 3) /\ bc = Regions[q].len - (j - 3)

\* The host has sent those, or one more that is still on the line.
HostAt(q, j) ==
  \/ line = << >> /\ region = q /\ sent = j
  \/ /\ line = << Item(Regions[q], j) >>
     /\ IF j = LastItem(Regions[q]) THEN region = q + 1 /\ sent = 0
                                    ELSE region = q /\ sent = j + 1

\* All regions are sent and taken, and perhaps the command to launch.
Finished ==
  \/ line = << >> /\ region = Len(Regions) + 1 /\ sent = 0 /\ phase = "cmd"
  \/ line = << Word(2) >> /\ region = Len(Regions) + 2 /\ phase = "cmd"
  \/ line = << >> /\ region = Len(Regions) + 2 /\ phase \in WarmBoot \union {"launch"}

\* Region i has given the address a its contents, when n bytes of region q and
\* all regions before it are written.
Written(i, a, q, n) ==
  /\ Regions[i].at <= a /\ a < Regions[i].at + Regions[i].len
  /\ i < q \/ (i = q /\ a < Regions[i].at + n)

\* The last such region has given it its contents.
Holds(m, a, q, n) ==
  /\ (\A i \in 1..Len(Regions) : ~Written(i, a, q, n)) =>
       m[a] = IF a \in Loader THEN << "loader", a >> ELSE << "old", a >>
  /\ \A i \in 1..Len(Regions) :
       (/\ Written(i, a, q, n)
        /\ \A k \in 1..Len(Regions) : Written(k, a, q, n) => k <= i)
       => m[a] = << Regions[i].what, Regions[i].from + a - Regions[i].at >>

\* The contents of the memory but for the loader's stack; after the launch, of what
\* that has not changed.
MemIs(q, n) ==
  \A a \in (0..(MemSize - 1)) \ Slot :
    phase \in Uploading \/ a \notin Patched \union Scratch => Holds(mem, a, q, n)

Taken(j) == IF j >= 3 THEN j - 3 ELSE 0

Upload ==
  /\ phase \in Uploading => Intact(mem)
  /\ \/ \E q \in 1..Len(Regions), j \in Nat :
          /\ j <= Regions[q].len + 2 /\ LoaderAt(q, j) /\ HostAt(q, j)
          /\ MemIs(q, Taken(j))
     \/ Finished /\ \E q \in Nat : q > Len(Regions) /\ MemIs(q, 0)

UploadInv == Fits => Upload

LEMMA GoodFields ==
  ASSUME lay \in Layouts, Fits, NEW q \in 1..Len(Regions)
  PROVE  /\ Regions[q].at \in Nat /\ Regions[q].len \in Nat /\ Regions[q].from \in Nat
         /\ 1 <= Regions[q].len /\ Regions[q].len < MemSize
         /\ Regions[q].at + Regions[q].len <= MemSize
         /\ Regions[q].len % MemSize = Regions[q].len
         /\ LastItem(Regions[q]) = Regions[q].len + 2
         /\ \A a \in Int : Regions[q].at <= a /\ a < Regions[q].at + Regions[q].len => a \notin Loader
<1> DEFINE r == Regions[q]
<1>1. r \in GoodRegion /\ r \in AnyRegion
  BY RegionAt
<1> HIDE DEF r
<1>2. /\ r.at \in Nat /\ r.len \in Nat /\ r.from \in Nat
      /\ 1 <= r.len /\ r.len < MemSize /\ r.at + r.len <= MemSize
      /\ \A a \in Int : r.at <= a /\ a < r.at + r.len => a \notin Loader
  BY <1>1, RegionFields DEF GoodRegion
<1>3. r.len % MemSize = r.len
  <2>1. \A x, y \in Nat : x < y => x % y = x
    OBVIOUS
  <2> QED
    BY <1>2, <2>1, Sizes
<1>4. LastItem(r) = r.len + 2
  BY <1>2 DEF LastItem
<1> QED
  BY <1>2, <1>3, <1>4 DEF r

\* The n-th byte of a region makes n + 1 of them written.
LEMMA OneMoreByte ==
  ASSUME lay \in Layouts, Fits, NEW q \in 1..Len(Regions), NEW n \in Nat, n < Regions[q].len,
         NEW m, NEW w, DOMAIN m = 0..(MemSize - 1),
         w = [m EXCEPT ![Regions[q].at + n] = << Regions[q].what, Regions[q].from + n >>],
         NEW a \in 0..(MemSize - 1), Holds(m, a, q, n)
  PROVE  Holds(w, a, q, n + 1)
<1>0. Len(Regions) \in 1..5
  BY AnyLayout
<1>1. Regions[q].at \in Nat /\ Regions[q].len \in Nat /\ Regions[q].from \in Nat
  BY GoodFields
<1>2. CASE a = Regions[q].at + n
  <2>1. w[a] = << Regions[q].what, Regions[q].from + n >>
    BY <1>2
  <2>2. Written(q, a, q, n + 1)
    <3>1. /\ Regions[q].at <= a /\ a < Regions[q].at + Regions[q].len
          /\ a < Regions[q].at + (n + 1)
      BY <1>1, <1>2
    <3> QED
      BY <3>1 DEF Written
  <2>3. \A i \in 1..Len(Regions) : Written(i, a, q, n + 1) => i <= q
    BY <1>0 DEF Written
  <2>4. \A i \in 1..Len(Regions) :
          Written(i, a, q, n + 1)
            /\ (\A k \in 1..Len(Regions) : Written(k, a, q, n + 1) => k <= i)
          => i = q
    BY <1>0, <2>2, <2>3
  <2>5. Regions[q].from + a - Regions[q].at = Regions[q].from + n
    BY <1>1, <1>2
  <2> QED
    BY <2>1, <2>2, <2>4, <2>5 DEF Holds
<1>3. CASE a # Regions[q].at + n
  <2>1. w[a] = m[a]
    BY <1>3
  <2>2. \A i \in 1..Len(Regions) : Written(i, a, q, n + 1) <=> Written(i, a, q, n)
    <3>1. a \in Int /\ q \in Int /\ \A i \in 1..Len(Regions) : i \in Int
      BY <1>0, Sizes
    <3>2. a < Regions[q].at + (n + 1) <=> a < Regions[q].at + n
      BY <1>1, <1>3, <3>1
    <3> QED
      BY <3>1, <3>2 DEF Written
  <2> QED
    BY <2>1, <2>2 DEF Holds
<1> QED
  BY <1>2, <1>3

\* After the last byte of a region, it is the next one's turn.
LEMMA NextRegion ==
  ASSUME lay \in Layouts, Fits, NEW q \in 1..Len(Regions), NEW m, NEW a \in 0..(MemSize - 1),
         Holds(m, a, q, Regions[q].len)
  PROVE  Holds(m, a, q + 1, 0)
<1>0. Len(Regions) \in 1..5
  BY AnyLayout
<1>1. \A i \in 1..Len(Regions) : Regions[i].at \in Nat /\ Regions[i].len \in Nat
  BY GoodFields
<1>2. \A i \in 1..Len(Regions) : Written(i, a, q + 1, 0) <=> Written(i, a, q, Regions[q].len)
  BY <1>0, <1>1 DEF Written
<1> QED
  BY <1>2 DEF Holds

LEMMA LoaderInside ==
  ASSUME lay \in Layouts
  PROVE  Loader \subseteq 0..(MemSize - 1)
<1>1. /\ lay.boot \in Nat /\ lay.bootEnd \in Nat /\ lay.bootEnd <= MemSize
      /\ MemSize \in Nat
  BY LayoutFields, Sizes
<1>2. \A a \in lay.boot..(lay.bootEnd - 1) : a \in 0..(MemSize - 1)
  BY <1>1
<1> QED
  BY <1>2 DEF Loader

LEMMA UploadInit == Init => UploadInv
<1> SUFFICES ASSUME Init, Fits PROVE Upload
  BY DEF UploadInv
<1>1. lay \in Layouts /\ Len(Regions) \in 1..5
  BY AnyLayout DEF Init
<1>2. \A i \in 1..Len(Regions) : Regions[i].at \in Nat /\ Regions[i].len \in Nat
  BY <1>1, GoodFields
<1>3. Loader \subseteq 0..(MemSize - 1)
  BY <1>1, LoaderInside
<1>4. Intact(mem)
  BY <1>3 DEF Init, Intact
<1>5. MemIs(1, 0)
  <2>1. \A a \in 0..(MemSize - 1), i \in 1..Len(Regions) : ~Written(i, a, 1, 0)
    BY <1>1, <1>2 DEF Written
  <2> QED
    BY <2>1 DEF MemIs, Holds, Init
<1>6. LoaderAt(1, 0) /\ HostAt(1, 0)
  BY DEF Init, LoaderAt, HostAt
<1>7. 0 <= Regions[1].len + 2 /\ Taken(0) = 0
  BY <1>1, <1>2 DEF Taken
<1> QED
  BY <1>1, <1>4, <1>5, <1>6, <1>7 DEF Upload

\* No step moves the regions.
LEMMA SameLayout ==
  ASSUME UNCHANGED lay
  PROVE  /\ Regions' = Regions /\ Fits' = Fits /\ Loader' = Loader /\ Patched' = Patched
         /\ Slot' = Slot
BY DEF Regions, Fits, Loader, Patched, JumpTable, Slot

LEMMA HoldsAfter ==
  ASSUME UNCHANGED lay, NEW a, NEW q, NEW n, Holds(mem', a, q, n)
  PROVE  Holds(mem, a, q, n)'
BY SameLayout DEF Holds, Written

LEMMA SameMemory ==
  ASSUME UNCHANGED << lay, mem >>, phase' \in Uploading => phase \in Uploading,
         NEW q \in Nat, NEW n \in Nat, MemIs(q, n)
  PROVE  MemIs(q, n)'
<1>1. Regions' = Regions /\ Loader' = Loader /\ Patched' = Patched /\ Slot' = Slot
  BY SameLayout
<1>2. ASSUME NEW a \in 0..(MemSize - 1), Holds(mem, a, q, n) PROVE Holds(mem, a, q, n)'
  BY <1>1, <1>2 DEF Holds, Written
<1> QED
  BY <1>1, <1>2 DEF MemIs

\* A call writes on the stack alone, which is not on the loader.
LEMMA CallRight ==
  ASSUME lay \in Layouts, Fits, DOMAIN mem = 0..(MemSize - 1)
  PROVE  /\ DOMAIN Called(mem) = 0..(MemSize - 1)
         /\ Intact(mem) => Intact(Called(mem))
         /\ \A a \in (0..(MemSize - 1)) \ Slot : Called(mem)[a] = mem[a]
<1>1. Loader \subseteq 0..(MemSize - 1) /\ Slot \intersect Loader = {}
  BY LoaderInside DEF Fits
<1>2. \A a \in (0..(MemSize - 1)) \ Slot : Called(mem)[a] = mem[a]
  BY DEF Called
<1>3. \A a \in Loader : a \in (0..(MemSize - 1)) \ Slot
  BY <1>1
<1> QED
  BY <1>2, <1>3 DEF Called, Intact

\* It depends on the contents of an address alone what it holds.
LEMMA HoldsToo ==
  ASSUME NEW m, NEW w, NEW a, NEW q, NEW n, w[a] = m[a], Holds(m, a, q, n)
  PROVE  Holds(w, a, q, n)
BY DEF Holds

LEMMA CallMemory ==
  ASSUME lay \in Layouts, Fits, DOMAIN mem = 0..(MemSize - 1), UNCHANGED lay,
         mem' = Called(mem), phase \in Uploading,
         NEW q \in Nat, NEW n \in Nat, MemIs(q, n)
  PROVE  MemIs(q, n)'
<1>1. Slot' = Slot
  BY SameLayout
<1>2. ASSUME NEW a \in (0..(MemSize - 1)) \ Slot
      PROVE  Holds(mem, a, q, n)'
  <2>1. Holds(mem, a, q, n)
    BY <1>2 DEF MemIs
  <2>2. mem'[a] = mem[a]
    BY <1>2, CallRight
  <2>3. \A w : w = mem' => Holds(w, a, q, n)
    BY <2>1, <2>2, HoldsToo
  <2> QED
    BY <2>3, HoldsAfter
<1> QED
  BY <1>1, <1>2 DEF MemIs

LEMMA SameLoader ==
  ASSUME UNCHANGED << lay, phase, hl, bc >>, NEW q \in Nat, NEW j \in Nat, LoaderAt(q, j)
  PROVE  LoaderAt(q, j)'
BY SameLayout DEF LoaderAt

\* The regions as numbers.
LEMMA Numbers ==
  ASSUME TypeInv
  PROVE  /\ lay \in Layouts /\ Len(Regions) \in Nat /\ Len(Regions) \in 1..5
         /\ region \in Nat /\ sent \in Nat /\ DOMAIN mem = 0..(MemSize - 1)
BY AnyLayout DEF TypeInv, TypeOK

LEMMA SendUpload ==
  ASSUME TypeInv, Fits, Upload, SendItem
  PROVE  Upload'
<1>1. line = << >> /\ UNCHANGED << lay, phase, hl, bc, mem >>
  BY DEF SendItem
<1>2. Regions' = Regions /\ Loader' = Loader
  BY <1>1, SameLayout
<1>3. (phase \in Uploading => Intact(mem))'
  BY <1>1, <1>2 DEF Upload, Intact
<1>4. \A x : << x >> # << >>
  OBVIOUS
<1>5. ASSUME NEW q \in 1..Len(Regions), NEW j \in Nat,
             j <= Regions[q].len + 2, LoaderAt(q, j), HostAt(q, j), MemIs(q, Taken(j))
      PROVE  Upload'
  <2>1. region = q /\ sent = j
    BY <1>1, <1>4, <1>5 DEF HostAt
  <2>2. q \in Nat /\ q <= Len(Regions) /\ Taken(j) \in Nat
    BY Numbers DEF Taken
  <2>3. HostAt(q, j)'
    <3>1. /\ line' = << Item(Regions[q], j) >>
          /\ IF j = LastItem(Regions[q])
               THEN region' = q + 1 /\ sent' = 0
               ELSE sent' = j + 1 /\ region' = q
      BY <2>1, <2>2, Numbers DEF SendItem
    <3> QED
      BY <1>2, <3>1 DEF HostAt
  <2>4. LoaderAt(q, j)' /\ MemIs(q, Taken(j))'
    BY <1>1, <1>5, <2>2, SameLoader, SameMemory
  <2> QED
    BY <1>2, <1>3, <1>5, <2>3, <2>4 DEF Upload
<1>6. ASSUME Finished, NEW q \in Nat, q > Len(Regions), MemIs(q, 0)
      PROVE  Upload'
  <2>1. region = Len(Regions) + 1 /\ phase = "cmd"
    BY <1>1, <1>4, <1>6, Numbers DEF Finished, SendItem
  <2>2. line' = << Word(2) >> /\ region' = Len(Regions) + 2
    BY <2>1, Numbers DEF SendItem
  <2>3. Finished'
    BY <1>1, <1>2, <2>1, <2>2 DEF Finished
  <2>4. MemIs(q, 0)'
    BY <1>1, <1>6, SameMemory
  <2> QED
    BY <1>2, <1>3, <1>6, <2>3, <2>4 DEF Upload
<1> QED
  BY <1>5, <1>6 DEF Upload

LEMMA TakeItemUpload ==
  ASSUME TypeInv, Fits, Upload, TakeItem
  PROVE  Upload'
<1>1. line # << >> /\ line' = << >> /\ UNCHANGED << lay, region, sent >> /\ mem' = Called(mem)
  BY DEF TakeItem, hostVars
<1>2. Regions' = Regions /\ Loader' = Loader /\ Patched' = Patched
  BY <1>1, SameLayout
<1>3. phase \in Uploading
  BY DEF TakeItem, Uploading
<1>4. Intact(mem') /\ Intact(mem)'
  <2>1. Intact(Called(mem))
    BY <1>3, Numbers, CallRight DEF Upload
  <2> QED
    BY <1>1, <1>2, <2>1 DEF Intact
<1>5. \A q, n \in Nat : MemIs(q, n) => MemIs(q, n)'
  BY <1>1, <1>3, Numbers, CallMemory
<1>8. \A p : Survived(p) = p
  BY <1>4 DEF Survived
<1>6. ASSUME NEW q \in 1..Len(Regions), NEW j \in Nat,
             j <= Regions[q].len + 2, LoaderAt(q, j), HostAt(q, j), MemIs(q, Taken(j))
      PROVE  Upload'
  <2> DEFINE r == Regions[q]
  <2>1. /\ line[1] = Item(r, j)
        /\ IF j = LastItem(r) THEN region = q + 1 /\ sent = 0 ELSE region = q /\ sent = j + 1
    BY <1>1, <1>6 DEF HostAt
  <2>2. /\ r.len \in Nat /\ 1 <= r.len /\ r.len % MemSize = r.len
        /\ LastItem(r) = r.len + 2 /\ r.at \in Nat
    BY GoodFields, Numbers
  <2>3. j < 3
    BY <1>6 DEF LoaderAt, TakeItem
  <2>4. region' = q /\ sent' = j + 1 /\ j + 1 <= r.len + 2
    BY <1>1, <2>1, <2>2, <2>3
  <2>5. LoaderAt(q, j + 1)'
    <3>1. CASE j = 0
      <4>1. phase = "cmd" /\ line[1] = Word(1)
        BY <1>6, <2>1, <3>1 DEF LoaderAt, Item
      <4>2. phase' = "addr"
        BY <1>8, <4>1 DEF TakeItem
      <4> QED
        BY <3>1, <4>2 DEF LoaderAt
    <3>2. CASE j = 1
      <4>1. phase = "addr" /\ line[1] = Word(r.at)
        BY <1>6, <2>1, <3>2 DEF LoaderAt, Item
      <4>2. phase' = "len" /\ hl' = r.at
        BY <1>8, <4>1 DEF TakeItem, Word
      <4> QED
        BY <1>2, <3>2, <4>2 DEF LoaderAt
    <3>3. CASE j = 2
      <4>1. phase = "len" /\ hl = r.at /\ line[1] = Word(r.len)
        BY <1>6, <2>1, <2>2, <3>3 DEF LoaderAt, Item
      <4>2. phase' = "data" /\ bc' = r.len /\ hl' = r.at
        BY <1>8, <4>1 DEF TakeItem, Word
      <4>3. r.at + (3 - 3) = r.at /\ r.len - (3 - 3) = r.len
        BY <2>2
      <4> QED
        BY <1>2, <3>3, <4>2, <4>3 DEF LoaderAt
    <3> QED
      BY <2>3, <3>1, <3>2, <3>3
  <2>6. MemIs(q, Taken(j + 1))'
    <3>1. Taken(j + 1) = 0 /\ Taken(j) = 0
      BY <2>3 DEF Taken
    <3> QED
      BY <1>5, <1>6, <3>1, Numbers
  <2>7. HostAt(q, j + 1)'
    BY <1>1, <2>4 DEF HostAt
  <2>8. j + 1 \in Nat
    OBVIOUS
  <2> QED
    BY <1>2, <1>4, <2>4, <2>5, <2>6, <2>7, <2>8 DEF Upload
<1>7. ASSUME Finished, NEW q \in Nat, q > Len(Regions), MemIs(q, 0)
      PROVE  Upload'
  <2>1. line[1] = Word(2) /\ region = Len(Regions) + 2 /\ phase = "cmd"
    BY <1>1, <1>7 DEF Finished
  <2>2. phase' = "launch"
    BY <1>8, <2>1 DEF TakeItem, Word
  <2>3. Finished'
    BY <1>1, <1>2, <2>1, <2>2 DEF Finished
  <2>4. MemIs(q, 0)'
    BY <1>5, <1>7
  <2> QED
    BY <1>2, <1>4, <1>7, <2>3, <2>4 DEF Upload
<1> QED
  BY <1>6, <1>7 DEF Upload

\* Arithmetic of 16 bits that stays below 2^16.
LEMMA NoWrap ==
  /\ \A x \in Nat : x < MemSize => x % MemSize = x
  /\ \A x \in Nat : 1 <= x /\ x < MemSize => (x - 1) % MemSize = x - 1
<1>1. \A x, y \in Nat : x < y => x % y = x
  OBVIOUS
<1>2. \A x \in Nat : 1 <= x => x - 1 \in Nat
  OBVIOUS
<1> QED
  BY <1>1, <1>2, Sizes

LEMMA TakeByteUpload ==
  ASSUME TypeInv, Fits, Upload, TakeByte
  PROVE  Upload'
<1>1. /\ phase = "data" /\ line # << >> /\ line' = << >>
      /\ UNCHANGED << lay, region, sent >>
      /\ mem' = [Called(mem) EXCEPT ![hl] = line[1]]
      /\ hl' = (hl + 1) % MemSize /\ bc' = (bc - 1) % MemSize
      /\ phase' = IF Intact(mem') THEN IF bc' = 0 THEN "cmd" ELSE "data" ELSE "lost"
  BY DEF TakeByte, Survived, hostVars
<1>2. Regions' = Regions /\ Loader' = Loader /\ Patched' = Patched
  BY <1>1, SameLayout
<1>3. PICK q \in 1..Len(Regions), j \in Nat :
        j <= Regions[q].len + 2 /\ LoaderAt(q, j) /\ HostAt(q, j) /\ MemIs(q, Taken(j))
  BY <1>1 DEF Upload, Finished, WarmBoot
<1> DEFINE r == Regions[q]
           n == j - 3
<1>4. j >= 3 /\ hl = r.at + n /\ bc = r.len - n
  BY <1>1, <1>3 DEF LoaderAt
<1>5. /\ r.at \in Nat /\ r.len \in Nat /\ r.from \in Nat
      /\ 1 <= r.len /\ r.len < MemSize /\ r.at + r.len <= MemSize
      /\ LastItem(r) = r.len + 2
  BY GoodFields, Numbers
<1>6. n \in Nat /\ n < r.len /\ Taken(j) = n /\ j = n + 3
  BY <1>3, <1>4, <1>5 DEF Taken
<1>7. line[1] = << r.what, r.from + n >>
  <2>1. line[1] = Item(r, j)
    BY <1>1, <1>3 DEF HostAt
  <2>2. r.from + j - 3 = r.from + n
    BY <1>5, <1>6
  <2> QED
    BY <1>4, <2>1, <2>2 DEF Item
<1> HIDE DEF r, n
<1>8. IF j = LastItem(r) THEN region = q + 1 /\ sent = 0 ELSE region = q /\ sent = j + 1
  BY <1>1, <1>3 DEF HostAt, r
<1>9. /\ q \in Nat /\ MemSize \in Nat /\ Len(Regions) \in 1..5
      /\ DOMAIN mem = 0..(MemSize - 1) /\ DOMAIN Called(mem) = 0..(MemSize - 1)
  BY Numbers, Sizes, CallRight
<1>10. Loader \subseteq 0..(MemSize - 1)
  BY LoaderInside, Numbers
<1>11. /\ r.at <= hl /\ hl < r.at + r.len /\ hl \in Int
       /\ bc - 1 = r.len - (n + 1) /\ 1 <= bc /\ bc \in Nat /\ bc < MemSize
       /\ hl + 1 = r.at + (n + 1) /\ hl + 1 \in Nat
       /\ n + 1 < r.len => hl + 1 < MemSize
  <2>1. PICK at \in Nat, len \in Nat, k \in Nat : at = r.at /\ len = r.len /\ k = n
    BY <1>5, <1>6
  <2>2. /\ k < len /\ at + len <= MemSize /\ len < MemSize
        /\ hl = at + k /\ bc = len - k
    BY <1>4, <1>5, <1>6, <2>1
  <2>3. /\ at <= hl /\ hl < at + len /\ hl \in Int
        /\ bc - 1 = len - (k + 1) /\ 1 <= bc /\ bc \in Nat /\ bc < MemSize
        /\ hl + 1 = at + (k + 1) /\ hl + 1 \in Nat
        /\ k + 1 < len => hl + 1 < MemSize
    BY <1>9, <2>2
  <2> QED
    BY <2>1, <2>3
<1>12. Intact(mem')
  <2>1. Intact(Called(mem))
    BY <1>1, Numbers, CallRight DEF Upload, Uploading
  <2>2. hl \notin Loader
    BY <1>11, GoodFields, Numbers DEF r
  <2> QED
    BY <1>1, <1>9, <1>10, <2>1, <2>2 DEF Intact
<1>13. Intact(mem)'
  BY <1>2, <1>12 DEF Intact
<1>14. mem' = [Called(mem) EXCEPT ![Regions[q].at + n] = << Regions[q].what, Regions[q].from + n >>]
  BY <1>1, <1>4, <1>7 DEF r
<1>15. \A a \in (0..(MemSize - 1)) \ Slot : Holds(mem', a, q, n + 1)
  <2> TAKE a \in (0..(MemSize - 1)) \ Slot
  <2>1. Holds(Called(mem), a, q, n)
    <3>1. Holds(mem, a, q, n)
      BY <1>1, <1>3, <1>6 DEF MemIs, Uploading
    <3>2. Called(mem)[a] = mem[a]
      BY Numbers, CallRight
    <3> QED
      BY <3>1, <3>2, HoldsToo
  <2>2. \A w : w = mem' => Holds(w, a, q, n + 1)
    BY <1>6, <1>9, <1>14, <2>1, Numbers, OneMoreByte DEF r
  <2> QED
    BY <2>2
<1>16. bc' = r.len - (n + 1) /\ (n + 1 < r.len => hl' = r.at + (n + 1))
  <2>1. (bc - 1) % MemSize = bc - 1
    BY <1>11, NoWrap
  <2>2. hl + 1 < MemSize => (hl + 1) % MemSize = hl + 1
    BY <1>11, NoWrap
  <2> QED
    BY <1>1, <1>11, <2>1, <2>2
<1>17. CASE n + 1 < r.len
  <2>1. phase' = "data" /\ hl' = r.at + (n + 1) /\ bc' = r.len - (n + 1)
    BY <1>1, <1>5, <1>6, <1>12, <1>16, <1>17
  <2>2. j + 1 \in Nat /\ j + 1 <= r.len + 2 /\ j + 1 >= 3 /\ (j + 1) - 3 = n + 1
    BY <1>5, <1>6, <1>17
  <2>3. Taken(j + 1) = n + 1
    BY <2>2 DEF Taken
  <2>4. LoaderAt(q, j + 1)'
    BY <1>2, <2>1, <2>2 DEF LoaderAt, r
  <2>5. HostAt(q, j + 1)'
    <3>1. region = q /\ sent = j + 1
      BY <1>5, <1>8, <2>2
    <3> QED
      BY <1>1, <3>1 DEF HostAt
  <2>6. MemIs(q, Taken(j + 1))'
    <3>1. \A a \in (0..(MemSize - 1)) \ Slot : Holds(mem, a, q, n + 1)'
      BY <1>1, <1>15, HoldsAfter
    <3> QED
      BY <1>1, <2>3, <3>1, SameLayout DEF MemIs
  <2> QED
    BY <1>2, <1>13, <2>2, <2>4, <2>5, <2>6 DEF Upload, r
<1>18. CASE n + 1 = r.len
  <2>1. phase' = "cmd" /\ region' = q + 1 /\ sent' = 0
    BY <1>1, <1>5, <1>6, <1>8, <1>12, <1>16, <1>18
  <2>2. \A a \in (0..(MemSize - 1)) \ Slot : Holds(mem', a, q + 1, 0)
    BY <1>15, <1>18, Numbers, NextRegion DEF r
  <2>3. MemIs(q + 1, 0)'
    <3>1. \A a \in (0..(MemSize - 1)) \ Slot : Holds(mem, a, q + 1, 0)'
      BY <1>1, <2>2, HoldsAfter
    <3> QED
      BY <1>1, <3>1, SameLayout DEF MemIs
  <2>4. CASE q < Len(Regions)
    <3>1. LoaderAt(q + 1, 0)' /\ HostAt(q + 1, 0)'
      BY <1>1, <2>1 DEF LoaderAt, HostAt
    <3>2. q + 1 \in 1..Len(Regions) /\ Taken(0) = 0
      BY <1>9, <2>4 DEF Taken
    <3>3. 0 <= Regions[q + 1].len + 2
      BY <3>2, GoodFields, Numbers
    <3> QED
      BY <1>2, <1>13, <2>3, <3>1, <3>2, <3>3 DEF Upload
  <2>5. CASE q = Len(Regions)
    <3>1. Finished'
      BY <1>1, <1>2, <2>1, <2>5 DEF Finished
    <3>2. q + 1 \in Nat /\ q + 1 > Len(Regions)
      BY <1>9, <2>5
    <3> QED
      BY <1>2, <1>13, <2>3, <3>1, <3>2 DEF Upload
  <2> QED
    BY <1>9, <2>4, <2>5
<1> QED
  BY <1>5, <1>6, <1>17, <1>18

LEMMA LaunchUpload ==
  ASSUME TypeInv, Fits, Upload, Launch
  PROVE  Upload'
<1>1. /\ phase = "launch" /\ phase' = "check" /\ UNCHANGED << lay, region, sent, line >>
      /\ mem' = [a \in DOMAIN mem |->
                   IF a \in Scratch THEN << "scratch", 0 >>
                   ELSE IF a \in Patched THEN << "patch", 0 >> ELSE Called(mem)[a]]
  BY DEF Launch, hostVars
<1>2. Regions' = Regions /\ Loader' = Loader /\ Patched' = Patched
  BY <1>1, SameLayout
<1>3. PICK q \in Nat : Finished /\ q > Len(Regions) /\ MemIs(q, 0)
  BY <1>1 DEF Upload, LoaderAt
<1>4. Finished'
  BY <1>1, <1>2, <1>3 DEF Finished, WarmBoot
<1>5. MemIs(q, 0)'
  <2> SUFFICES ASSUME NEW a \in (0..(MemSize - 1)) \ Slot, a \notin Patched \union Scratch
               PROVE  Holds(mem, a, q, 0)'
    BY <1>1, <1>2, SameLayout DEF MemIs, Uploading
  <2>1. Holds(mem, a, q, 0)
    BY <1>1, <1>3 DEF MemIs, Uploading
  <2>2. mem'[a] = mem[a]
    <3>1. Called(mem)[a] = mem[a]
      BY Numbers, CallRight
    <3> QED
      BY <1>1, <3>1, Numbers
  <2> QED
    BY <1>2, <2>1, <2>2 DEF Holds, Written
<1>6. phase' \notin Uploading
  BY <1>1 DEF Uploading
<1> QED
  BY <1>2, <1>3, <1>4, <1>5, <1>6 DEF Upload

\* After the launch nothing writes the memory that was sent.
LEMMA BootUpload ==
  ASSUME TypeInv, Fits, Upload,
         Checksum \/ OpenCommand \/ LoadCommand \/ Run \/ EscapeCall \/ Exit
  PROVE  Upload'
<1>1. phase \in WarmBoot /\ phase' \in WarmBoot /\ UNCHANGED << lay, region, sent, line, mem >>
  BY DEF Checksum, OpenCommand, LoadCommand, Run, EscapeCall, Exit, WarmBoot, hostVars
<1>2. Regions' = Regions
  BY <1>1, SameLayout
<1>3. PICK q \in Nat : Finished /\ q > Len(Regions) /\ MemIs(q, 0)
  BY <1>1 DEF Upload, LoaderAt, WarmBoot
<1>4. Finished'
  BY <1>1, <1>2, <1>3 DEF Finished, WarmBoot
<1>5. MemIs(q, 0)'
  BY <1>1, <1>3, SameMemory DEF WarmBoot, Uploading
<1>6. phase' \notin Uploading
  BY <1>1 DEF Uploading, WarmBoot
<1> QED
  BY <1>2, <1>3, <1>4, <1>5, <1>6 DEF Upload

\* What the upload depends on is left alone.
LEMMA SameUpload ==
  ASSUME TypeInv, Fits, Upload, UNCHANGED << lay, region, sent, line, phase, hl, bc, mem >>
  PROVE  Upload'
<1>1. Regions' = Regions /\ Loader' = Loader
  BY SameLayout
<1>2. (phase \in Uploading => Intact(mem))'
  BY <1>1 DEF Upload, Intact
<1>3. ASSUME NEW q \in 1..Len(Regions), NEW j \in Nat,
             j <= Regions[q].len + 2, LoaderAt(q, j), HostAt(q, j), MemIs(q, Taken(j))
      PROVE  Upload'
  <2>1. q \in Nat /\ Taken(j) \in Nat
    BY Numbers DEF Taken
  <2>2. LoaderAt(q, j)' /\ MemIs(q, Taken(j))'
    BY <1>3, <2>1, SameLoader, SameMemory
  <2>3. HostAt(q, j)'
    BY <1>1, <1>3 DEF HostAt
  <2> QED
    BY <1>1, <1>2, <1>3, <2>2, <2>3 DEF Upload
<1>4. ASSUME Finished, NEW q \in Nat, q > Len(Regions), MemIs(q, 0)
      PROVE  Upload'
  <2>1. Finished' /\ MemIs(q, 0)'
    BY <1>1, <1>4, SameMemory DEF Finished
  <2> QED
    BY <1>1, <1>2, <1>4, <2>1 DEF Upload
<1> QED
  BY <1>3, <1>4 DEF Upload

LEMMA UploadStep == TypeInv /\ UploadInv /\ [Next]_vars => UploadInv'
<1> SUFFICES ASSUME TypeInv, UploadInv, [Next]_vars, Fits' PROVE Upload'
  BY DEF UploadInv
<1>1. UNCHANGED lay
  BY DEF Next, System, SendItem, TakeItem, TakeByte, Launch, Checksum, OpenCommand,
         LoadCommand, Run, EscapeCall, Exit, FileChanges, hostVars, vars
<1>2. Fits /\ Upload
  BY <1>1, SameLayout DEF UploadInv
<1>3. CASE FileChanges \/ UNCHANGED vars
  <2>1. UNCHANGED << lay, region, sent, line, phase, hl, bc, mem >>
    BY <1>3 DEF FileChanges, vars, hostVars
  <2> QED
    BY <1>2, <2>1, SameUpload
<1> QED
  BY <1>2, <1>3, SendUpload, TakeItemUpload, TakeByteUpload, LaunchUpload, BootUpload
  DEF Next, System

LEMMA AlwaysUploads == Spec => [](TypeInv /\ UploadInv)
BY TypeInit, TypeStep, UploadInit, UploadStep, PTL DEF Spec

\* The loader survives the upload, for every layout that fits: none of the bytes
\* SendMemory sends, header or data, is written on it.
THEOREM LoaderSurvives == Spec => []LoaderIntact
<1>1. TypeInv /\ UploadInv => LoaderIntact
  <2> SUFFICES ASSUME Fits, Upload, phase = "lost" PROVE FALSE
    BY DEF UploadInv, LoaderIntact
  <2> QED
    BY DEF Upload, LoaderAt, Finished, WarmBoot
<1> QED
  BY <1>1, AlwaysUploads, PTL

\* A set of numbers up to 5 has a greatest one.
LEMMA Greatest ==
  ASSUME NEW S, S \subseteq 1..5, S # {}
  PROVE  \E i \in S : \A j \in S : j <= i
<1>1. CASE 5 \in S
  BY <1>1
<1>2. CASE 5 \notin S /\ 4 \in S
  BY <1>2
<1>3. CASE 5 \notin S /\ 4 \notin S /\ 3 \in S
  BY <1>3
<1>4. CASE 5 \notin S /\ 4 \notin S /\ 3 \notin S /\ 2 \in S
  BY <1>4
<1>5. CASE 5 \notin S /\ 4 \notin S /\ 3 \notin S /\ 2 \notin S
  <2>1. \A i \in S : i = 1
    BY <1>5
  <2>2. 1 \in S
    BY <2>1
  <2> QED
    BY <2>1, <2>2
<1> QED
  BY <1>1, <1>2, <1>3, <1>4, <1>5

\* When the launch begins, memory is what the host has sent, whatever the sizes and
\* but for the loader's stack: its registers do not wrap, no region is written short or
\* at another's place, and of two that meet the later one is there.  So it is at the
\* first warm boot where neither the patches nor the calls of the launch have written.
THEOREM UploadRight == Spec => []MemoryAsSent
<1>1. TypeInv /\ UploadInv => MemoryAsSent
  <2> SUFFICES ASSUME TypeInv, Fits, Upload, NEW a \in (0..(MemSize - 1)) \ Slot,
                      \/ phase = "launch"
                      \/ phase = "check" /\ a \notin Patched \union Scratch
               PROVE  mem[a] = Wanted(a)
    BY Numbers DEF UploadInv, MemoryAsSent
  <2>1. PICK q \in Nat : q > Len(Regions) /\ MemIs(q, 0)
    BY DEF Upload, LoaderAt
  <2>2. Holds(mem, a, q, 0)
    BY <2>1 DEF MemIs, Uploading
  <2>3. DOMAIN Regions = 1..Len(Regions) /\ Len(Regions) \in 1..5
    BY Numbers, AnyLayout
  <2>4. \A i \in 1..Len(Regions) : Written(i, a, q, 0) <=> i \in Covering(a)
    <3>1. \A i \in 1..Len(Regions) :
            Regions[i].at \in Nat /\ Regions[i].len \in Nat /\ i < q
      BY <2>1, <2>3, GoodFields, Numbers
    <3>2. a \in Int
      BY Sizes
    <3> QED
      BY <2>3, <3>1, <3>2 DEF Written, Covering
  <2>5. CASE Covering(a) = {}
    BY <2>2, <2>4, <2>5 DEF Holds, Wanted
  <2>6. CASE Covering(a) # {}
    <3> DEFINE top == CHOOSE i \in Covering(a) : \A j \in Covering(a) : j <= i
    <3>1. Covering(a) \subseteq 1..Len(Regions) /\ Covering(a) \subseteq 1..5
      BY <2>3 DEF Covering
    <3>2. top \in Covering(a) /\ \A j \in Covering(a) : j <= top
      BY <2>6, <3>1, Greatest
    <3>3. Wanted(a) = << Regions[top].what, Regions[top].from + a - Regions[top].at >>
      BY <2>6 DEF Wanted
    <3> HIDE DEF top
    <3>4. \A k \in 1..Len(Regions) : Written(k, a, q, 0) => k <= top
      BY <2>4, <3>2
    <3> QED
      BY <2>2, <2>4, <3>1, <3>2, <3>3, <3>4 DEF Holds
  <2> QED
    BY <2>5, <2>6
<1> QED
  BY <1>1, AlwaysUploads, PTL
=============================================================================
