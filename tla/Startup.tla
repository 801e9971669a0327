------------------------------ MODULE Startup ------------------------------
(***************************************************************************)
(* Starting a workstation: Spy::Bootstrap uploads memory (spy.cpp), byte   *)
(* by byte, to the loader that runs there already (spy_bootstrap.asm); the *)
(* loader patches what it received and warm boots; WARMBOOT of the         *)
(* Net-BDOS (spy_bdos_e900.asm) starts COMMAND.COM, which it finds in      *)
(* memory by a checksum, or else fetches from the host.                    *)
(*                                                                         *)
(* The upload has no addresses of its own: the loader is somewhere in the  *)
(* memory that is sent, writes whatever it is told to, and its calls push  *)
(* on the stack that BASIC has left it, which may be in that memory too.   *)
(***************************************************************************)
EXTENDS Integers, Sequences

CONSTANTS
  MemSize,     \* 65536
  ZeroLen,     \* 100h bytes of page zero; programs begin behind it
  ZeroFrom,    \* 5Ch: what the loader clears of page zero
  NetAt,       \* E900h: the Net-BDOS
  WorkArea,    \* F380h: memory of the BIOS from here on
  Hooks,       \* F267h, F270h, F279h: the hooks of open, read and write
  JumpLen,     \* 12: bytes of the BIOS jump table of MSX-DOS
  ComMax,      \* 8000h: what loadFile takes of a program
  Scratch,     \* what the calls of the Net-BDOS and the BIOS at the launch write
  Layouts,     \* where the kernel and the loader are, how long the files
  MaxChanges,  \* bound: changes of COMMAND.COM on the host
  MaxExits,    \* bound: programs that end
  MaxEscapes   \* bound: calls of the warm boot that the user leaves by ESC

\* start, jump: the addresses at 6 and 1 in memory.ram; boot and bootEnd: header of the
\* loader's BIN file; net, com: lengths of the Net-BDOS and of a program; stack: SP
\* of BASIC (external), with which the loader runs.
ASSUME StartupAssumption ==
  /\ MemSize \in Nat \ {0, 1} /\ ZeroLen \in 1..MemSize /\ ZeroFrom \in 0..ZeroLen
  /\ NetAt \in ZeroLen..MemSize /\ WorkArea \in NetAt..MemSize /\ ComMax \in 1..MemSize
  /\ JumpLen \in Nat /\ Hooks \subseteq 0..(MemSize - 1) /\ Scratch \subseteq 0..(MemSize - 1)
  /\ Layouts \subseteq [start : 0..MemSize, jump : 0..MemSize, boot : 0..MemSize,
                        bootEnd : 0..MemSize, net : 1..MemSize, com : Nat, stack : 2..MemSize]
  /\ MaxChanges \in Nat /\ MaxExits \in Nat /\ MaxEscapes \in Nat

VARIABLES
  lay,       \* the layout of this session
  region,    \* which SendMemory the host is in
  sent,      \* how much of it is sent: 0, the command; 1, 2, the header
  line,      \* the byte or word on its way
  phase,     \* where the workstation stands
  hl, bc,    \* registers of the loader
  mem,       \* memory of the workstation, as far as the first warm boot
  dies,      \* whether the host's C library ends a program that closes or seeks no file
  file,      \* COMMAND.COM on the host
  opened,    \* the size that the open has put in the FCB: "none", "empty", "full"
  tpa,       \* what is at 100h: "old", "part", "command"
  got,       \* what the last 27h brought: "all", "part", "nothing"; or ESC has left it
  resident,  \* what the checksum finds: "other", "command", "alike"
  changes, exits, escapes

hostVars == << lay, region, sent >>
loadVars == << file, opened, tpa, got >>
bootVars == << dies, loadVars, resident, changes, exits, escapes >>
vars == << lay, region, sent, line, phase, hl, bc, mem, dies, file, opened, tpa, got,
           resident, changes, exits, escapes >>

LeastOf(a, b) == IF a < b THEN a ELSE b

\* SendMemory: data from the image of the memory, or from the start of a file.
Image(at, n) == [at |-> at, len |-> n, what |-> "image", from |-> at]
File(at, n, f) == [at |-> at, len |-> n, what |-> f, from |-> 0]

\* Mutant of Regions: the kernel's rest is not sent from behind the loader.
Regions_over ==
  << Image(0, ZeroLen), Image(lay.start, WorkArea - lay.start), File(NetAt, lay.net, "net") >>
  \o (IF lay.com > 0 THEN << File(ZeroLen, LeastOf(lay.com, ComMax), "com") >> ELSE << >>)

\* What Bootstrap sends: page zero, the kernel around the loader, the Net-BDOS
\* and, unless it is empty, a program.
Regions ==
  << Image(0, ZeroLen) >>
  \o (IF lay.boot - lay.start > 0
        THEN << Image(lay.start, lay.boot - lay.start),
                Image(lay.bootEnd, WorkArea - lay.bootEnd) >>
        ELSE << Image(lay.start, WorkArea - lay.start) >>)
  \o << File(NetAt, lay.net, "net") >>
  \o (IF lay.com > 0 THEN << File(ZeroLen, LeastOf(lay.com, ComMax), "com") >> ELSE << >>)

Loader == lay.boot..(lay.bootEnd - 1)
Intact(m) == \A a \in Loader : m[a] = << "loader", a >>

\* A call of the loader, from no depth: its return address is on the stack.
Slot == {lay.stack - 2, lay.stack - 1}
Called(m) == [a \in DOMAIN m |-> IF a \in Slot THEN << "stack", 0 >> ELSE m[a]]

Init ==
  /\ lay \in Layouts
  /\ region = 1 /\ sent = 0 /\ line = << >>
  /\ phase = "cmd" /\ hl = 0 /\ bc = 0
  /\ mem = [a \in 0..(MemSize - 1) |->
              IF a \in Loader THEN << "loader", a >> ELSE << "old", a >>]
  /\ dies \in BOOLEAN /\ file \in {"none", "empty", "whole", "long"}
  /\ opened = "none" /\ tpa = "old" /\ got = "nothing" /\ resident \in {"other", "alike"}
  /\ changes = 0 /\ exits = 0 /\ escapes = 0

-----------------------------------------------------------------------------
(* The upload.                                                             *)

Word(n) == << "word", n >>

\* What goes over the line for a region: the command, two words, its bytes.
Item(r, i) ==
  IF i = 0 THEN Word(1)
  ELSE IF i = 1 THEN Word(r.at)
  ELSE IF i = 2 THEN Word(r.len % MemSize)
  ELSE << r.what, r.from + i - 3 >>

LastItem(r) == IF r.len > 0 THEN r.len + 2 ELSE 2

\* Mutant of SendItem: the command to launch is sent again and again.
SendItem_again ==
  /\ line = << >>
  /\ IF region > Len(Regions)
       THEN line' = << Word(2) >> /\ region' = region + 1 /\ sent' = 0
       ELSE LET r == Regions[region]
            IN /\ line' = << Item(r, sent) >>
               /\ IF sent = LastItem(r)
                    THEN region' = region + 1 /\ sent' = 0
                    ELSE sent' = sent + 1 /\ UNCHANGED region
  /\ UNCHANGED << lay, phase, hl, bc, mem, bootVars >>

\* The host: command 1, address, length and data of each region, at last
\* command 2.  The line holds one item: the loader is faster than the host.
SendItem ==
  /\ line = << >> /\ region <= Len(Regions) + 1
  /\ IF region > Len(Regions)
       THEN line' = << Word(2) >> /\ region' = region + 1 /\ sent' = 0
       ELSE LET r == Regions[region]
            IN /\ line' = << Item(r, sent) >>
               /\ IF sent = LastItem(r)
                    THEN region' = region + 1 /\ sent' = 0
                    ELSE sent' = sent + 1 /\ UNCHANGED region
  /\ UNCHANGED << lay, phase, hl, bc, mem, bootVars >>

\* The phase the loader comes to, unless it has overwritten itself: then it does
\* anything.
Survived(p) == IF Intact(mem') THEN p ELSE "lost"

\* rmtInitialCommandLoop, and the header of a region.  Each byte of it is read by
\* a call.
TakeItem ==
  /\ line # << >> /\ line' = << >>
  /\ mem' = Called(mem)
  /\ \/ /\ phase = "cmd"
        /\ phase' = Survived(IF line[1] = Word(1) THEN "addr"
                             ELSE IF line[1] = Word(2) THEN "launch" ELSE "cmd")
        /\ UNCHANGED << hl, bc >>
     \/ phase = "addr" /\ hl' = line[1][2] /\ phase' = Survived("len") /\ UNCHANGED bc
     \/ phase = "len" /\ bc' = line[1][2] /\ phase' = Survived("data") /\ UNCHANGED hl
  /\ UNCHANGED << hostVars, bootVars >>

\* Mutant of TakeByte: the loop ends before the last byte.
TakeByte_short ==
  /\ phase = "data" /\ line # << >> /\ line' = << >>
  /\ mem' = [Called(mem) EXCEPT ![hl] = line[1]]
  /\ hl' = (hl + 1) % MemSize /\ bc' = (bc - 1) % MemSize
  /\ phase' = Survived(IF bc' <= 1 THEN "cmd" ELSE "data")
  /\ UNCHANGED << hostVars, bootVars >>

\* rmtReceiveDataLoop, which counts before it looks whether it is done.  The byte
\* is written after the call that reads it has returned.
TakeByte ==
  /\ phase = "data" /\ line # << >> /\ line' = << >>
  /\ mem' = [Called(mem) EXCEPT ![hl] = line[1]]
  /\ hl' = (hl + 1) % MemSize /\ bc' = (bc - 1) % MemSize
  /\ phase' = Survived(IF bc' = 0 THEN "cmd" ELSE "data")
  /\ UNCHANGED << hostVars, bootVars >>

\* What Init of the Net-BDOS writes over.
JumpTable == lay.jump..(lay.jump + JumpLen - 1)

\* What rmtLaunchMSXDOS changes by its own instructions: the jump at 5, the kernel's
\* entry, the hooks, a part of page zero; and the jump table, by a call of Init.
Patched ==
  {5, lay.start + 1, lay.start + 2} \union Hooks
    \union ZeroFrom..(ZeroLen - 1) \union JumpTable

\* The patches, a call of rmtZeroSystemArea, and with a new stack the calls of Init
\* and of functions 0Dh and 09h.  Those calls keep SP and DE, set the DMA address, use
\* the new stack and that of the Net-BDOS, and print, with interrupts on: all that
\* is Scratch.
Launch ==
  /\ phase = "launch"
  /\ mem' = [a \in DOMAIN mem |->
               IF a \in Scratch THEN << "scratch", 0 >>
               ELSE IF a \in Patched THEN << "patch", 0 >> ELSE Called(mem)[a]]
  /\ phase' = "check"
  /\ UNCHANGED << hostVars, line, hl, bc, bootVars >>

-----------------------------------------------------------------------------
(* The warm boot.                                                          *)

\* The sum of the resident part's words is compared; other contents may have
\* the same sum.
Checksum ==
  /\ phase = "check"
  /\ phase' = IF resident = "command" THEN "prompt"
              ELSE IF resident = "alike" THEN "stray" ELSE "open"
  /\ UNCHANGED << hostVars, line, hl, bc, mem, bootVars >>

\* Function 0Fh, again and again while it fails, with the size of the file put in
\* the FCB.  The host closes also a file that it could not open.
OpenCommand ==
  /\ phase = "open"
  /\ \/ file = "none" /\ phase' = (IF dies THEN "hung" ELSE "open") /\ UNCHANGED opened
     \/ /\ file # "none" /\ phase' = "load"
        /\ opened' = IF file = "empty" THEN "empty" ELSE "full"
  /\ UNCHANGED << hostVars, line, hl, bc, mem, dies, file, tpa, got, resident,
                  changes, exits, escapes >>

\* Function 27h brings nothing of a file that was empty when it was opened, or is
\* empty or gone now.
Hollow == opened = "empty" \/ file \in {"none", "empty"}

\* Mutant of LoadCommand: the result of 27h is not looked at.
LoadCommand_any ==
  /\ phase = "load"
  /\ \/ file = "none" /\ dies /\ phase' = "hung" /\ UNCHANGED << tpa, got >>
     \/ /\ Hollow /\ ~(file = "none" /\ dies)
        /\ phase' = "run" /\ got' = "nothing" /\ UNCHANGED tpa
     \/ /\ ~Hollow /\ phase' = "run"
        /\ \/ file = "whole" /\ tpa' = "command" /\ got' = "all"
           \/ file = "long" /\ tpa' = "part" /\ got' = "part"
  /\ UNCHANGED << hostVars, line, hl, bc, mem, dies, file, opened, resident,
                  changes, exits, escapes >>

\* Function 27h for D500h bytes.  A read that the file ends in, also one of no
\* bytes, is taken for a success; one that brings all D500h bytes is not.
LoadCommand ==
  /\ phase = "load"
  /\ \/ file = "none" /\ dies /\ phase' = "hung" /\ UNCHANGED << tpa, got >>
     \/ /\ Hollow /\ ~(file = "none" /\ dies)
        /\ phase' = "run" /\ got' = "nothing" /\ UNCHANGED tpa
     \/ /\ ~Hollow /\ file = "whole"
        /\ phase' = "run" /\ tpa' = "command" /\ got' = "all"
     \/ /\ ~Hollow /\ file = "long"
        /\ phase' = "open" /\ tpa' = "part" /\ got' = "part"
  /\ UNCHANGED << hostVars, line, hl, bc, mem, dies, file, opened, resident,
                  changes, exits, escapes >>

\* ESC, while 0Fh or 27h listens for the host, leaves the call with A = FFh.  That is
\* a failure of the open, which is tried again; of 27h it is a success.
EscapeCall ==
  /\ phase \in {"open", "load"} /\ escapes < MaxEscapes /\ escapes' = escapes + 1
  /\ IF phase = "load" THEN phase' = "run" /\ got' = "escape"
                       ELSE UNCHANGED << phase, got >>
  /\ UNCHANGED << hostVars, line, hl, bc, mem, dies, file, opened, tpa, resident,
                  changes, exits >>

\* jp $100: COMMAND.COM (external) puts its resident part in place.
Run ==
  /\ phase = "run"
  /\ IF tpa = "command" THEN phase' = "prompt" /\ resident' = "command"
                        ELSE phase' = "stray" /\ UNCHANGED resident
  /\ UNCHANGED << hostVars, line, hl, bc, mem, dies, loadVars, changes, exits, escapes >>

\* A program (external) has run and ends; it may have used the memory of the
\* resident part.  What else it has changed, mem does not follow.
Exit ==
  /\ phase = "prompt" /\ exits < MaxExits /\ exits' = exits + 1
  /\ resident' \in {"command", "other", "alike"} /\ tpa' = "old"
  /\ phase' = "check"
  /\ UNCHANGED << hostVars, line, hl, bc, mem, dies, file, opened, got, changes, escapes >>

\* Users of the host write COMMAND.COM.
FileChanges ==
  /\ changes < MaxChanges /\ changes' = changes + 1
  /\ file' \in {"none", "empty", "whole", "long"}
  /\ UNCHANGED << hostVars, line, phase, hl, bc, mem, dies, opened, tpa, got, resident,
                  exits, escapes >>

-----------------------------------------------------------------------------
System == SendItem \/ TakeItem \/ TakeByte \/ Launch \/ Checksum \/ OpenCommand
            \/ LoadCommand \/ Run
Next == System \/ EscapeCall \/ Exit \/ FileChanges

Spec == Init /\ [][Next]_vars
\* Both programs run; programs and users do as they like.
FairSpec == Spec /\ WF_vars(System)

-----------------------------------------------------------------------------
(* Properties.                                                             *)

TypeOK ==
  /\ lay \in Layouts /\ region \in 1..(Len(Regions) + 2) /\ sent \in 0..(MemSize + 2)
  /\ phase \in {"cmd", "addr", "len", "data", "launch", "lost", "check", "open",
                "load", "run", "prompt", "stray", "hung"}
  /\ hl \in 0..MemSize /\ bc \in 0..MemSize
  /\ DOMAIN mem = 0..(MemSize - 1)
  /\ line = << >> \/ line[1] \in {"word", "image", "net", "com"} \X (0..MemSize)
  /\ dies \in BOOLEAN /\ file \in {"none", "empty", "whole", "long"}
  /\ opened \in {"none", "empty", "full"} /\ (phase = "load" => opened # "none")
  /\ tpa \in {"old", "part", "command"} /\ got \in {"all", "part", "nothing", "escape"}
  /\ resident \in {"other", "command", "alike"}
  /\ changes \in 0..MaxChanges /\ exits \in 0..MaxExits /\ escapes \in 0..MaxEscapes

\* The layouts for which the upload is right: the kernel begins before the
\* loader, which then is below the work area, or behind it; no other region
\* meets the loader, nor does its stack.
Fits ==
  /\ lay.boot < lay.bootEnd /\ ZeroLen <= lay.boot /\ Slot \intersect Loader = {}
  /\ \/ lay.start < lay.boot /\ lay.bootEnd < WorkArea
     \/ lay.bootEnd <= lay.start /\ lay.start < WorkArea
  /\ NetAt + lay.net <= lay.boot \/ lay.bootEnd <= NetAt
  /\ NetAt + lay.net <= WorkArea
  /\ ZeroLen + LeastOf(lay.com, ComMax) <= lay.boot
       \/ lay.bootEnd <= ZeroLen
       \/ lay.com = 0

\* The upload never writes on the loader that receives it.
LoaderIntact == Fits => phase # "lost"

\* The contents that the regions give to an address, the last one winning.
Covering(a) == { i \in DOMAIN Regions : a \in Regions[i].at..(Regions[i].at + Regions[i].len - 1) }
Wanted(a) ==
  IF Covering(a) = {}
    THEN IF a \in Loader THEN << "loader", a >> ELSE << "old", a >>
    ELSE LET i == CHOOSE i \in Covering(a) : \A j \in Covering(a) : j <= i
         IN << Regions[i].what, Regions[i].from + a - Regions[i].at >>

\* When the launch begins, memory is what the host has sent, every region at its
\* place and to its last byte, and untouched elsewhere, the memory of the BIOS
\* included; but for the two bytes of the loader's stack.  It still is when the
\* first warm boot begins, but for the patches and for what the calls of the launch
\* write.
MemoryAsSent ==
  Fits =>
    \A a \in DOMAIN mem \ Slot :
      \/ phase = "launch"
      \/ phase = "check" /\ exits = 0 /\ a \notin Patched \union Scratch
      => mem[a] = Wanted(a)

\* A part of COMMAND.COM, or what else is at 100h, is started only if the last 27h has
\* brought nothing - the file was empty when it was opened, or empty or gone when it
\* was read - or was left by ESC; other contents that have the same sum are taken
\* for the resident part.
CommandStarted == phase = "stray" => got \in {"nothing", "escape"} \/ resident = "alike"

\* As long as COMMAND.COM is there, a workstation comes to the prompt, or starts what
\* CommandStarted allows; also after times when it was not there, unless the host has
\* died of that, for which the workstation then waits without a limit.
Prompt ==
  (Fits /\ ~(phase = "hung" /\ dies)) ~> (phase \in {"prompt", "stray"} \/ file # "whole")
=============================================================================
