--------------------------- MODULE PacketScripts ---------------------------
(***************************************************************************)
(* What the older modes of the host program send to a workstation, packet  *)
(* by packet: file copies (ncopy.cpp), programs (basicsend.cpp) and the    *)
(* first phase of the bootstrap (spy.cpp).  A script is the sequence of    *)
(* packets of one file when every packet is acknowledged.                  *)
(***************************************************************************)
EXTENDS Integers, Sequences

CONSTANTS
  BlockMax,  \* 56, bytes of data in a packet
  Sector     \* 128, bytes that one NET_WRITE_FILE writes

ASSUME ScriptAssumption == BlockMax \in Nat \ {0} /\ Sector \in Nat \ {0}

\* unacked: what the sender does when the acknowledgement is not there in time:
\* "again" sends the packet again, "on" goes on with the next, "leave" gives up
\* the file, "exit" ends the program (eggog).
\* at, n: position and number of the bytes that the packet carries (n also: the
\* length that a header announces); last: its end mark is LAST.
Packet(cmd, unacked) == [cmd |-> cmd, unacked |-> unacked, at |-> 0, n |-> 0, last |-> TRUE]
Carrying(cmd, unacked, at, n, last) ==
  [cmd |-> cmd, unacked |-> unacked, at |-> at, n |-> n, last |-> last]

\* pingPong repeats the ping until there is an answer.
Ping == Packet("ping", "again")

-----------------------------------------------------------------------------
(* The copy of a file.                                                     *)

CeilDiv(n, k) == (n + k - 1) \div k
SectorPackets == CeilDiv(Sector, BlockMax)

\* Mutant of DataPacket: one byte less in each block but the last.
DataPacket_short(s, i) ==
  LET left == Sector - (i - 1) * BlockMax IN
    Carrying(IF i = 1 THEN "data" ELSE "data2", "on", s * Sector + (i - 1) * BlockMax,
             IF left > BlockMax THEN BlockMax - 1 ELSE left, left <= BlockMax)

\* Block i of the sector s: SendPacket cuts NET_MASTER_DATA into blocks and does
\* not look whether they are acknowledged.
DataPacket(s, i) ==
  LET left == Sector - (i - 1) * BlockMax IN
    Carrying(IF i = 1 THEN "data" ELSE "data2", "on", s * Sector + (i - 1) * BlockMax,
             IF left > BlockMax THEN BlockMax ELSE left, left <= BlockMax)

\* A sector: its data, then the command that writes it.
SectorPacket(s, i) ==
  IF i <= SectorPackets THEN DataPacket(s, i)
  ELSE Carrying("write", "exit", s * Sector, 0, TRUE)

\* Packet k of all sectors.
BodyPacket(k) ==
  LET per == SectorPackets + 1 IN SectorPacket((k - 1) \div per, ((k - 1) % per) + 1)

\* sendFile; fread gives whole sectors only.
CopyScript(size) ==
  << Ping, Packet("create", "exit") >>
  \o [k \in 1..((SectorPackets + 1) * (size \div Sector)) |-> BodyPacket(k)]
  \o << Packet("close", "exit") >>

-----------------------------------------------------------------------------
(* Programs.                                                               *)

\* Mutant of ImageBlocks: the last block ends before the last byte.
ImageBlocks_short(n) ==
  LET full == (n - 1) \div BlockMax IN
    [i \in 1..full |-> Carrying("block", "exit", (i - 1) * BlockMax, BlockMax, FALSE)]
    \o << Carrying("block", "on", full * BlockMax, (n - 1) - full * BlockMax, TRUE) >>

\* sendBlocks for n bytes: end - start is n - 1.  The acknowledgement of the
\* last block is waited for and its absence ignored.
ImageBlocks(n) ==
  LET full == (n - 1) \div BlockMax IN
    [i \in 1..full |-> Carrying("block", "exit", (i - 1) * BlockMax, BlockMax, FALSE)]
    \o << Carrying("block", "on", full * BlockMax, (n - 1) - full * BlockMax + 1, TRUE) >>

\* sendSHEXHeader and sendBlocks.
LoadScript(n) ==
  << Ping, Carrying("header", "leave", 0, n, TRUE) >> \o ImageBlocks(n)

\* runROM: a late acknowledgement is only a warning.
RunScript == << Ping, Packet("command", "on") >>

\* sendROM of 8K or 16K and sendBIN: one image; sendROM of 32K: two halves.
ProgramScript(n) == LoadScript(n) \o RunScript
HalvesScript(n) == ProgramScript(n) \o ProgramScript(n)

\* sendBASIC: the end of the program is poked where BASIC keeps it.
BasicScript(n) == LoadScript(n) \o << Packet("poke", "leave"), Packet("poke", "leave") >>

\* Spy::Bootstrap, phase 1: a command without a ping, then a program.
BootScript(n) == << Packet("command", "leave") >> \o ProgramScript(n)

\* Files to send: kind and bytes.  A program has at least one: netSend does not go
\* on from an empty file, and a BIN that ends before its start is left out.
Jobs == [kind : {"copy"}, bytes : Nat]
        \union [kind : {"program", "halves", "basic", "boot"}, bytes : Nat \ {0}]

ScriptOf(job) ==
  CASE job.kind = "copy" -> CopyScript(job.bytes)
    [] job.kind = "program" -> ProgramScript(job.bytes)
    [] job.kind = "halves" -> HalvesScript(job.bytes)
    [] job.kind = "basic" -> BasicScript(job.bytes)
    [] job.kind = "boot" -> BootScript(job.bytes)
=============================================================================
