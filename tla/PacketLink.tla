----------------------------- MODULE PacketLink -----------------------------
(***************************************************************************)
(* The packet protocol of the host (PacketSender) under the senders of     *)
(* PacketScripts, and a workstation that executes the packets.             *)
(*                                                                         *)
(* The host sends one packet, waits until something that ends like a       *)
(* packet has arrived, and takes it for the acknowledgement: answers carry *)
(* no number and nobody compares their kind.  An answer that is late thus  *)
(* acknowledges the next packet, and all later answers one packet more     *)
(* than they should.                                                       *)
(***************************************************************************)
EXTENDS PacketScripts

CONSTANTS
  Sessions,    \* sequences of files to send in one run of the program
  RxMax,       \* 256, bytes in the receive buffer beyond which it is emptied
  LongAnswer,  \* 96, bytes of an answer with an FCB
  ShortAnswer, \* 6, bytes of any other answer
  MaxEarly,    \* bound: waits that end although an answer would still come
  MaxLost      \* bound: packets that the workstation does not get

ASSUME PacketAssumption ==
  /\ Sessions \subseteq Seq(Jobs)
  /\ \A s \in Sessions : \A f \in 2..Len(s) : s[f].kind # "boot"   \* it comes first
  /\ RxMax \in Nat /\ LongAnswer \in 1..RxMax /\ ShortAnswer \in 1..RxMax
  /\ MaxEarly \in Nat /\ MaxLost \in Nat

VARIABLES
  jobs,     \* files still to send, the one being sent included
  file,     \* number of the file being sent
  script,   \* packets of that file still to be acknowledged
  waiting,  \* the first of them is sent and waitRx runs
  outcome,  \* "none", "done" or "exit"
  rxFcb,    \* m_RxData, the FCB of the latest answer that was parsed
  rxWhole,  \* answers that are whole in the receive buffer
  rxPart,   \* the beginning of another one is behind them
  rxCut,    \* the first answer on the line has lost its beginning
  net,      \* packets on their way to the workstation
  line,     \* answers on their way to the host, those in its buffer included
  station,  \* the workstation
  early,    \* history: number of waits that ended early
  lost,     \* history: the packets that were lost
  unparsed  \* history: an FCB arrived and was not looked at

hostVars == << jobs, file, script, waiting, outcome, rxFcb >>
history == << early, lost, unparsed >>
rxVars == << rxWhole, rxPart, rxCut >>
vars == << hostVars, rxVars, net, line, station, history >>

\* FCB of file f before record r.  File 0: m_RxData was never set.
Fcb(f, r) == [file |-> f, rec |-> r]
NoFcb == Fcb(0, 0)

Init ==
  /\ jobs \in Sessions
  /\ file = 0 /\ script = << >> /\ waiting = FALSE /\ outcome = "none"
  /\ rxFcb = NoFcb
  /\ rxWhole = 0 /\ rxPart = FALSE /\ rxCut = FALSE
  /\ net = << >> /\ line = << >>
  /\ station = [disk |-> [f \in 0..Len(jobs) |-> << >>],    \* sectors of the files
                closed |-> [f \in 0..Len(jobs) |-> 0],      \* records when closed
                buffer |-> << >>,                           \* blocks of a sector
                image |-> 0, loaded |-> 0, complete |-> FALSE,
                used |-> "nothing"]
  /\ early = 0 /\ lost = << >> /\ unparsed = FALSE

-----------------------------------------------------------------------------
(* The workstation (external): it executes packets in their order, each    *)
(* with an answer.                                                         *)

Sized(cmd) == IF cmd \in {"created", "written", "closed"} THEN LongAnswer ELSE ShortAnswer
Answer(cmd, fcb) == [cmd |-> cmd, fcb |-> fcb]
Ack == Answer("ack", NoFcb)

Block(p) == [at |-> p.at, n |-> p.n, last |-> p.last]

\* Blocks go into a buffer; a write command puts them at the record of the FCB
\* that comes with it, and returns the FCB behind that record.
Stored(sectors, rec, s) ==
  IF rec < Len(sectors) THEN [sectors EXCEPT ![rec + 1] = s] ELSE Append(sectors, s)

Executed(p) ==
  CASE p.cmd = "data" -> [station EXCEPT !.buffer = << Block(p) >>]
    [] p.cmd = "data2" -> [station EXCEPT !.buffer = Append(@, Block(p))]
    [] p.cmd = "create" -> [station EXCEPT !.disk[p.fcb.file] = << >>]
    [] p.cmd = "write" ->
         [station EXCEPT !.disk[p.fcb.file] = Stored(@, p.fcb.rec, station.buffer)]
    [] p.cmd = "close" -> [station EXCEPT !.closed[p.fcb.file] = p.fcb.rec]
    [] p.cmd = "header" -> [station EXCEPT !.image = p.n, !.loaded = 0, !.complete = FALSE]
    [] p.cmd = "block" ->
         [station EXCEPT !.loaded = IF p.at = @ THEN @ + p.n ELSE @,
                         !.complete = p.last]
    [] p.cmd \in {"command", "poke"} /\ station.image # 0 ->
         [station EXCEPT !.used = IF station.complete /\ station.loaded = station.image
                                    THEN "whole" ELSE "part"]
    [] OTHER -> station

AnswerTo(p) ==
  CASE p.cmd = "ping" -> Answer("pong", NoFcb)
    [] p.cmd = "create" -> Answer("created", Fcb(p.fcb.file, 0))
    [] p.cmd = "write" -> Answer("written", Fcb(p.fcb.file, p.fcb.rec + 1))
    [] p.cmd = "close" -> Answer("closed", p.fcb)
    [] OTHER -> Ack

Execute ==
  /\ net # << >>
  /\ station' = Executed(Head(net))
  /\ line' = Append(line, AnswerTo(Head(net)))
  /\ net' = Tail(net)
  /\ UNCHANGED << hostVars, rxVars, history >>

\* A packet whose checksum is wrong, or that nobody listened to.
Lose ==
  /\ net # << >> /\ Len(lost) < MaxLost
  /\ lost' = Append(lost, Head(net))
  /\ net' = Tail(net)
  /\ UNCHANGED << hostVars, rxVars, line, station, early, unparsed >>

-----------------------------------------------------------------------------
(* The host: sending.                                                      *)

\* The loops of ncopy and netSend over the files.
NextFile ==
  /\ outcome = "none" /\ script = << >>
  /\ IF file = Len(jobs)
       THEN outcome' = "done" /\ UNCHANGED << file, script >>
       ELSE /\ file' = file + 1
            /\ script' = ScriptOf(jobs[file + 1])
            /\ UNCHANGED outcome
  /\ UNCHANGED << jobs, waiting, rxFcb, rxVars, net, line, station, history >>

\* The FCB in a packet: a create makes one from the name, writes and closes take
\* what the latest parsed answer brought.
Outgoing(p) ==
  [cmd |-> p.cmd, at |-> p.at, n |-> p.n, last |-> p.last,
   fcb |-> IF p.cmd = "create" THEN Fcb(file, 0)
           ELSE IF p.cmd \in {"write", "close"} THEN rxFcb ELSE NoFcb]

Send ==
  /\ outcome = "none" /\ script # << >> /\ ~waiting
  /\ net' = Append(net, Outgoing(Head(script)))
  /\ waiting' = TRUE
  /\ UNCHANGED << jobs, file, script, outcome, rxFcb, rxVars, line, station, history >>

-----------------------------------------------------------------------------
(* The host: receiving.  RxHandler appends what read() returns to the      *)
(* buffer, which is empty when a wait begins.                              *)

\* Bytes of the first j answers, and of the first j with a part of the next.
WholeBytes(j) ==
  LET b[i \in 0..j] == IF i = 0 THEN 0 ELSE b[i - 1] + Sized(line[i].cmd) IN b[j]

\* The first n answers are gone, and the beginning of the next if part.
Dropped(n, part) ==
  /\ line' = SubSeq(line, n + 1, Len(line))
  /\ rxCut' = IF n = 0 /\ ~part THEN rxCut ELSE part

\* The FCBs of these answers never reach CheckPacket.
Unparsed(answers) == \E i \in DOMAIN answers : answers[i].cmd \in {"created", "written"}

\* Mutant of Parsed: answers to a write are not looked at.
Parsed_createOnly(a) == IF a.cmd = "created" /\ ~rxCut THEN a.fcb ELSE rxFcb

\* CheckPacket looks at the beginning of the buffer only, and at answers with
\* an FCB only.  (What is left of a cut answer might look like a packet when
\* its FCB holds the bytes 78h 00h; names that dosname makes do not.)
Parsed(a) ==
  IF a.cmd \in {"created", "written", "closed"} /\ ~rxCut THEN a.fcb ELSE rxFcb

\* Mutant of BufferEmptied: what was received stays.
BufferEmptied_not == UNCHANGED << rxWhole, rxPart >>

\* pos = 0, when a block or a command has been sent or the buffer overruns.
BufferEmptied == rxWhole' = 0 /\ rxPart' = FALSE

\* The buffer ends with the end mark of a packet, the j-th answer: that is the
\* acknowledgement of the packet that was sent.
Hear(j) ==
  /\ waiting
  /\ j \in 1..Len(line)
  /\ rxPart => j > rxWhole
  /\ WholeBytes(j) <= RxMax
  /\ rxFcb' = Parsed(line[1])
  /\ Dropped(j, FALSE)
  /\ unparsed' = (unparsed \/ Unparsed(SubSeq(line, 2, j)) \/ (rxCut /\ Unparsed(<< line[1] >>)))
  /\ BufferEmptied
  /\ waiting' = FALSE /\ script' = Tail(script)
  /\ UNCHANGED << jobs, file, outcome, net, station, early, lost >>

\* Mutant of HearPart: any bytes acknowledge.
HearPart_acknowledges(j) ==
  /\ waiting
  /\ j \in rxWhole..(Len(line) - 1)
  /\ Dropped(j, TRUE)
  /\ waiting' = FALSE /\ script' = Tail(script)
  /\ UNCHANGED << jobs, file, outcome, rxFcb, rxWhole, rxPart, net, station, history >>

\* The buffer ends within an answer, and read() is called again.
HearPart(j) ==
  /\ waiting
  /\ j \in rxWhole..(Len(line) - 1)
  /\ ~(rxPart /\ j = rxWhole)
  /\ WholeBytes(j) < RxMax
  /\ rxWhole' = j /\ rxPart' = TRUE
  /\ UNCHANGED << hostVars, rxCut, net, line, station, history >>

\* More than RxMax bytes, the last of them within an answer if part: the buffer is
\* emptied and the wait goes on.
Overrun(j, part) ==
  LET n == IF part THEN j + 1 ELSE j IN
    /\ waiting
    /\ n \in 1..Len(line)
    /\ rxPart => j > rxWhole \/ (part /\ j = rxWhole)
    /\ IF part THEN WholeBytes(n) > RxMax + 1 ELSE WholeBytes(n) > RxMax
    /\ Dropped(j, part)
    /\ unparsed' = (unparsed \/ Unparsed(SubSeq(line, 1, n)))
    /\ BufferEmptied
    /\ UNCHANGED << hostVars, net, station, early, lost >>

\* Nothing is on its way in either direction.
Quiet == net = << >> /\ line = << >>

\* What the senders do without an acknowledgement.
Unacknowledged(p) ==
  /\ waiting' = FALSE
  /\ \/ p.unacked = "again" /\ UNCHANGED << script, outcome >>
     \/ p.unacked = "on" /\ script' = Tail(script) /\ UNCHANGED outcome
     \/ p.unacked = "leave" /\ script' = << >> /\ UNCHANGED outcome
     \/ p.unacked = "exit" /\ outcome' = "exit" /\ UNCHANGED script

\* Mutant of IntentsUsedUp: only reads are counted.
IntentsUsedUp_byReads == ~Quiet /\ early < MaxEarly

\* waitRx has counted its intents, timeouts of select() and reads that did not
\* end a packet alike.
IntentsUsedUp == Quiet \/ early < MaxEarly

\* What is in the buffer goes.
GiveUp ==
  /\ waiting /\ IntentsUsedUp
  /\ early' = IF Quiet THEN early ELSE early + 1
  /\ unparsed' = (unparsed \/ Unparsed(SubSeq(line, 1, rxWhole + (IF rxPart THEN 1 ELSE 0))))
  /\ Dropped(rxWhole, rxPart)
  /\ BufferEmptied
  /\ Unacknowledged(Head(script))
  /\ UNCHANGED << jobs, file, rxFcb, net, station, lost >>

-----------------------------------------------------------------------------
HostHears ==
  \E j \in 0..Len(line) : Hear(j) \/ Overrun(j, TRUE) \/ Overrun(j, FALSE)

Next ==
  \/ Execute \/ Lose
  \/ NextFile \/ Send \/ HostHears \/ GiveUp
  \/ \E j \in 0..Len(line) : HearPart(j)

Spec == Init /\ [][Next]_vars

\* Both programs run, and waitRx ends when nothing comes.
FairSpec ==
  /\ Spec
  /\ WF_vars(Execute) /\ WF_vars(NextFile) /\ WF_vars(Send)
  /\ WF_vars(HostHears) /\ WF_vars(Quiet /\ GiveUp)

-----------------------------------------------------------------------------
(* Properties.                                                             *)

Commands ==
  {"ping", "create", "data", "data2", "write", "close", "header", "block", "command", "poke"}
FcbType == [file : Nat, rec : Nat]
BlockType == [at : Nat, n : Nat, last : BOOLEAN]
PacketType == [cmd : Commands, at : Nat, n : Nat, last : BOOLEAN, fcb : FcbType]

\* Types; the receive buffer never holds more than is on the line.
TypeOK ==
  /\ file \in 0..Len(jobs)
  /\ waiting \in BOOLEAN /\ (waiting => script # << >> /\ outcome = "none")
  /\ outcome \in {"none", "done", "exit"}
  /\ rxFcb \in FcbType
  /\ rxPart \in BOOLEAN /\ rxCut \in BOOLEAN
  /\ rxWhole \in 0..Len(line) /\ (rxPart => rxWhole < Len(line))
  /\ (~waiting => rxWhole = 0 /\ ~rxPart)
  /\ \A i \in DOMAIN net : net[i] \in PacketType
  /\ \A i \in DOMAIN line :
       line[i] \in [cmd : {"pong", "ack", "created", "written", "closed"}, fcb : FcbType]
  /\ station \in [disk : [0..Len(jobs) -> Seq(Seq(BlockType))], closed : [0..Len(jobs) -> Nat],
                  buffer : Seq(BlockType), image : Nat, loaded : Nat, complete : BOOLEAN,
                  used : {"nothing", "part", "whole"}]
  /\ early \in 0..MaxEarly

\* While no wait has ended early, the only thing on the line is the packet that
\* the host waits for, or its answer: what ReceivePacket takes for the
\* acknowledgement is the acknowledgement (RxHandler compares nothing).
InTurn ==
  early = 0 =>
    \/ Quiet
    \/ waiting /\ net = << Outgoing(Head(script)) >> /\ line = << >>
    \/ waiting /\ net = << >> /\ line = << AnswerTo(Outgoing(Head(script))) >>

\* The blocks of a sector: all its bytes once, in order, the last one marked.
HoldsBytes(blocks, from, to) ==
  /\ blocks # << >>
  /\ blocks[1].at = from
  /\ \A i \in DOMAIN blocks :
       /\ blocks[i].at + blocks[i].n = IF i = Len(blocks) THEN to ELSE blocks[i + 1].at
       /\ blocks[i].last <=> i = Len(blocks)

\* The sectors of a copy that is a prefix of the file.
SectorsOf(f) ==
  /\ Len(station.disk[f]) = jobs[f].bytes \div Sector
  /\ \A s \in DOMAIN station.disk[f] :
       HoldsBytes(station.disk[f][s], (s - 1) * Sector, s * Sector)

\* Copies that the host has finished.
Finished(f) ==
  /\ jobs[f].kind = "copy"
  /\ f < file \/ (f = file /\ script = << >>)

Lost(cmds) == \E i \in DOMAIN lost : lost[i].cmd \in cmds

\* A copy that the host goes on from is on the disk of the workstation, with all
\* whole sectors and closed behind the last, if no wait ended early and no data
\* block was lost (whatever else was: the sender notices).
CopiesRight ==
  early = 0 /\ ~Lost({"data", "data2"}) =>
    \A f \in 1..Len(jobs) : Finished(f) =>
      SectorsOf(f) /\ station.closed[f] = jobs[f].bytes \div Sector

\* Late answers that are looked at come in time: the three data blocks of a sector,
\* whose acknowledgements nobody checks, let each write carry the FCB behind the record
\* before (GetNetFCB) although up to three waits ended early; nothing lost, and once
\* the workstation has done everything.  This assumes that no FCB stayed unparsed: each
\* came at the beginning of what was received in its wait, and no overrun took it.
\* CheckPacket looks at no other place, so that one early end after which one read
\* returns an acknowledgement and the answer to a write is enough for the next sector to
\* overwrite the one before.  The length at which the file is closed may be wrong
\* in any case.
ParsedAnswersInTime ==
  /\ outcome = "done" /\ net = << >>
  /\ early <= SectorPackets /\ lost = << >> /\ ~unparsed
  => \A f \in 1..Len(jobs) : jobs[f].kind = "copy" => SectorsOf(f)

\* A program is not started, and its end not poked, before all of it is there:
\* if nothing was lost, however late the answers; or if no wait ended early and
\* no last block was lost, the only one that may go unacknowledged.
StartedWhole ==
  \/ lost = << >>
  \/ early = 0
     /\ \A i \in DOMAIN lost : ~(lost[i].cmd = "block" /\ lost[i].last)
  => station.used # "part"

\* The program ends: every loop of it does, when answers are late or packets lost
\* only finitely often.
Ends == <>(outcome # "none")

\* msxnet.cpp:70, "copy files to CP/M ramdisk": all bytes of the file.
WholeFileCopied ==
  outcome = "done" =>
    \A f \in 1..Len(jobs) :
      jobs[f].kind = "copy" => Sector * Len(station.disk[f]) >= jobs[f].bytes
=============================================================================
