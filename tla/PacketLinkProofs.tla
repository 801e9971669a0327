-------------------------- MODULE PacketLinkProofs --------------------------
(***************************************************************************)
(* Proofs about PacketLink, for any files, sizes of blocks and buffers,    *)
(* and any number of late answers and lost packets.                        *)
(***************************************************************************)
EXTENDS PacketLink, SequenceTheorems, TLAPS

\* What a wait relies on: it belongs to a packet, and counts are numbers.
Waits ==
  /\ waiting \in BOOLEAN /\ (waiting => script # << >>)
  /\ early \in Nat
  /\ rxWhole \in Nat

\* The inductive invariant.
TurnInv == Waits /\ InTurn

LEMMA TurnInit == Init => TurnInv
<1> SUFFICES ASSUME Init PROVE TurnInv
  OBVIOUS
<1>1. waiting = FALSE /\ early = 0 /\ rxWhole = 0 /\ net = << >> /\ line = << >>
  BY DEF Init
<1>2. Waits
  BY <1>1 DEF Waits
<1>3. Quiet
  BY <1>1 DEF Quiet
<1> QED
  BY <1>2, <1>3 DEF TurnInv, InTurn

LEMMA ExecuteTurn == TurnInv /\ Execute => TurnInv'
<1> SUFFICES ASSUME TurnInv, Execute PROVE TurnInv'
  OBVIOUS
<1> USE DEF Execute, hostVars, rxVars, history
<1>1. Waits'
  BY DEF TurnInv, Waits
<1>2. ASSUME early = 0
      PROVE waiting /\ net' = << >> /\ line' = << AnswerTo(Outgoing(Head(script))) >>
  <2>1. waiting /\ net = << Outgoing(Head(script)) >> /\ line = << >>
    BY <1>2 DEF TurnInv, InTurn, Quiet
  <2>2. Head(net) = Outgoing(Head(script)) /\ Tail(net) = << >>
    BY <2>1
  <2>3. Append(line, AnswerTo(Head(net))) = << AnswerTo(Outgoing(Head(script))) >>
    BY <2>1, <2>2
  <2> QED
    BY <2>1, <2>2, <2>3
<1>3. Outgoing(Head(script))' = Outgoing(Head(script))
  BY DEF Outgoing, Fcb, NoFcb
<1>4. InTurn'
  BY <1>2, <1>3 DEF InTurn, AnswerTo, Answer, Ack, Fcb, NoFcb
<1> QED
  BY <1>1, <1>4 DEF TurnInv

\* What is left of the one answer that is on the line when it is dropped, and
\* when only its beginning is.
LEMMA OneDropped ==
  ASSUME NEW a, NEW j \in Nat, j >= 1
  PROVE SubSeq(<< a >>, j + 1, Len(<< a >>)) = << >>
OBVIOUS

LEMMA NoneDropped ==
  ASSUME NEW a
  PROVE SubSeq(<< a >>, 1, Len(<< a >>)) = << a >>
BY << a >> \in Seq({a}), SubSeqFull

LEMMA HearTurn ==
  ASSUME TurnInv, NEW j \in Nat, Hear(j)
  PROVE TurnInv'
<1>1. Waits'
  BY DEF TurnInv, Waits, Hear, BufferEmptied
<1>2. /\ j >= 1 /\ line # << >> /\ net' = net /\ early' = early
      /\ line' = SubSeq(line, j + 1, Len(line))
  BY DEF Hear, Dropped
<1>3. ASSUME early = 0
      PROVE net' = << >> /\ line' = << >>
  <2>1. net = << >> /\ line = << AnswerTo(Outgoing(Head(script))) >>
    BY <1>2, <1>3 DEF TurnInv, InTurn, Quiet
  <2>2. PICK a : line = << a >>
    BY <2>1
  <2>3. line' = << >>
    BY <1>2, <2>2, OneDropped
  <2> QED
    BY <1>2, <2>1, <2>3
<1>4. InTurn'
  BY <1>2, <1>3 DEF InTurn, Quiet
<1> QED
  BY <1>1, <1>4 DEF TurnInv

LEMMA OverrunTurn ==
  ASSUME TurnInv, NEW j \in Nat, NEW part \in BOOLEAN, Overrun(j, part)
  PROVE TurnInv'
<1>1. Waits'
  BY DEF TurnInv, Waits, Overrun, BufferEmptied, hostVars
<1>2. /\ line # << >> /\ UNCHANGED << hostVars, net, early >> /\ waiting
      /\ line' = SubSeq(line, j + 1, Len(line))
  BY DEF Overrun, Dropped
<1>3. ASSUME early = 0
      PROVE \/ net' = << >> /\ line' = << >>
            \/ net' = << >> /\ line' = << AnswerTo(Outgoing(Head(script))) >>
  <2>1. net = << >> /\ line = << AnswerTo(Outgoing(Head(script))) >>
    BY <1>2, <1>3 DEF TurnInv, InTurn, Quiet
  <2>2. PICK a : line = << a >>
    BY <2>1
  <2>3. CASE j = 0
    <3>1. line' = line
      BY <1>2, <2>2, <2>3, NoneDropped
    <3> QED
      BY <1>2, <2>1, <3>1
  <2>4. CASE j >= 1
    <3>1. line' = << >>
      BY <1>2, <2>2, <2>4, OneDropped
    <3> QED
      BY <1>2, <2>1, <3>1
  <2> QED
    BY <2>3, <2>4
<1>4. Outgoing(Head(script))' = Outgoing(Head(script))
  BY <1>2 DEF Outgoing, Fcb, NoFcb, hostVars
<1>5. AnswerTo(Outgoing(Head(script)))' = AnswerTo(Outgoing(Head(script)))
  BY <1>4 DEF AnswerTo, Answer, Ack, Fcb, NoFcb
<1>6. InTurn'
  BY <1>2, <1>3, <1>5 DEF InTurn, Quiet, hostVars
<1> QED
  BY <1>1, <1>6 DEF TurnInv

LEMMA SendTurn == TurnInv /\ Send => TurnInv'
<1> SUFFICES ASSUME TurnInv, Send PROVE TurnInv'
  OBVIOUS
<1> USE DEF Send, rxVars, history
<1>1. Waits'
  BY DEF TurnInv, Waits
<1>2. ASSUME early = 0
      PROVE net' = << Outgoing(Head(script)) >> /\ line' = << >>
  <2>1. net = << >> /\ line = << >>
    BY <1>2 DEF TurnInv, InTurn, Quiet
  <2>2. net' = Append(net, Outgoing(Head(script))) /\ line' = line
    OBVIOUS
  <2> QED
    BY ONLY <2>1, <2>2
<1>3. Outgoing(Head(script))' = Outgoing(Head(script))
  BY DEF Outgoing, Fcb, NoFcb
<1>4. InTurn'
  BY <1>2, <1>3 DEF InTurn
<1> QED
  BY <1>1, <1>4 DEF TurnInv

LEMMA NextFileTurn == TurnInv /\ NextFile => TurnInv'
<1> SUFFICES ASSUME TurnInv, NextFile PROVE TurnInv'
  OBVIOUS
<1> USE DEF NextFile, rxVars, history
<1>1. ~waiting
  BY DEF TurnInv, Waits
<1>2. Waits'
  BY <1>1 DEF TurnInv, Waits
<1>3. InTurn'
  BY <1>1 DEF TurnInv, InTurn, Quiet
<1> QED
  BY <1>2, <1>3 DEF TurnInv

LEMMA GiveUpTurn == TurnInv /\ GiveUp => TurnInv'
<1> SUFFICES ASSUME TurnInv, GiveUp PROVE TurnInv'
  OBVIOUS
<1>1. /\ early' = IF net = << >> /\ line = << >> THEN early ELSE early + 1
      /\ line' = SubSeq(line, rxWhole + 1, Len(line))
      /\ waiting' = FALSE /\ rxWhole' = 0 /\ net' = net
      /\ early \in Nat /\ rxWhole \in Nat
  BY DEF GiveUp, Quiet, Dropped, BufferEmptied, Unacknowledged, TurnInv, Waits
<1>2. Waits'
  <2>1. early' \in Nat
    BY <1>1
  <2> QED
    BY <1>1, <2>1 DEF Waits
<1>3. CASE net = << >> /\ line = << >>
  <2>1. line' = << >> /\ net' = << >>
    BY ONLY <1>1, <1>3
  <2> QED
    BY <1>2, <2>1 DEF TurnInv, InTurn, Quiet
<1>4. CASE ~(net = << >> /\ line = << >>)
  <2>1. early' # 0
    BY <1>1, <1>4
  <2> QED
    BY <1>2, <2>1 DEF TurnInv, InTurn
<1> QED
  BY <1>3, <1>4

LEMMA LoseTurn == TurnInv /\ Lose => TurnInv'
<1> SUFFICES ASSUME TurnInv, Lose PROVE TurnInv'
  OBVIOUS
<1> USE DEF Lose, hostVars, rxVars
<1>1. Waits'
  BY DEF TurnInv, Waits
<1>2. ASSUME early = 0 PROVE net' = << >> /\ line' = << >>
  <2>1. net = << Outgoing(Head(script)) >> /\ line = << >>
    BY <1>2 DEF TurnInv, InTurn, Quiet
  <2>2. net' = Tail(net) /\ line' = line
    OBVIOUS
  <2> QED
    BY ONLY <2>1, <2>2
<1>3. InTurn'
  BY <1>2 DEF InTurn, Quiet
<1> QED
  BY <1>1, <1>3 DEF TurnInv

\* Steps that leave what the host waits for and what is on the line as they are.
LEMMA UnchangedTurn ==
  ASSUME TurnInv, Waits', UNCHANGED << hostVars, net, line, early >>
  PROVE TurnInv'
<1>1. Outgoing(Head(script))' = Outgoing(Head(script))
  BY DEF Outgoing, Fcb, NoFcb, hostVars
<1>2. InTurn'
  BY <1>1 DEF TurnInv, InTurn, Quiet, hostVars, AnswerTo, Answer, Ack, Fcb, NoFcb
<1> QED
  BY <1>2 DEF TurnInv

LEMMA TurnStep == TurnInv /\ [Next]_vars => TurnInv'
<1> SUFFICES ASSUME TurnInv, [Next]_vars PROVE TurnInv'
  OBVIOUS
<1>1. CASE Execute
  BY <1>1, ExecuteTurn
<1>2. CASE Lose
  BY <1>2, LoseTurn
<1>3. CASE NextFile
  BY <1>3, NextFileTurn
<1>4. CASE Send
  BY <1>4, SendTurn
<1>5. CASE HostHears
  <2>1. PICK j \in 0..Len(line) : Hear(j) \/ Overrun(j, TRUE) \/ Overrun(j, FALSE)
    BY <1>5 DEF HostHears
  <2>2. j \in Nat
    BY <2>1
  <2>3. CASE Hear(j)
    BY <2>2, <2>3, HearTurn
  <2>4. CASE Overrun(j, TRUE)
    BY <2>2, <2>4, OverrunTurn
  <2>5. CASE Overrun(j, FALSE)
    BY <2>2, <2>5, OverrunTurn
  <2> QED
    BY <2>1, <2>3, <2>4, <2>5
<1>6. CASE GiveUp
  BY <1>6, GiveUpTurn
<1>7. ASSUME NEW j \in 0..Len(line), HearPart(j) PROVE TurnInv'
  <2>1. Waits'
    BY <1>7 DEF HearPart, hostVars, history, TurnInv, Waits
  <2>2. UNCHANGED << hostVars, net, line, early >>
    BY <1>7 DEF HearPart, history
  <2> QED
    BY <2>1, <2>2, UnchangedTurn
<1>8. CASE UNCHANGED vars
  <2>1. Waits'
    BY <1>8 DEF vars, hostVars, rxVars, history, TurnInv, Waits
  <2>2. UNCHANGED << hostVars, net, line, early >>
    BY <1>8 DEF vars, history
  <2> QED
    BY <2>1, <2>2, UnchangedTurn
<1> QED
  BY <1>1, <1>2, <1>3, <1>4, <1>5, <1>6, <1>7, <1>8 DEF Next

\* What ReceivePacket takes for the acknowledgement of a packet is its
\* acknowledgement, as long as no wait ended early: for all files and sizes, also
\* when packets are lost, reads end anywhere and the buffer overruns.
THEOREM AcknowledgedInTurn == Spec => []InTurn
<1>1. TurnInv => InTurn
  BY DEF TurnInv
<1> QED
  BY TurnInit, TurnStep, <1>1, PTL DEF Spec

-----------------------------------------------------------------------------
(* Numbers.                                                                *)

LEMMA Divide ==
  ASSUME NEW x \in Int, NEW r \in Nat \ {0}
  PROVE  x \div r \in Int /\ x % r \in 0..(r - 1) /\ x = (x \div r) * r + (x % r)
OBVIOUS

LEMMA Products ==
  /\ \A a, b \in Nat : a * b \in Nat
  /\ \A a \in Nat, b \in Nat : (a + 1) * b = a * b + b
OBVIOUS

\* The number of blocks of a sector: the last one begins in it, and ends it.
LEMMA BlocksOfSector ==
  /\ SectorPackets \in Nat \ {0}
  /\ (SectorPackets - 1) * BlockMax < Sector
  /\ Sector <= SectorPackets * BlockMax
<1> DEFINE y == Sector + BlockMax - 1
           q == y \div BlockMax
           r == y % BlockMax
<1>1. Sector \in Nat \ {0} /\ BlockMax \in Nat \ {0}
  BY ScriptAssumption
<1>2. y \in Nat /\ y >= BlockMax
  BY <1>1
<1>3. q \in Int /\ r \in 0..(BlockMax - 1) /\ y = q * BlockMax + r
  <2>1. y \in Int
    BY <1>2
  <2> HIDE DEF y
  <2> QED
    BY <1>1, <2>1, Divide
<1>4. SectorPackets = q
  BY DEF SectorPackets, CeilDiv
<1>5. q >= 1
  <2>1. q >= 0
    BY <1>1, <1>2
  <2>2. q # 0
    <3> SUFFICES ASSUME q = 0 PROVE FALSE
      OBVIOUS
    <3>1. 0 * BlockMax = 0
      BY <1>1
    <3> HIDE DEF q, r, y
    <3> QED
      BY <1>1, <1>2, <1>3, <3>1
  <2> HIDE DEF q
  <2> QED
    BY <1>3, <2>1, <2>2
<1> DEFINE p == (q - 1) * BlockMax
<1>6. p \in Nat /\ q * BlockMax = p + BlockMax
  <2> HIDE DEF q
  <2>1. q - 1 \in Nat /\ (q - 1) + 1 = q
    BY <1>3, <1>5
  <2>2. (q - 1) * BlockMax \in Nat /\ ((q - 1) + 1) * BlockMax = (q - 1) * BlockMax + BlockMax
    BY <1>1, <2>1, Products
  <2> QED
    BY <2>1, <2>2
<1>7. y = Sector + BlockMax - 1
  OBVIOUS
<1> HIDE DEF p, q, r, y
<1>8. p < Sector /\ Sector <= p + BlockMax
  BY <1>1, <1>3, <1>6, <1>7
<1> QED
  BY <1>3, <1>4, <1>5, <1>6, <1>8 DEF p

\* Where block i of a sector begins, within the sector.
LEMMA BlockBegins ==
  ASSUME NEW i \in 1..SectorPackets
  PROVE  /\ (i - 1) * BlockMax \in Nat /\ (i - 1) * BlockMax < Sector
         /\ (i = SectorPackets <=> Sector - (i - 1) * BlockMax <= BlockMax)
<1>1. Sector \in Nat \ {0} /\ BlockMax \in Nat \ {0} /\ SectorPackets \in Nat \ {0}
  BY ScriptAssumption, BlocksOfSector
<1>2. \A a \in Nat, b \in Nat : a <= b => a * BlockMax <= b * BlockMax
  <2> TAKE a \in Nat, b \in Nat
  <2> HAVE a <= b
  <2>1. b - a \in Nat /\ b = a + (b - a)
    OBVIOUS
  <2>2. (b - a) * BlockMax \in Nat /\ a * BlockMax \in Nat
    BY <1>1, <2>1, Products
  <2>3. b * BlockMax = a * BlockMax + (b - a) * BlockMax
    BY <1>1, <2>1
  <2> QED
    BY <2>2, <2>3
<1>3. i - 1 \in Nat /\ SectorPackets - 1 \in Nat /\ i - 1 <= SectorPackets - 1 /\ i \in Nat
  BY <1>1
<1>4. (i - 1) * BlockMax \in Nat /\ (i - 1) * BlockMax < Sector
  <2>1. (i - 1) * BlockMax \in Nat /\ (SectorPackets - 1) * BlockMax \in Nat
    BY <1>1, <1>3, Products
  <2>2. (i - 1) * BlockMax <= (SectorPackets - 1) * BlockMax
    BY <1>2, <1>3
  <2> QED
    BY <1>1, <2>1, <2>2, BlocksOfSector
<1>5. i * BlockMax = (i - 1) * BlockMax + BlockMax
  <2>1. (i - 1) + 1 = i
    BY <1>3
  <2> QED
    BY <1>1, <1>3, <2>1, Products
<1>6. i = SectorPackets => Sector - (i - 1) * BlockMax <= BlockMax
  <2> SUFFICES ASSUME i = SectorPackets PROVE Sector <= (i - 1) * BlockMax + BlockMax
    BY <1>1, <1>4
  <2> QED
    BY <1>5, BlocksOfSector
<1>7. i # SectorPackets => ~(Sector - (i - 1) * BlockMax <= BlockMax)
  <2> SUFFICES ASSUME i # SectorPackets PROVE (i - 1) * BlockMax + BlockMax < Sector
    BY <1>1, <1>4
  <2>1. i <= SectorPackets - 1
    BY <1>1, <1>3
  <2>2. i * BlockMax <= (SectorPackets - 1) * BlockMax
    BY <1>2, <1>3, <2>1
  <2>3. i * BlockMax \in Nat /\ (SectorPackets - 1) * BlockMax \in Nat
    BY <1>1, <1>3, Products
  <2> QED
    BY <1>1, <1>5, <2>2, <2>3, BlocksOfSector
<1> QED
  BY <1>4, <1>6, <1>7

-----------------------------------------------------------------------------
(* What the scripts hold.                                                  *)

\* Only pings are sent again; without an acknowledgement the host goes on from
\* data, from a command and from the last block of a program.
GoesOn(cmd, u, last) ==
  /\ u = "again" => cmd = "ping"
  /\ u = "on" => cmd \in {"data", "data2", "command"} \/ (cmd = "block" /\ last)
SendType ==
  {p \in [cmd : Commands, unacked : {"again", "on", "leave", "exit"}, at : Nat, n : Nat,
          last : BOOLEAN] : GoesOn(p.cmd, p.unacked, p.last)}

LEMMA PacketTyped ==
  ASSUME NEW cmd \in Commands, NEW u \in {"again", "on", "leave", "exit"},
         NEW at \in Nat, NEW n \in Nat, NEW last \in BOOLEAN, GoesOn(cmd, u, FALSE)
  PROVE  Packet(cmd, u) \in SendType /\ Carrying(cmd, u, at, n, last) \in SendType
BY DEF Packet, Carrying, SendType, GoesOn

\* Division of numbers that are not negative.
LEMMA Quotient ==
  ASSUME NEW a \in Nat, NEW b \in Nat \ {0}
  PROVE  a \div b \in Nat /\ a % b \in 0..(b - 1) /\ a = (a \div b) * b + (a % b)
<1>1. a \div b >= 0
  OBVIOUS
<1> QED
  BY <1>1, Divide

LEMMA SectorPacketTyped ==
  ASSUME NEW s \in Nat, NEW i \in 1..(SectorPackets + 1)
  PROVE  SectorPacket(s, i) \in SendType
<1>1. Sector \in Nat \ {0} /\ BlockMax \in Nat \ {0} /\ SectorPackets \in Nat \ {0}
  BY ScriptAssumption, BlocksOfSector
<1>2. s * Sector \in Nat
  BY <1>1, Products
<1>3. CASE i <= SectorPackets
  <2>1. i \in 1..SectorPackets
    BY <1>1, <1>3
  <2> DEFINE b == (i - 1) * BlockMax
             left == Sector - b
  <2>2. b \in Nat /\ b < Sector
    BY <2>1, BlockBegins
  <2>3. left \in Nat /\ s * Sector + b \in Nat
    BY <1>1, <1>2, <2>2
  <2>4. SectorPacket(s, i) =
          Carrying(IF i = 1 THEN "data" ELSE "data2", "on", s * Sector + b,
                   IF left > BlockMax THEN BlockMax ELSE left, left <= BlockMax)
    BY <1>3 DEF SectorPacket, DataPacket
  <2> HIDE DEF b, left
  <2>5. (IF left > BlockMax THEN BlockMax ELSE left) \in Nat /\ (left <= BlockMax) \in BOOLEAN
    BY <1>1, <2>3
  <2>6. (IF i = 1 THEN "data" ELSE "data2") \in Commands
    BY DEF Commands
  <2>7. GoesOn(IF i = 1 THEN "data" ELSE "data2", "on", FALSE)
    BY DEF GoesOn
  <2> DEFINE cmd == IF i = 1 THEN "data" ELSE "data2"
             at == s * Sector + b
             n == IF left > BlockMax THEN BlockMax ELSE left
             last == left <= BlockMax
  <2>8. /\ cmd \in Commands /\ GoesOn(cmd, "on", FALSE)
        /\ at \in Nat /\ n \in Nat /\ last \in BOOLEAN
    BY <2>3, <2>5, <2>6, <2>7
  <2>9. SectorPacket(s, i) = Carrying(cmd, "on", at, n, last)
    BY <2>4
  <2> HIDE DEF cmd, at, n, last
  <2> QED
    BY <2>8, <2>9, PacketTyped
<1>4. CASE ~(i <= SectorPackets)
  <2>1. SectorPacket(s, i) = Carrying("write", "exit", s * Sector, 0, TRUE)
    BY <1>4 DEF SectorPacket
  <2> QED
    BY <1>2, <2>1, PacketTyped DEF Commands, GoesOn
<1> QED
  BY <1>3, <1>4

\* The bodies of copies: packet k is one of sector BodySector, at BodyIndex.
PerSector == SectorPackets + 1
BodySector(k) == (k - 1) \div PerSector
BodyIndex(k) == ((k - 1) % PerSector) + 1

LEMMA Body ==
  ASSUME NEW k \in Nat \ {0}
  PROVE  /\ PerSector \in Nat /\ PerSector >= 2
         /\ BodySector(k) \in Nat /\ BodyIndex(k) \in 1..PerSector
         /\ k - 1 = BodySector(k) * PerSector + BodyIndex(k) - 1
         /\ BodyPacket(k) = SectorPacket(BodySector(k), BodyIndex(k))
         /\ BodyPacket(k) \in SendType
<1>1. PerSector \in Nat /\ PerSector >= 2
  BY BlocksOfSector DEF PerSector
<1>2. k - 1 \in Nat
  OBVIOUS
<1>3. /\ (k - 1) \div PerSector \in Nat /\ (k - 1) % PerSector \in 0..(PerSector - 1)
      /\ k - 1 = ((k - 1) \div PerSector) * PerSector + ((k - 1) % PerSector)
  <2>1. \A a \in Nat : /\ a \div PerSector \in Nat /\ a % PerSector \in 0..(PerSector - 1)
                      /\ a = (a \div PerSector) * PerSector + (a % PerSector)
    BY <1>1, Quotient
  <2> QED
    BY <1>2, <2>1
<1>4. BodySector(k) \in Nat /\ BodyIndex(k) \in 1..PerSector
  BY <1>1, <1>3 DEF BodySector, BodyIndex
<1>5. k - 1 = BodySector(k) * PerSector + BodyIndex(k) - 1
  <2> DEFINE a == ((k - 1) \div PerSector) * PerSector
             r == (k - 1) % PerSector
  <2>1. k - 1 = a + r /\ a \in Nat /\ r \in Nat
    BY <1>1, <1>3, Products
  <2>2. BodySector(k) * PerSector = a /\ BodyIndex(k) = r + 1
    BY DEF BodySector, BodyIndex
  <2> HIDE DEF a, r
  <2> QED
    BY <2>1, <2>2
<1>6. BodyPacket(k) = SectorPacket(BodySector(k), BodyIndex(k))
  BY DEF BodyPacket, BodySector, BodyIndex, PerSector
<1>7. BodyPacket(k) \in SendType
  BY <1>4, <1>6, SectorPacketTyped DEF PerSector
<1> QED
  BY <1>1, <1>4, <1>5, <1>6, <1>7

\* A copy: ping, create, the packets of the sectors, close.
BodyLength(size) == PerSector * (size \div Sector)
CopyBody(size) == [k \in 1..BodyLength(size) |-> BodyPacket(k)]

LEMMA CopyTyped ==
  ASSUME NEW size \in Nat
  PROVE  /\ size \div Sector \in Nat /\ BodyLength(size) \in Nat
         /\ CopyScript(size) \in Seq(SendType)
         /\ Len(CopyScript(size)) = BodyLength(size) + 3
         /\ CopyScript(size)[1] = Ping
         /\ CopyScript(size)[2] = Packet("create", "exit")
         /\ \A k \in 1..BodyLength(size) : CopyScript(size)[k + 2] = BodyPacket(k)
         /\ CopyScript(size)[BodyLength(size) + 3] = Packet("close", "exit")
<1>1. size \div Sector \in Nat
  BY ScriptAssumption, Quotient
<1>2. BodyLength(size) \in Nat
  BY <1>1, BlocksOfSector, Products DEF BodyLength, PerSector
<1> DEFINE N == BodyLength(size)
           b == CopyBody(size)
           head == << Ping, Packet("create", "exit") >>
           tail == << Packet("close", "exit") >>
<1>3. CopyScript(size) = (head \o b) \o tail
  BY DEF CopyScript, CopyBody, BodyLength, PerSector
<1>4. b \in Seq(SendType) /\ Len(b) = N /\ \A k \in 1..N : b[k] = BodyPacket(k)
  <2>1. \A k \in 1..N : BodyPacket(k) \in SendType
    BY Body
  <2> QED
    BY <1>2, <2>1 DEF CopyBody
<1>5. /\ Ping \in SendType /\ Packet("create", "exit") \in SendType
      /\ Packet("close", "exit") \in SendType
  BY PacketTyped DEF Ping, Commands, GoesOn
<1>6. /\ head \in Seq(SendType) /\ Len(head) = 2 /\ head[1] = Ping
      /\ head[2] = Packet("create", "exit")
      /\ tail \in Seq(SendType) /\ Len(tail) = 1 /\ tail[1] = Packet("close", "exit")
  BY <1>5
<1>7. N \in Nat
  BY <1>2
<1> HIDE DEF b, head, tail, N
<1> DEFINE h == head \o b
<1>8. /\ h \in Seq(SendType) /\ Len(h) = N + 2
      /\ h[1] = Ping /\ h[2] = Packet("create", "exit")
      /\ \A k \in 1..N : h[k + 2] = BodyPacket(k)
  <2>1. h \in Seq(SendType) /\ Len(h) = Len(head) + Len(b)
        /\ \A i \in 1..(Len(head) + Len(b)) :
             h[i] = IF i <= Len(head) THEN head[i] ELSE b[i - Len(head)]
    BY <1>4, <1>6, ConcatProperties
  <2> HIDE DEF h
  <2>2. h[1] = Ping /\ h[2] = Packet("create", "exit") /\ Len(h) = N + 2
    BY <1>4, <1>6, <1>7, <2>1
  <2>3. ASSUME NEW k \in 1..N PROVE h[k + 2] = BodyPacket(k)
    <3>1. k + 2 \in 1..(Len(head) + Len(b)) /\ ~(k + 2 <= Len(head)) /\ (k + 2) - Len(head) = k
      BY <1>4, <1>6, <1>7
    <3> QED
      BY <1>4, <2>1, <3>1
  <2> QED
    BY <2>1, <2>2, <2>3
<1> HIDE DEF h
<1>9. /\ h \o tail \in Seq(SendType) /\ Len(h \o tail) = N + 3
      /\ \A i \in 1..(N + 3) : (h \o tail)[i] = IF i <= N + 2 THEN h[i] ELSE tail[i - (N + 2)]
  <2>1. h \o tail \in Seq(SendType) /\ Len(h \o tail) = Len(h) + Len(tail)
        /\ \A i \in 1..(Len(h) + Len(tail)) :
             (h \o tail)[i] = IF i <= Len(h) THEN h[i] ELSE tail[i - Len(h)]
    BY <1>6, <1>8, ConcatProperties
  <2>2. Len(h) + Len(tail) = N + 3 /\ Len(h) = N + 2
    BY <1>6, <1>7, <1>8
  <2> QED
    BY <2>1, <2>2
<1>10. CopyScript(size) = h \o tail
  BY <1>3 DEF h
<1> DEFINE S == h \o tail
<1> HIDE DEF S
<1>11. S[1] = h[1] /\ S[2] = h[2] /\ S[N + 3] = tail[1] /\ \A k \in 1..N : S[k + 2] = h[k + 2]
  <2>1. 1 \in 1..(N + 3) /\ 2 \in 1..(N + 3) /\ N + 3 \in 1..(N + 3)
        /\ 1 <= N + 2 /\ 2 <= N + 2 /\ ~(N + 3 <= N + 2) /\ (N + 3) - (N + 2) = 1
    BY <1>7
  <2>2. \A k \in 1..N : k + 2 \in 1..(N + 3) /\ k + 2 <= N + 2
    BY <1>7
  <2> QED
    BY <1>9, <2>1, <2>2 DEF S
<1> QED
  BY <1>1, <1>2, <1>6, <1>8, <1>9, <1>10, <1>11 DEF S, N

\* Block i of a program of n bytes, of which FullBlocks(n) are before the last.
FullBlocks(n) == (n - 1) \div BlockMax
FullBlock(i) == Carrying("block", "exit", (i - 1) * BlockMax, BlockMax, FALSE)
ImageBlock(n, i) ==
  IF i <= FullBlocks(n) THEN FullBlock(i)
  ELSE Carrying("block", "on", FullBlocks(n) * BlockMax, n - FullBlocks(n) * BlockMax, TRUE)

\* What the scripts of programs hold: nothing that the CP/M files know.
ProgCommands == {"ping", "header", "block", "command", "poke"}
ProgType ==
  {p \in [cmd : ProgCommands, unacked : {"again", "on", "leave", "exit"}, at : Nat, n : Nat,
          last : BOOLEAN] : GoesOn(p.cmd, p.unacked, p.last)}

LEMMA ProgTyped ==
  ASSUME NEW cmd \in ProgCommands, NEW u \in {"again", "on", "leave", "exit"},
         NEW at \in Nat, NEW n \in Nat, NEW last \in BOOLEAN, GoesOn(cmd, u, last)
  PROVE  Packet(cmd, u) \in ProgType /\ Carrying(cmd, u, at, n, last) \in ProgType
BY DEF Packet, Carrying, ProgType, GoesOn

LEMMA ImageTyped ==
  ASSUME NEW n \in Nat \ {0}
  PROVE  /\ FullBlocks(n) \in Nat /\ FullBlocks(n) * BlockMax \in Nat
         /\ FullBlocks(n) * BlockMax < n
         /\ ImageBlocks(n) \in Seq(ProgType) /\ Len(ImageBlocks(n)) = FullBlocks(n) + 1
         /\ \A i \in 1..(FullBlocks(n) + 1) : ImageBlocks(n)[i] = ImageBlock(n, i)
<1> DEFINE full == FullBlocks(n)
           last == Carrying("block", "on", full * BlockMax, (n - 1) - full * BlockMax + 1, TRUE)
           front == [i \in 1..full |-> FullBlock(i)]
<1>1. BlockMax \in Nat \ {0} /\ n - 1 \in Nat
  BY ScriptAssumption
<1>2. full \in Nat /\ full * BlockMax \in Nat /\ full * BlockMax < n
  <2>1. \A a \in Nat : a \div BlockMax \in Nat /\ a % BlockMax \in Nat
                       /\ a = (a \div BlockMax) * BlockMax + (a % BlockMax)
    BY <1>1, Quotient
  <2>2. full \in Nat /\ (n - 1) % BlockMax \in Nat
        /\ n - 1 = full * BlockMax + ((n - 1) % BlockMax)
    BY <1>1, <2>1 DEF FullBlocks
  <2>3. full * BlockMax \in Nat
    BY <1>1, <2>2, Products
  <2> DEFINE p == full * BlockMax
             r == (n - 1) % BlockMax
  <2>4. p \in Nat /\ r \in Nat /\ n - 1 = p + r
    BY <2>2, <2>3
  <2> HIDE DEF p, r
  <2>5. p < n
    BY <2>4
  <2> QED
    BY <2>2, <2>3, <2>5 DEF p
<1>3. ImageBlocks(n) = front \o << last >>
  BY DEF ImageBlocks, FullBlocks, FullBlock
<1>4. "block" \in ProgCommands
  BY DEF ProgCommands
<1> HIDE DEF full
<1>5. last \in ProgType /\ last = Carrying("block", "on", full * BlockMax, n - full * BlockMax, TRUE)
  <2> DEFINE p == full * BlockMax
  <2>1. p \in Nat /\ p < n
    BY <1>2
  <2>2. last = Carrying("block", "on", p, (n - 1) - p + 1, TRUE)
    OBVIOUS
  <2> HIDE DEF p, last
  <2>3. (n - 1) - p + 1 = n - p /\ n - p \in Nat
    BY <2>1
  <2> QED
    BY <1>4, <2>1, <2>2, <2>3, ProgTyped DEF p, GoesOn
<1>6. \A i \in 1..full : (i - 1) * BlockMax \in Nat
  <2> TAKE i \in 1..full
  <2>1. i - 1 \in Nat
    BY <1>2
  <2> QED
    BY <1>1, <2>1, Products
<1>7. /\ front \in Seq(ProgType) /\ Len(front) = full
      /\ \A i \in 1..full : front[i] = FullBlock(i)
  <2>1. \A i \in 1..full : FullBlock(i) \in ProgType
    BY <1>1, <1>4, <1>6, ProgTyped DEF FullBlock, GoesOn
  <2> QED
    BY <1>2, <2>1
<1> HIDE DEF last, front
<1>8. /\ front \o << last >> \in Seq(ProgType) /\ Len(front \o << last >>) = full + 1
      /\ \A i \in 1..(full + 1) :
           (front \o << last >>)[i] = IF i <= full THEN front[i] ELSE last
  <2>1. << last >> \in Seq(ProgType) /\ Len(<< last >>) = 1 /\ << last >>[1] = last
    <3>1. last \in ProgType
      BY <1>5
    <3> QED
      BY ONLY <3>1
  <2>2. /\ front \o << last >> \in Seq(ProgType) /\ Len(front \o << last >>) = full + 1
        /\ \A i \in 1..(full + 1) :
             (front \o << last >>)[i] = IF i <= full THEN front[i] ELSE << last >>[i - full]
    BY <1>7, <2>1, ConcatProperties
  <2>3. \A i \in 1..(full + 1) : ~(i <= full) => i - full = 1
    BY <1>2
  <2> QED
    BY <2>1, <2>2, <2>3
<1>9. \A i \in 1..(full + 1) : ImageBlocks(n)[i] = ImageBlock(n, i)
  <2> TAKE i \in 1..(full + 1)
  <2>1. ImageBlocks(n)[i] = IF i <= full THEN front[i] ELSE last
    BY <1>3, <1>8
  <2>2. ImageBlock(n, i) = IF i <= full THEN FullBlock(i) ELSE last
    BY <1>5 DEF ImageBlock, full
  <2>3. i <= full => front[i] = FullBlock(i)
    <3>1. i <= full => i \in 1..full
      BY <1>2
    <3> QED
      BY <1>7, <3>1
  <2> QED
    BY <2>1, <2>2, <2>3
<1> QED
  BY <1>2, <1>3, <1>8, <1>9 DEF full

LEMMA ProgramTyped ==
  ASSUME NEW job \in Jobs, job.kind # "copy"
  PROVE  ScriptOf(job) \in Seq(ProgType)
<1> DEFINE n == job.bytes
<1>1. /\ Ping \in ProgType /\ Packet("command", "on") \in ProgType
      /\ Packet("command", "leave") \in ProgType /\ Packet("poke", "leave") \in ProgType
  BY ProgTyped DEF Ping, ProgCommands, GoesOn
<1>2. n \in Nat \ {0}
  BY DEF Jobs
<1>3. ImageBlocks(n) \in Seq(ProgType)
  BY <1>2, ImageTyped
<1>4. Carrying("header", "leave", 0, n, TRUE) \in ProgType
  BY <1>2, ProgTyped DEF ProgCommands, GoesOn
<1>5. LoadScript(n) \in Seq(ProgType)
  <2> DEFINE h == Carrying("header", "leave", 0, n, TRUE)
             b == ImageBlocks(n)
  <2>1. LoadScript(n) = << Ping, h >> \o b
    BY DEF LoadScript
  <2>2. h \in ProgType /\ b \in Seq(ProgType)
    BY <1>3, <1>4
  <2> HIDE DEF h, b
  <2>3. << Ping, h >> \in Seq(ProgType)
    BY <1>1, <2>2
  <2> QED
    BY <2>1, <2>2, <2>3, ConcatProperties
<1>6. RunScript \in Seq(ProgType)
  BY <1>1 DEF RunScript
<1>7. ProgramScript(n) \in Seq(ProgType)
  BY <1>5, <1>6, ConcatProperties DEF ProgramScript
<1>8. HalvesScript(n) \in Seq(ProgType)
  BY <1>7, ConcatProperties DEF HalvesScript
<1>9. BasicScript(n) \in Seq(ProgType)
  <2>1. << Packet("poke", "leave"), Packet("poke", "leave") >> \in Seq(ProgType)
    BY <1>1
  <2> QED
    BY <1>5, <2>1, ConcatProperties DEF BasicScript
<1>10. BootScript(n) \in Seq(ProgType)
  <2>1. << Packet("command", "leave") >> \in Seq(ProgType)
    BY <1>1
  <2> QED
    BY <1>7, <2>1, ConcatProperties DEF BootScript
<1>11. ScriptOf(job) \in
         {ProgramScript(n), HalvesScript(n), BasicScript(n), BootScript(n)}
  BY DEF ScriptOf, Jobs
<1> QED
  BY <1>7, <1>8, <1>9, <1>10, <1>11
LEMMA ScriptTyped ==
  ASSUME NEW job \in Jobs
  PROVE  ScriptOf(job) \in Seq(SendType)
<1>1. CASE job.kind = "copy"
  <2>1. job.bytes \in Nat
    BY DEF Jobs
  <2>2. ScriptOf(job) = CopyScript(job.bytes)
    BY <1>1 DEF ScriptOf
  <2> QED
    BY <2>1, <2>2, CopyTyped
<1>2. CASE job.kind # "copy"
  <2>1. ScriptOf(job) \in Seq(ProgType)
    BY <1>2, ProgramTyped
  <2>2. ProgType \subseteq SendType
    BY DEF ProgType, SendType, ProgCommands, Commands
  <2> QED
    BY <2>1, <2>2
<1> QED
  BY <1>1, <1>2

-----------------------------------------------------------------------------
(* Types.                                                                  *)

\* FCBs name files of this session.
FcbIn == [file : 0..Len(jobs), rec : Nat]
PacketIn == [cmd : Commands, at : Nat, n : Nat, last : BOOLEAN, fcb : FcbIn]
AnswerIn == [cmd : {"pong", "ack", "created", "written", "closed"}, fcb : FcbIn]
StationType ==
  [disk : [0..Len(jobs) -> Seq(Seq(BlockType))], closed : [0..Len(jobs) -> Nat],
   buffer : Seq(BlockType), image : Nat, loaded : Nat, complete : BOOLEAN,
   used : {"nothing", "part", "whole"}]

HostTypes ==
  /\ jobs \in Seq(Jobs) /\ file \in 0..Len(jobs)
  /\ script \in Seq(SendType)
  /\ waiting \in BOOLEAN /\ (waiting => script # << >> /\ outcome = "none")
  /\ outcome \in {"none", "done", "exit"}
  /\ rxFcb \in FcbIn
  /\ early \in 0..MaxEarly

BufferTypes ==
  /\ rxPart \in BOOLEAN /\ rxCut \in BOOLEAN
  /\ rxWhole \in 0..Len(line) /\ (rxPart => rxWhole < Len(line))
  /\ (~waiting => rxWhole = 0 /\ ~rxPart)

WireTypes ==
  /\ net \in Seq(PacketIn) /\ line \in Seq(AnswerIn) /\ lost \in Seq(PacketIn)

\* The inductive invariant: TypeOK, and what the files and packets to come are.
Types == HostTypes /\ BufferTypes /\ WireTypes /\ station \in StationType

LEMMA TypesInit == Init => Types
<1> SUFFICES ASSUME Init PROVE Types
  OBVIOUS
<1>1. jobs \in Seq(Jobs) /\ Len(jobs) \in Nat
  BY PacketAssumption DEF Init
<1>2. NoFcb \in FcbIn
  BY <1>1 DEF FcbIn, NoFcb, Fcb
<1>3. HostTypes
  <2>1. file \in 0..Len(jobs) /\ early \in 0..MaxEarly
    BY <1>1, PacketAssumption DEF Init
  <2>2. script \in Seq(SendType)
    BY DEF Init
  <2> QED
    BY <1>1, <1>2, <2>1, <2>2 DEF Init, HostTypes
<1>6. BufferTypes
  <2>1. rxWhole \in 0..Len(line)
    <3>1. line = << >> /\ rxWhole = 0
      BY DEF Init
    <3> QED
      BY ONLY <3>1
  <2> QED
    BY <2>1 DEF Init, BufferTypes
<1>4. WireTypes
  BY DEF Init, WireTypes
<1>5. station \in StationType
  BY <1>1 DEF Init, StationType
<1> QED
  BY <1>3, <1>4, <1>5, <1>6 DEF Types

LEMMA StoredTyped ==
  ASSUME NEW T, NEW d \in Seq(T), NEW rec \in Nat, NEW x \in T
  PROVE  Stored(d, rec, x) \in Seq(T)
BY DEF Stored

\* One part of the workstation replaced.
LEMMA PartTyped ==
  ASSUME jobs \in Seq(Jobs), station \in StationType
  PROVE  /\ \A d \in [0..Len(jobs) -> Seq(Seq(BlockType))] : [station EXCEPT !.disk = d] \in StationType
         /\ \A c \in [0..Len(jobs) -> Nat] : [station EXCEPT !.closed = c] \in StationType
         /\ \A b \in Seq(BlockType) : [station EXCEPT !.buffer = b] \in StationType
         /\ \A u \in {"part", "whole"} : [station EXCEPT !.used = u] \in StationType
BY DEF StationType

LEMMA HeaderTyped ==
  ASSUME station \in StationType, NEW n \in Nat
  PROVE  [station EXCEPT !.image = n, !.loaded = 0, !.complete = FALSE] \in StationType
<1>1. [station EXCEPT !.image = n] \in StationType
  BY DEF StationType
<1>2. ASSUME NEW s \in StationType PROVE [s EXCEPT !.loaded = 0] \in StationType
  BY DEF StationType
<1>3. ASSUME NEW s \in StationType PROVE [s EXCEPT !.complete = FALSE] \in StationType
  BY DEF StationType
<1>4. [station EXCEPT !.image = n, !.loaded = 0, !.complete = FALSE] =
        [[[station EXCEPT !.image = n] EXCEPT !.loaded = 0] EXCEPT !.complete = FALSE]
  BY DEF StationType
<1> QED
  BY <1>1, <1>2, <1>3, <1>4

LEMMA ExecutedTyped ==
  ASSUME jobs \in Seq(Jobs), station \in StationType, NEW p \in PacketIn
  PROVE  Executed(p) \in StationType /\ AnswerTo(p) \in AnswerIn
<1>1. Len(jobs) \in Nat
  OBVIOUS
<1>2. /\ p.cmd \in Commands /\ p.at \in Nat /\ p.n \in Nat /\ p.last \in BOOLEAN
      /\ p.fcb \in FcbIn /\ p.fcb.file \in 0..Len(jobs) /\ p.fcb.rec \in Nat
  BY DEF PacketIn, FcbIn
<1>3. Block(p) \in BlockType
  BY <1>2 DEF Block, BlockType
<1>4. AnswerTo(p) \in AnswerIn
  BY <1>1, <1>2 DEF AnswerTo, Answer, Ack, AnswerIn, FcbIn, NoFcb, Fcb
<1>5. /\ station.disk \in [0..Len(jobs) -> Seq(Seq(BlockType))]
      /\ station.closed \in [0..Len(jobs) -> Nat]
      /\ station.buffer \in Seq(BlockType) /\ station.loaded \in Nat
      /\ station.disk[p.fcb.file] \in Seq(Seq(BlockType))
  BY <1>2 DEF StationType
<1>6. CASE p.cmd = "data"
  <2>1. << Block(p) >> \in Seq(BlockType)
    BY ONLY <1>3
  <2>2. Executed(p) = [station EXCEPT !.buffer = << Block(p) >>]
    BY <1>6 DEF Executed
  <2> QED
    BY <1>4, <2>1, <2>2, PartTyped
<1>7. CASE p.cmd = "data2"
  <2>1. Append(station.buffer, Block(p)) \in Seq(BlockType)
    BY ONLY <1>3, <1>5
  <2>2. Executed(p) = [station EXCEPT !.buffer = Append(station.buffer, Block(p))]
    BY <1>7 DEF Executed, StationType
  <2> QED
    BY <1>4, <2>1, <2>2, PartTyped
<1>8. CASE p.cmd = "create"
  <2> DEFINE d == [station.disk EXCEPT ![p.fcb.file] = << >>]
  <2>1. Executed(p) = [station EXCEPT !.disk = d]
    BY <1>8 DEF Executed, StationType
  <2>2. d \in [0..Len(jobs) -> Seq(Seq(BlockType))]
    <3>1. << >> \in Seq(Seq(BlockType))
      OBVIOUS
    <3> QED
      BY <1>2, <1>5, <3>1
  <2> HIDE DEF d
  <2> QED
    BY <1>4, <2>1, <2>2, PartTyped
<1>9. CASE p.cmd = "write"
  <2> DEFINE x == Stored(station.disk[p.fcb.file], p.fcb.rec, station.buffer)
             d == [station.disk EXCEPT ![p.fcb.file] = x]
  <2>1. x \in Seq(Seq(BlockType))
    BY <1>2, <1>5, StoredTyped
  <2>2. Executed(p) = [station EXCEPT !.disk = d]
    BY <1>9, <1>5 DEF Executed, StationType
  <2> HIDE DEF x
  <2>3. d \in [0..Len(jobs) -> Seq(Seq(BlockType))]
    BY <1>2, <1>5, <2>1
  <2> HIDE DEF d
  <2> QED
    BY <1>4, <2>2, <2>3, PartTyped
<1>10. CASE p.cmd = "close"
  <2> DEFINE c == [station.closed EXCEPT ![p.fcb.file] = p.fcb.rec]
  <2>1. Executed(p) = [station EXCEPT !.closed = c]
    BY <1>10 DEF Executed, StationType
  <2>2. c \in [0..Len(jobs) -> Nat]
    BY <1>2, <1>5
  <2> HIDE DEF c
  <2> QED
    BY <1>4, <2>1, <2>2, PartTyped
<1>11. CASE p.cmd = "header"
  <2>1. Executed(p) = [station EXCEPT !.image = p.n, !.loaded = 0, !.complete = FALSE]
    BY <1>11 DEF Executed
  <2>2. Executed(p) \in StationType
    BY <1>2, <2>1, HeaderTyped
  <2> QED
    BY <1>4, <2>2
<1>12. CASE p.cmd = "block"
  <2> DEFINE l == IF p.at = station.loaded THEN station.loaded + p.n ELSE station.loaded
  <2>1. Executed(p) = [station EXCEPT !.loaded = l, !.complete = p.last]
    BY <1>12 DEF Executed, StationType
  <2>2. l \in Nat
    BY <1>2, <1>5
  <2> HIDE DEF l
  <2> QED
    BY <1>2, <1>4, <2>1, <2>2 DEF StationType
<1>13. CASE p.cmd \in {"command", "poke", "ping"}
  <2>1. \/ Executed(p) = station
        \/ \E u \in {"part", "whole"} : Executed(p) = [station EXCEPT !.used = u]
    BY <1>13 DEF Executed
  <2> QED
    BY <1>4, <2>1, PartTyped
<1> QED
  BY <1>2, <1>6, <1>7, <1>8, <1>9, <1>10, <1>11, <1>12, <1>13 DEF Commands

\* Everything that Types says of what a step leaves alone.
LEMMA HeadOf ==
  ASSUME NEW T, NEW s \in Seq(T), s # << >>
  PROVE  /\ Head(s) \in T /\ Tail(s) \in Seq(T) /\ Len(Tail(s)) = Len(s) - 1
         /\ s[1] \in T /\ Len(s) \in Nat \ {0}
OBVIOUS

LEMMA ExecuteTypes == Types /\ Execute => Types'
<1> SUFFICES ASSUME Types, Execute PROVE Types'
  OBVIOUS
<1>1. UNCHANGED << jobs, file, script, waiting, outcome, rxFcb, early, lost >>
      /\ UNCHANGED << rxWhole, rxPart, rxCut >>
  BY DEF Execute, hostVars, rxVars, history
<1>2. FcbIn' = FcbIn /\ PacketIn' = PacketIn /\ AnswerIn' = AnswerIn
      /\ StationType' = StationType
  BY <1>1 DEF FcbIn, PacketIn, AnswerIn, StationType
<1>3. Head(net) \in PacketIn /\ net' \in Seq(PacketIn)
  BY HeadOf DEF Execute, Types, WireTypes
<1>4. station' \in StationType /\ AnswerTo(Head(net)) \in AnswerIn
  BY <1>3, ExecutedTyped DEF Execute, Types, HostTypes
<1>5. line' \in Seq(AnswerIn) /\ Len(line') = Len(line) + 1 /\ Len(line) \in Nat
  BY <1>4 DEF Execute, Types, WireTypes
<1>6. HostTypes'
  BY <1>1, <1>2 DEF Types, HostTypes
<1>7. BufferTypes'
  BY <1>1, <1>5 DEF Types, BufferTypes
<1>8. WireTypes'
  BY <1>1, <1>2, <1>3, <1>5 DEF Types, WireTypes
<1> QED
  BY <1>2, <1>4, <1>6, <1>7, <1>8 DEF Types

LEMMA LoseTypes == Types /\ Lose => Types'
<1> SUFFICES ASSUME Types, Lose PROVE Types'
  OBVIOUS
<1>1. UNCHANGED << jobs, file, script, waiting, outcome, rxFcb, early, line, station >>
      /\ UNCHANGED << rxWhole, rxPart, rxCut >>
  BY DEF Lose, hostVars, rxVars
<1>2. FcbIn' = FcbIn /\ PacketIn' = PacketIn /\ AnswerIn' = AnswerIn
      /\ StationType' = StationType
  BY <1>1 DEF FcbIn, PacketIn, AnswerIn, StationType
<1>3. Head(net) \in PacketIn /\ net' \in Seq(PacketIn)
  BY HeadOf DEF Lose, Types, WireTypes
<1>4. lost' \in Seq(PacketIn)
  BY <1>3 DEF Lose, Types, WireTypes
<1>5. HostTypes'
  BY <1>1, <1>2 DEF Types, HostTypes
<1>6. BufferTypes'
  BY <1>1 DEF Types, BufferTypes
<1>7. WireTypes'
  BY <1>1, <1>2, <1>3, <1>4 DEF Types, WireTypes
<1> QED
  BY <1>1, <1>2, <1>5, <1>6, <1>7 DEF Types

LEMMA NextFileTypes == Types /\ NextFile => Types'
<1> SUFFICES ASSUME Types, NextFile PROVE Types'
  OBVIOUS
<1>1. UNCHANGED << jobs, waiting, rxFcb, early, lost, net, line, station >>
      /\ UNCHANGED << rxWhole, rxPart, rxCut >> /\ ~waiting
  BY DEF NextFile, rxVars, history, Types, HostTypes
<1>2. FcbIn' = FcbIn /\ PacketIn' = PacketIn /\ AnswerIn' = AnswerIn
      /\ StationType' = StationType
  BY <1>1 DEF FcbIn, PacketIn, AnswerIn, StationType
<1>3. /\ file' \in 0..Len(jobs) /\ script' \in Seq(SendType)
      /\ outcome' \in {"none", "done", "exit"}
  <2>1. jobs \in Seq(Jobs) /\ file \in 0..Len(jobs) /\ script \in Seq(SendType)
    BY DEF Types, HostTypes
  <2>2. CASE file = Len(jobs)
    BY <2>1, <2>2 DEF NextFile
  <2>3. CASE file # Len(jobs)
    <3>1. file + 1 \in 1..Len(jobs)
      BY <2>1, <2>3
    <3>2. ScriptOf(jobs[file + 1]) \in Seq(SendType)
      BY <2>1, <3>1, ScriptTyped
    <3> QED
      BY <2>3, <3>1, <3>2 DEF NextFile
  <2> QED
    BY <2>2, <2>3
<1>4. HostTypes'
  BY <1>1, <1>2, <1>3 DEF Types, HostTypes
<1>5. BufferTypes'
  BY <1>1 DEF Types, BufferTypes
<1>6. WireTypes'
  BY <1>1, <1>2 DEF Types, WireTypes
<1> QED
  BY <1>1, <1>2, <1>4, <1>5, <1>6 DEF Types

\* The next packet, with the FCB in it.
LEMMA OutgoingTyped ==
  ASSUME Types, script # << >>
  PROVE  Outgoing(Head(script)) \in PacketIn
<1>1. Head(script) \in SendType
  BY HeadOf DEF Types, HostTypes
<1>2. Fcb(file, 0) \in FcbIn /\ rxFcb \in FcbIn /\ NoFcb \in FcbIn
  BY DEF Types, HostTypes, FcbIn, NoFcb, Fcb
<1> QED
  BY <1>1, <1>2 DEF Outgoing, PacketIn, SendType

LEMMA SendTypes == Types /\ Send => Types'
<1> SUFFICES ASSUME Types, Send PROVE Types'
  OBVIOUS
<1>1. UNCHANGED << jobs, file, script, outcome, rxFcb, early, lost, line, station >>
      /\ UNCHANGED << rxWhole, rxPart, rxCut >> /\ waiting' = TRUE
      /\ script # << >> /\ outcome = "none" /\ ~waiting
  BY DEF Send, rxVars, history
<1>2. FcbIn' = FcbIn /\ PacketIn' = PacketIn /\ AnswerIn' = AnswerIn
      /\ StationType' = StationType
  BY <1>1 DEF FcbIn, PacketIn, AnswerIn, StationType
<1>3. net' \in Seq(PacketIn)
  <2>1. Outgoing(Head(script)) \in PacketIn
    BY <1>1, OutgoingTyped
  <2> QED
    BY <2>1 DEF Send, Types, WireTypes
<1>4. HostTypes'
  BY <1>1, <1>2 DEF Types, HostTypes
<1>5. BufferTypes'
  BY <1>1 DEF Types, BufferTypes
<1>6. WireTypes'
  BY <1>1, <1>2, <1>3 DEF Types, WireTypes
<1> QED
  BY <1>1, <1>2, <1>4, <1>5, <1>6 DEF Types

\* Answers that were dropped from the line.
LEMMA DroppedTyped ==
  ASSUME line \in Seq(AnswerIn), NEW k \in 0..Len(line), NEW part \in BOOLEAN, Dropped(k, part),
         rxCut \in BOOLEAN
  PROVE  line' \in Seq(AnswerIn) /\ rxCut' \in BOOLEAN
<1>1. k + 1 \in 1..(Len(line) + 1)
  OBVIOUS
<1>2. SubSeq(line, k + 1, Len(line)) \in Seq(AnswerIn)
  BY <1>1
<1> QED
  BY <1>2 DEF Dropped

\* An emptied buffer.
LEMMA EmptyBuffer ==
  ASSUME line' \in Seq(AnswerIn), rxCut' \in BOOLEAN, rxWhole' = 0, rxPart' = FALSE
  PROVE  BufferTypes'
<1>1. Len(line)' \in Nat
  OBVIOUS
<1>2. rxWhole' \in 0..Len(line)'
  BY <1>1
<1>3. (rxPart \in BOOLEAN)' /\ ~rxPart'
  OBVIOUS
<1> QED
  BY <1>2, <1>3 DEF BufferTypes

LEMMA HearTypes ==
  ASSUME Types, NEW j \in 0..Len(line), Hear(j)
  PROVE  Types'
<1>1. UNCHANGED << jobs, file, outcome, net, station, early, lost >>
      /\ waiting' = FALSE /\ rxWhole' = 0 /\ rxPart' = FALSE
      /\ script' = Tail(script) /\ waiting /\ j >= 1 /\ line # << >>
  BY DEF Hear, BufferEmptied, Types, WireTypes
<1>2. FcbIn' = FcbIn /\ PacketIn' = PacketIn /\ AnswerIn' = AnswerIn
      /\ StationType' = StationType
  BY <1>1 DEF FcbIn, PacketIn, AnswerIn, StationType
<1>3. line' \in Seq(AnswerIn) /\ rxCut' \in BOOLEAN
  BY DroppedTyped DEF Hear, Types, BufferTypes, WireTypes
<1>4. script' \in Seq(SendType)
  BY <1>1, HeadOf DEF Types, HostTypes
<1>5. rxFcb' \in FcbIn
  <2>1. line[1] \in AnswerIn
    BY <1>1, HeadOf DEF Types, WireTypes
  <2>2. rxFcb' = line[1].fcb \/ rxFcb' = rxFcb
    BY DEF Hear, Parsed
  <2> QED
    BY <2>1, <2>2 DEF AnswerIn, Types, HostTypes
<1>6. HostTypes'
  BY <1>1, <1>2, <1>4, <1>5 DEF Types, HostTypes
<1>7. BufferTypes'
  BY <1>1, <1>3, EmptyBuffer
<1>8. WireTypes'
  BY <1>1, <1>2, <1>3 DEF Types, WireTypes
<1> QED
  BY <1>1, <1>2, <1>6, <1>7, <1>8 DEF Types

LEMMA OverrunTypes ==
  ASSUME Types, NEW j \in 0..Len(line), NEW part \in BOOLEAN, Overrun(j, part)
  PROVE  Types'
<1>1. UNCHANGED << jobs, file, script, waiting, outcome, rxFcb, net, station, early, lost >>
      /\ rxWhole' = 0 /\ rxPart' = FALSE
  BY DEF Overrun, BufferEmptied, hostVars
<1>2. FcbIn' = FcbIn /\ PacketIn' = PacketIn /\ AnswerIn' = AnswerIn
      /\ StationType' = StationType
  BY <1>1 DEF FcbIn, PacketIn, AnswerIn, StationType
<1>3. line' \in Seq(AnswerIn) /\ rxCut' \in BOOLEAN
  BY DroppedTyped DEF Overrun, Types, BufferTypes, WireTypes
<1>4. HostTypes'
  BY <1>1, <1>2 DEF Types, HostTypes
<1>5. BufferTypes'
  BY <1>1, <1>3, EmptyBuffer
<1>6. WireTypes'
  BY <1>1, <1>2, <1>3 DEF Types, WireTypes
<1> QED
  BY <1>1, <1>2, <1>4, <1>5, <1>6 DEF Types

LEMMA HearPartTypes ==
  ASSUME Types, NEW j \in 0..Len(line), HearPart(j)
  PROVE  Types'
<1>1. UNCHANGED << jobs, file, script, waiting, outcome, rxFcb, net, line, station, early, lost >>
      /\ rxCut' = rxCut /\ rxWhole' = j /\ rxPart' = TRUE /\ waiting
  BY DEF HearPart, hostVars, history
<1>2. j < Len(line)
  BY DEF HearPart, Types, WireTypes, BufferTypes
<1>3. FcbIn' = FcbIn /\ PacketIn' = PacketIn /\ AnswerIn' = AnswerIn
      /\ StationType' = StationType
  BY <1>1 DEF FcbIn, PacketIn, AnswerIn, StationType
<1>4. HostTypes'
  BY <1>1, <1>3 DEF Types, HostTypes
<1>5. BufferTypes'
  BY <1>1, <1>2 DEF Types, BufferTypes
<1>6. WireTypes'
  BY <1>1, <1>3 DEF Types, WireTypes
<1> QED
  BY <1>1, <1>3, <1>4, <1>5, <1>6 DEF Types

LEMMA GiveUpTypes == Types /\ GiveUp => Types'
<1> SUFFICES ASSUME Types, GiveUp PROVE Types'
  OBVIOUS
<1>1. UNCHANGED << jobs, file, rxFcb, net, station, lost >>
      /\ waiting' = FALSE /\ rxWhole' = 0 /\ rxPart' = FALSE
      /\ waiting /\ script # << >>
  BY DEF GiveUp, BufferEmptied, Unacknowledged, Types, HostTypes
<1>2. FcbIn' = FcbIn /\ PacketIn' = PacketIn /\ AnswerIn' = AnswerIn
      /\ StationType' = StationType
  BY <1>1 DEF FcbIn, PacketIn, AnswerIn, StationType
<1>3. line' \in Seq(AnswerIn) /\ rxCut' \in BOOLEAN
  BY DroppedTyped DEF GiveUp, Types, BufferTypes, WireTypes
<1>4. script' \in Seq(SendType) /\ outcome' \in {"none", "done", "exit"}
  <2>1. script' \in {script, Tail(script), << >>} /\ outcome' \in {outcome, "exit"}
    BY DEF GiveUp, Unacknowledged
  <2>2. script \in Seq(SendType) /\ outcome \in {"none", "done", "exit"}
    BY DEF Types, HostTypes
  <2>3. Tail(script) \in Seq(SendType) /\ << >> \in Seq(SendType)
    BY <1>1, <2>2, HeadOf
  <2>4. script' \in Seq(SendType)
    BY <2>1, <2>2, <2>3
  <2>5. outcome' \in {"none", "done", "exit"}
    BY <2>1, <2>2
  <2> QED
    BY <2>4, <2>5
<1>5. early' \in 0..MaxEarly
  <2>1. early \in 0..MaxEarly /\ MaxEarly \in Nat
    BY PacketAssumption DEF Types, HostTypes
  <2>2. early' = early \/ (early' = early + 1 /\ early < MaxEarly)
    BY DEF GiveUp, IntentsUsedUp
  <2> QED
    BY <2>1, <2>2
<1>6. HostTypes'
  BY <1>1, <1>2, <1>4, <1>5 DEF Types, HostTypes
<1>7. BufferTypes'
  BY <1>1, <1>3, EmptyBuffer
<1>8. WireTypes'
  BY <1>1, <1>2, <1>3 DEF Types, WireTypes
<1> QED
  BY <1>1, <1>2, <1>6, <1>7, <1>8 DEF Types

LEMMA TypesStep == Types /\ [Next]_vars => Types'
<1> SUFFICES ASSUME Types, [Next]_vars PROVE Types'
  OBVIOUS
<1>1. CASE Execute
  BY <1>1, ExecuteTypes
<1>2. CASE Lose
  BY <1>2, LoseTypes
<1>3. CASE NextFile
  BY <1>3, NextFileTypes
<1>4. CASE Send
  BY <1>4, SendTypes
<1>5. CASE HostHears
  <2>1. PICK j \in 0..Len(line) : Hear(j) \/ Overrun(j, TRUE) \/ Overrun(j, FALSE)
    BY <1>5 DEF HostHears
  <2>2. CASE Hear(j)
    BY <2>2, HearTypes
  <2>3. CASE Overrun(j, TRUE)
    BY <2>3, OverrunTypes
  <2>4. CASE Overrun(j, FALSE)
    BY <2>4, OverrunTypes
  <2> QED
    BY <2>1, <2>2, <2>3, <2>4
<1>6. CASE GiveUp
  BY <1>6, GiveUpTypes
<1>7. ASSUME NEW j \in 0..Len(line), HearPart(j) PROVE Types'
  BY <1>7, HearPartTypes
<1>8. CASE UNCHANGED vars
  <2>1. UNCHANGED << jobs, file, script, waiting, outcome, rxFcb, net, line, station >>
        /\ UNCHANGED << rxWhole, rxPart, rxCut, early, lost >>
    BY <1>8 DEF vars, hostVars, rxVars, history
  <2>2. FcbIn' = FcbIn /\ PacketIn' = PacketIn /\ AnswerIn' = AnswerIn
        /\ StationType' = StationType
    BY <2>1 DEF FcbIn, PacketIn, AnswerIn, StationType
  <2> QED
    BY <2>1, <2>2 DEF Types, HostTypes, BufferTypes, WireTypes
<1> QED
  BY <1>1, <1>2, <1>3, <1>4, <1>5, <1>6, <1>7, <1>8 DEF Next

LEMMA TypesOfLink == Spec => []Types
BY TypesInit, TypesStep, PTL DEF Spec

LEMMA FcbsTyped == jobs \in Seq(Jobs) => FcbIn \subseteq FcbType
BY DEF FcbIn, FcbType

\* The types of every state of the packet protocol, for all files and sizes: the
\* receive buffer holds no more answers than are on the line, and a wait belongs
\* to a packet and ends with the program.
THEOREM PacketTypes == Spec => []TypeOK
<1>1. Types => TypeOK
  <2> SUFFICES ASSUME Types PROVE TypeOK
    OBVIOUS
  <2>1. FcbIn \subseteq FcbType
    BY FcbsTyped DEF Types, HostTypes
  <2>2. \A i \in DOMAIN net : net[i] \in PacketType
    <3>1. \A i \in DOMAIN net : net[i] \in PacketIn
      BY DEF Types, WireTypes
    <3> QED
      BY <2>1, <3>1 DEF PacketIn, PacketType
  <2>3. \A i \in DOMAIN line :
          line[i] \in [cmd : {"pong", "ack", "created", "written", "closed"}, fcb : FcbType]
    <3>1. \A i \in DOMAIN line : line[i] \in AnswerIn
      BY DEF Types, WireTypes
    <3> QED
      BY <2>1, <3>1 DEF AnswerIn
  <2> QED
    BY <2>1, <2>2, <2>3 DEF Types, HostTypes, BufferTypes, StationType, TypeOK
<1> QED
  BY TypesOfLink, <1>1, PTL

-----------------------------------------------------------------------------
(* The order of the packets of a copy.                                     *)

LEMMA Growing ==
  ASSUME NEW a \in Nat, NEW b \in Nat, NEW d \in Nat, a <= b
  PROVE  a * d \in Nat /\ b * d \in Nat /\ a * d <= b * d
<1>1. b - a \in Nat /\ b = a + (b - a)
  OBVIOUS
<1>2. (b - a) * d \in Nat /\ a * d \in Nat /\ b * d \in Nat
  BY <1>1, Products
<1>3. b * d = a * d + (b - a) * d
  BY <1>1
<1> QED
  BY <1>2, <1>3

\* A quotient that is not larger is not smaller either.
LEMMA SameQuotient ==
  ASSUME NEW d \in Nat \ {0}, NEW a \in Nat, NEW b \in Nat,
         NEW r \in 0..(d - 1), NEW s \in 0..(d - 1), a * d + r = b * d + s
  PROVE  a = b /\ r = s
<1>1. ASSUME NEW x \in Nat, NEW y \in Nat, NEW u \in 0..(d - 1), NEW v \in 0..(d - 1),
             x * d + u = y * d + v, x < y
      PROVE FALSE
  <2>1. (x + 1) * d <= y * d /\ y * d \in Nat
    BY <1>1, Growing
  <2>2. (x + 1) * d = x * d + d /\ x * d \in Nat
    BY Products
  <2> QED
    BY <1>1, <2>1, <2>2
<1>2. ~(a < b)
  BY <1>1
<1>3. ~(b < a)
  BY <1>1
<1>4. a = b
  BY <1>2, <1>3
<1>5. a * d \in Nat
  BY Products
<1> QED
  BY <1>4, <1>5

LEMMA BodyAt ==
  ASSUME NEW k \in Nat \ {0}, NEW q \in Nat, NEW i \in 1..PerSector,
         k - 1 = q * PerSector + (i - 1)
  PROVE  BodySector(k) = q /\ BodyIndex(k) = i
<1>1. PerSector \in Nat \ {0} /\ BodySector(k) \in Nat /\ BodyIndex(k) \in 1..PerSector
      /\ k - 1 = BodySector(k) * PerSector + BodyIndex(k) - 1
  BY Body
<1>2. BodySector(k) * PerSector \in Nat
  BY <1>1, Products
<1>3. q * PerSector + (i - 1) = BodySector(k) * PerSector + (BodyIndex(k) - 1)
  BY <1>1, <1>2
<1>4. i - 1 \in 0..(PerSector - 1) /\ BodyIndex(k) - 1 \in 0..(PerSector - 1)
  BY <1>1
<1>5. q = BodySector(k) /\ i - 1 = BodyIndex(k) - 1
  BY <1>1, <1>3, <1>4, SameQuotient
<1> QED
  BY <1>1, <1>5

LEMMA BodyFirst == BodySector(1) = 0 /\ BodyIndex(1) = 1
<1>1. PerSector \in Nat /\ PerSector >= 2
  BY BlocksOfSector DEF PerSector
<1>2. 1 - 1 = 0 * PerSector + (1 - 1)
  BY <1>1
<1> QED
  BY <1>1, <1>2, BodyAt

LEMMA BodyNext ==
  ASSUME NEW k \in Nat \ {0}
  PROVE  /\ BodyIndex(k) < PerSector =>
              BodySector(k + 1) = BodySector(k) /\ BodyIndex(k + 1) = BodyIndex(k) + 1
         /\ BodyIndex(k) = PerSector =>
              BodySector(k + 1) = BodySector(k) + 1 /\ BodyIndex(k + 1) = 1
<1>1. PerSector \in Nat /\ PerSector >= 2 /\ BodySector(k) \in Nat /\ BodyIndex(k) \in 1..PerSector
      /\ k - 1 = BodySector(k) * PerSector + BodyIndex(k) - 1
  BY Body
<1> DEFINE q == BodySector(k)
           i == BodyIndex(k)
<1> HIDE DEF q, i
<1>2. q \in Nat /\ i \in 1..PerSector /\ k - 1 = q * PerSector + i - 1
  BY <1>1 DEF q, i
<1>3. q * PerSector \in Nat /\ (q + 1) * PerSector = q * PerSector + PerSector
  BY <1>1, <1>2, Products
<1>4. (k + 1) - 1 = q * PerSector + i /\ k + 1 \in Nat \ {0}
  BY <1>2, <1>3
<1>5. ASSUME i < PerSector PROVE BodySector(k + 1) = q /\ BodyIndex(k + 1) = i + 1
  <2>1. i + 1 \in 1..PerSector /\ (k + 1) - 1 = q * PerSector + ((i + 1) - 1)
    BY <1>1, <1>2, <1>4, <1>5
  <2> QED
    BY <1>2, <1>4, <2>1, BodyAt
<1>6. ASSUME i = PerSector PROVE BodySector(k + 1) = q + 1 /\ BodyIndex(k + 1) = 1
  <2>1. 1 \in 1..PerSector /\ (k + 1) - 1 = (q + 1) * PerSector + (1 - 1) /\ q + 1 \in Nat
    BY <1>1, <1>2, <1>3, <1>4, <1>6
  <2> QED
    BY <1>4, <2>1, BodyAt
<1> QED
  BY <1>5, <1>6 DEF q, i

\* After the last body all whole sectors have been sent.
LEMMA BodyLast ==
  ASSUME NEW size \in Nat
  PROVE  /\ BodyLength(size) \in Nat
         /\ BodySector(BodyLength(size) + 1) = size \div Sector
         /\ BodyIndex(BodyLength(size) + 1) = 1
<1>1. PerSector \in Nat /\ PerSector >= 2
  BY BlocksOfSector DEF PerSector
<1> DEFINE q == size \div Sector
           k == BodyLength(size)
<1>2. q \in Nat /\ k \in Nat
  BY CopyTyped
<1>3. k = PerSector * q
  BY DEF BodyLength
<1> HIDE DEF q, k
<1>4. PerSector * q = q * PerSector
  BY <1>1, <1>2
<1>5. (k + 1) - 1 = q * PerSector + (1 - 1) /\ 1 \in 1..PerSector
  <2>1. q * PerSector \in Nat
    BY <1>1, <1>2, Products
  <2> QED
    BY <1>1, <1>2, <1>3, <1>4, <2>1
<1>6. BodySector(k + 1) = q /\ BodyIndex(k + 1) = 1
  BY <1>2, <1>5, BodyAt
<1> QED
  BY <1>2, <1>6 DEF q, k

\* What a data block carries.
LEMMA DataAt ==
  ASSUME NEW q \in Nat, NEW i \in 1..SectorPackets
  PROVE  /\ q * Sector \in Nat /\ (i - 1) * BlockMax \in Nat /\ i * BlockMax \in Nat
         /\ DataPacket(q, i).at = q * Sector + (i - 1) * BlockMax
         /\ DataPacket(q, i).last <=> i = SectorPackets
         /\ i = SectorPackets => DataPacket(q, i).at + DataPacket(q, i).n = q * Sector + Sector
         /\ i # SectorPackets =>
              DataPacket(q, i).at + DataPacket(q, i).n = q * Sector + i * BlockMax
<1>1. Sector \in Nat \ {0} /\ BlockMax \in Nat \ {0} /\ SectorPackets \in Nat \ {0}
  BY ScriptAssumption, BlocksOfSector
<1> DEFINE from == q * Sector
           b == (i - 1) * BlockMax
           left == Sector - b
<1>2. from \in Nat /\ b \in Nat /\ b < Sector /\ (i = SectorPackets <=> left <= BlockMax)
  BY <1>1, BlockBegins, Products
<1>3. i * BlockMax = b + BlockMax
  <2>1. i - 1 \in Nat /\ (i - 1) + 1 = i
    BY <1>1
  <2> QED
    BY <1>1, <2>1, Products
<1>4. /\ DataPacket(q, i).at = from + b
      /\ DataPacket(q, i).n = (IF left > BlockMax THEN BlockMax ELSE left)
      /\ DataPacket(q, i).last = (left <= BlockMax)
  BY DEF DataPacket, Carrying
<1>5. left = Sector - b
  OBVIOUS
<1> HIDE DEF from, b, left
<1>6. i = SectorPackets => DataPacket(q, i).at + DataPacket(q, i).n = from + Sector
  BY <1>1, <1>2, <1>4, <1>5
<1>7. i # SectorPackets => DataPacket(q, i).at + DataPacket(q, i).n = from + i * BlockMax
  <2> DEFINE e == i * BlockMax
  <2>1. e = b + BlockMax
    BY <1>3
  <2> HIDE DEF e
  <2>2. i # SectorPackets => DataPacket(q, i).at + DataPacket(q, i).n = from + e
    BY <1>1, <1>2, <1>4, <1>5, <2>1
  <2> QED
    BY <2>2 DEF e
<1>8. i * BlockMax \in Nat
  BY <1>1, Products
<1> QED
  BY <1>2, <1>4, <1>6, <1>7, <1>8 DEF from, b

\* The blocks of a sector, in the order in which they are sent, hold its bytes.
LEMMA SectorHolds ==
  ASSUME NEW q \in Nat, NEW blocks \in Seq(BlockType), Len(blocks) = SectorPackets,
         \A i \in 1..SectorPackets : blocks[i] = Block(DataPacket(q, i))
  PROVE  HoldsBytes(blocks, q * Sector, (q + 1) * Sector)
<1>1. Sector \in Nat \ {0} /\ BlockMax \in Nat \ {0} /\ SectorPackets \in Nat \ {0}
  BY ScriptAssumption, BlocksOfSector
<1>2. q * Sector \in Nat /\ (q + 1) * Sector = q * Sector + Sector
  BY <1>1, Products
<1>3. \A i \in 1..SectorPackets :
        /\ blocks[i].at = DataPacket(q, i).at /\ blocks[i].n = DataPacket(q, i).n
        /\ blocks[i].last = DataPacket(q, i).last
  BY DEF Block
<1>4. blocks # << >> /\ blocks[1].at = q * Sector
  <2>1. 1 \in 1..SectorPackets /\ 1 - 1 = 0
    BY <1>1
  <2>2. 0 * BlockMax = 0
    BY <1>1
  <2>3. blocks[1].at = q * Sector + (1 - 1) * BlockMax
    BY <1>3, <2>1, DataAt
  <2>4. blocks[1].at = q * Sector + 0
    BY <2>1, <2>2, <2>3
  <2>5. blocks # << >>
    BY <1>1
  <2> QED
    BY <1>2, <2>4, <2>5
<1>5. ASSUME NEW i \in 1..SectorPackets
      PROVE  /\ blocks[i].at + blocks[i].n =
                  IF i = SectorPackets THEN (q + 1) * Sector ELSE blocks[i + 1].at
             /\ blocks[i].last <=> i = SectorPackets
  <2>1. CASE i = SectorPackets
    <3>1. blocks[i].at + blocks[i].n = q * Sector + Sector
      BY <1>3, <2>1, DataAt
    <3>2. blocks[i].last <=> i = SectorPackets
      BY <1>3, DataAt
    <3>3. blocks[i].at + blocks[i].n = (q + 1) * Sector
      BY ONLY <1>2, <3>1
    <3> QED
      BY <2>1, <3>2, <3>3
  <2>2. CASE i # SectorPackets
    <3>1. i + 1 \in 1..SectorPackets /\ (i + 1) - 1 = i
      BY <1>1, <2>2
    <3>2. blocks[i + 1].at = q * Sector + ((i + 1) - 1) * BlockMax
      BY <1>3, <3>1, DataAt
    <3>3. blocks[i].at + blocks[i].n = q * Sector + i * BlockMax
      BY <1>3, <2>2, DataAt
    <3>4. blocks[i].last <=> i = SectorPackets
      BY <1>3, DataAt
    <3>5. blocks[i + 1].at = q * Sector + i * BlockMax
      BY <3>1, <3>2
    <3> QED
      BY <2>2, <3>3, <3>4, <3>5
  <2> QED
    BY <2>1, <2>2
<1>6. DOMAIN blocks = 1..SectorPackets
  OBVIOUS
<1> QED
  BY <1>4, <1>5, <1>6 DEF HoldsBytes

-----------------------------------------------------------------------------
(* Copies.                                                                 *)

\* What the host says of the file that it sends: packets acknowledged, and the
\* next one that the workstation executes.
Whole == ScriptOf(jobs[file])
Acked == Len(Whole) - Len(script)
Executing == IF line = << >> THEN Acked + 1 ELSE Acked + 2

Sectors(f) == jobs[f].bytes \div Sector

\* Before packet b of the bodies of a copy: the sectors so far are on the disk, and
\* the blocks so far of the next one in the buffer.
SectorsBefore(d, b) ==
  /\ Len(d) = BodySector(b)
  /\ \A s \in DOMAIN d : HoldsBytes(d[s], (s - 1) * Sector, s * Sector)
BlocksBefore(buf, b) ==
  BodyIndex(b) > 1 =>
    /\ Len(buf) = BodyIndex(b) - 1
    /\ \A i \in 1..(BodyIndex(b) - 1) : buf[i] = Block(DataPacket(BodySector(b), i))

\* The workstation before packet b of the bodies of file f.
DiskBefore(f, b) == SectorsBefore(station.disk[f], b)
BufferBefore(b) == BlocksBefore(station.buffer, b)

CopiedWhole(f) == SectorsOf(f) /\ station.closed[f] = Sectors(f)

\* The workstation before packet x of a copy of n = BodyLength bodies.
Progress(f, n, x) ==
  /\ x \in 3..(n + 3) => DiskBefore(f, x - 2) /\ BufferBefore(x - 2)
  /\ x = n + 4 => CopiedWhole(f)

\* The packets still to be acknowledged are the last ones of the copy.
RestOfCopy ==
  Len(script) <= Len(Whole) /\ \A i \in 1..Len(script) : script[i] = Whole[Acked + i]

\* The copy of the file being sent.
ThisCopy ==
  LET n == BodyLength(jobs[file].bytes) IN
    /\ RestOfCopy
    /\ Acked \in 2..(n + 2) => rxFcb = Fcb(file, BodySector(Acked - 1))
    /\ Progress(file, n, Executing)

\* While nothing was late and no data block was lost: earlier copies are whole, and
\* a packet without an answer is one that was lost.
Earlier ==
  \A f \in 1..Len(jobs) : jobs[f].kind = "copy" /\ f < file => CopiedWhole(f)
Missed ==
  waiting /\ Quiet => \E i \in DOMAIN lost : lost[i].cmd = Head(script).cmd
Copying ==
  /\ ~rxCut
  /\ Missed
  /\ Earlier
  /\ file = 0 => script = << >>
  /\ file > 0 /\ jobs[file].kind = "copy" => ThisCopy
  /\ file > 0 /\ jobs[file].kind # "copy" => script \in Seq(ProgType)

InTime == early = 0 /\ ~Lost({"data", "data2"})
CopyInv == InTime => Copying

-----------------------------------------------------------------------------
(* The workstation executes a packet of a copy.                            *)

LEMMA OutgoingParts ==
  ASSUME NEW P
  PROVE  /\ Outgoing(P).cmd = P.cmd /\ Block(Outgoing(P)) = Block(P)
         /\ P.cmd = "create" => Outgoing(P).fcb = Fcb(file, 0)
         /\ P.cmd \in {"write", "close"} => Outgoing(P).fcb = rxFcb
BY DEF Outgoing, Block

\* Files that a packet does not name stay as they are.
LEMMA OthersKept ==
  ASSUME station \in StationType, NEW p \in PacketIn, NEW g \in 0..Len(jobs),
         p.cmd \in {"create", "write", "close"} => p.fcb.file # g,
         station' = Executed(p)
  PROVE  station'.disk[g] = station.disk[g] /\ station'.closed[g] = station.closed[g]
<1>1. /\ station.disk \in [0..Len(jobs) -> Seq(Seq(BlockType))]
      /\ station.closed \in [0..Len(jobs) -> Nat]
  BY DEF StationType
<1>2. CASE p.cmd \in {"create", "write"}
  <2>1. PICK x : Executed(p) = [station EXCEPT !.disk = [station.disk EXCEPT ![p.fcb.file] = x]]
    BY <1>2 DEF Executed, StationType
  <2> QED
    BY <1>1, <1>2, <2>1 DEF StationType
<1>3. CASE p.cmd = "close"
  <2>1. Executed(p) =
          [station EXCEPT !.closed = [station.closed EXCEPT ![p.fcb.file] = p.fcb.rec]]
    BY <1>3 DEF Executed, StationType
  <2> QED
    BY <1>1, <1>3, <2>1 DEF StationType
<1>4. CASE p.cmd \in {"data", "data2"}
  <2>1. PICK x : Executed(p) = [station EXCEPT !.buffer = x]
    BY <1>4 DEF Executed, StationType
  <2> QED
    BY <1>1, <2>1 DEF StationType
<1>5. CASE p.cmd = "header"
  <2>1. Executed(p) = [station EXCEPT !.image = p.n, !.loaded = 0, !.complete = FALSE]
    BY <1>5 DEF Executed
  <2> QED
    BY <1>1, <2>1 DEF StationType
<1>6. CASE p.cmd = "block"
  <2>1. PICK x : Executed(p) = [station EXCEPT !.loaded = x, !.complete = p.last]
    BY <1>6 DEF Executed, StationType
  <2> QED
    BY <1>1, <2>1 DEF StationType
<1>7. CASE p.cmd \in {"command", "poke", "ping"}
  <2>1. Executed(p) = station \/ \E u : Executed(p) = [station EXCEPT !.used = u]
    BY <1>7 DEF Executed
  <2> QED
    BY <1>1, <2>1 DEF StationType
<1>8. p.cmd \in Commands
  BY DEF PacketIn
<1> QED
  BY <1>2, <1>3, <1>4, <1>5, <1>6, <1>7, <1>8 DEF Commands

\* What a packet makes of the buffer, of the sectors of the file that it names, and
\* of the disk.
Buffered(buf, p) ==
  CASE p.cmd = "data" -> << Block(p) >>
    [] p.cmd = "data2" -> Append(buf, Block(p))
    [] OTHER -> buf
Sectored(d, buf, p) == IF p.cmd = "write" THEN Stored(d, p.fcb.rec, buf) ELSE d
Disked(disk, buf, p) ==
  CASE p.cmd = "create" -> [disk EXCEPT ![p.fcb.file] = << >>]
    [] p.cmd = "write" -> [disk EXCEPT ![p.fcb.file] = Sectored(@, buf, p)]
    [] OTHER -> disk

LEMMA ExecutedParts ==
  ASSUME station \in StationType, NEW p \in PacketIn
  PROVE  /\ Executed(p).buffer = Buffered(station.buffer, p)
         /\ Executed(p).disk = Disked(station.disk, station.buffer, p)
<1>1. CASE p.cmd \in {"data", "data2"}
  <2>1. Executed(p) = [station EXCEPT !.buffer = Buffered(station.buffer, p)]
    BY <1>1 DEF Executed, Buffered, StationType
  <2>2. Disked(station.disk, station.buffer, p) = station.disk
    BY <1>1 DEF Disked
  <2> QED
    BY <2>1, <2>2 DEF StationType
<1>2. CASE p.cmd \in {"create", "write"}
  <2>1. Executed(p) = [station EXCEPT !.disk = Disked(station.disk, station.buffer, p)]
    BY <1>2 DEF Executed, Disked, Sectored, StationType
  <2>2. Buffered(station.buffer, p) = station.buffer
    BY <1>2 DEF Buffered
  <2> QED
    BY <2>1, <2>2 DEF StationType
<1>3. CASE p.cmd \notin {"data", "data2", "create", "write"}
  <2>1. Buffered(station.buffer, p) = station.buffer
        /\ Disked(station.disk, station.buffer, p) = station.disk
    BY <1>3 DEF Buffered, Disked
  <2>2. CASE p.cmd = "close"
    <3>1. PICK x : Executed(p) = [station EXCEPT !.closed = x]
      BY <2>2 DEF Executed, StationType
    <3> QED
      BY <2>1, <3>1 DEF StationType
  <2>3. CASE p.cmd = "header"
    <3>1. Executed(p) = [station EXCEPT !.image = p.n, !.loaded = 0, !.complete = FALSE]
      BY <2>3 DEF Executed
    <3> QED
      BY <2>1, <3>1 DEF StationType
  <2>4. CASE p.cmd = "block"
    <3>1. PICK x : Executed(p) = [station EXCEPT !.loaded = x, !.complete = p.last]
      BY <2>4 DEF Executed, StationType
    <3> QED
      BY <2>1, <3>1 DEF StationType
  <2>5. CASE p.cmd \in {"command", "poke", "ping"}
    <3>1. Executed(p) = station \/ \E u : Executed(p) = [station EXCEPT !.used = u]
      BY <2>5 DEF Executed
    <3> QED
      BY <2>1, <3>1 DEF StationType
  <2>6. p.cmd \in Commands
    BY DEF PacketIn
  <2> QED
    BY <1>3, <2>2, <2>3, <2>4, <2>5, <2>6 DEF Commands
<1> QED
  BY <1>1, <1>2, <1>3

\* A packet of the bodies takes sectors and blocks to what they are before the next.
LEMMA BodyStored ==
  ASSUME NEW d \in Seq(Seq(BlockType)), NEW buf \in Seq(BlockType), NEW b \in Nat \ {0}, NEW p,
         SectorsBefore(d, b), BlocksBefore(buf, b),
         p.cmd = BodyPacket(b).cmd, Block(p) = Block(BodyPacket(b)),
         p.cmd = "write" => p.fcb.rec = BodySector(b)
  PROVE  /\ SectorsBefore(Sectored(d, buf, p), b + 1)
         /\ BlocksBefore(Buffered(buf, p), b + 1)
<1> DEFINE q == BodySector(b)
           i == BodyIndex(b)
<1>1. /\ q \in Nat /\ i \in 1..PerSector /\ BodyPacket(b) = SectorPacket(q, i)
      /\ PerSector = SectorPackets + 1 /\ SectorPackets \in Nat \ {0}
  BY Body, BlocksOfSector DEF PerSector
<1>2. Len(d) = q /\ \A s \in DOMAIN d : HoldsBytes(d[s], (s - 1) * Sector, s * Sector)
  BY DEF SectorsBefore
<1>3. CASE i <= SectorPackets
  <2> DEFINE x == Block(DataPacket(q, i))
             B == IF i = 1 THEN << x >> ELSE Append(buf, x)
  <2>1. BodyPacket(b) = DataPacket(q, i)
    BY <1>1, <1>3 DEF SectorPacket
  <2>2. p.cmd = (IF i = 1 THEN "data" ELSE "data2") /\ Block(p) = x
    BY <2>1 DEF DataPacket, Carrying
  <2>3. Buffered(buf, p) = B /\ Sectored(d, buf, p) = d
    BY <2>2 DEF Buffered, Sectored
  <2>4. BodySector(b + 1) = q /\ BodyIndex(b + 1) = i + 1 /\ BodyIndex(b + 1) - 1 = i
    BY <1>1, <1>3, BodyNext
  <2>5. Len(B) = i /\ \A m \in 1..i : B[m] = Block(DataPacket(q, m))
    <3>1. CASE i = 1
      BY <3>1
    <3>2. CASE i # 1
      <4>1. /\ Len(buf) = i - 1
            /\ \A m \in 1..(i - 1) : buf[m] = Block(DataPacket(q, m))
        BY <1>1, <3>2 DEF BlocksBefore
      <4>2. B = Append(buf, x)
        BY <3>2 DEF B
      <4>3. x = Block(DataPacket(q, i))
        OBVIOUS
      <4> HIDE DEF x, B
      <4>4. Len(B) = i /\ B[i] = x /\ \A m \in 1..(i - 1) : B[m] = buf[m]
        BY <1>1, <3>2, <4>1, <4>2
      <4>5. ASSUME NEW m \in 1..i PROVE B[m] = Block(DataPacket(q, m))
        <5>1. CASE m = i
          BY <4>3, <4>4, <5>1
        <5>2. CASE m # i
          <6>1. m \in 1..(i - 1)
            BY <1>1, <5>2
          <6> QED
            BY <4>1, <4>4, <6>1
        <5> QED
          BY <5>1, <5>2
      <4> QED
        BY <4>4, <4>5
    <3> QED
      BY <3>1, <3>2
  <2> HIDE DEF B
  <2>6. SectorsBefore(d, b + 1)
    BY <2>4 DEF SectorsBefore
  <2>7. BlocksBefore(B, b + 1)
    BY <2>4, <2>5 DEF BlocksBefore
  <2> QED
    BY <2>3, <2>6, <2>7
<1>4. CASE i = PerSector
  <2> DEFINE D == Append(d, buf)
  <2>1. ~(i <= SectorPackets)
    BY <1>1, <1>4
  <2>2. BodyPacket(b).cmd = "write"
    BY <1>1, <2>1 DEF SectorPacket, Carrying
  <2>3. Sectored(d, buf, p) = D /\ Buffered(buf, p) = buf
    BY <1>1, <1>2, <2>2 DEF Sectored, Stored, Buffered
  <2>4. BodySector(b + 1) = q + 1 /\ BodyIndex(b + 1) = 1
    BY <1>4, BodyNext
  <2>5. HoldsBytes(buf, q * Sector, (q + 1) * Sector)
    <3>1. Len(buf) = SectorPackets /\ \A m \in 1..SectorPackets : buf[m] = Block(DataPacket(q, m))
      <4>1. i > 1 /\ i - 1 = SectorPackets
        BY <1>1, <1>4
      <4> QED
        BY <4>1 DEF BlocksBefore
    <3> QED
      BY <1>1, <3>1, SectorHolds
  <2>6. Len(D) = q + 1 /\ \A s \in DOMAIN D : HoldsBytes(D[s], (s - 1) * Sector, s * Sector)
    <3>1. Len(D) = q + 1 /\ D[q + 1] = buf /\ \A s \in 1..q : D[s] = d[s]
      BY <1>1, <1>2
    <3>2. DOMAIN D = 1..(q + 1) /\ DOMAIN d = 1..q
      BY <1>1, <1>2
    <3> HIDE DEF D
    <3> SUFFICES ASSUME NEW s \in 1..(q + 1) PROVE HoldsBytes(D[s], (s - 1) * Sector, s * Sector)
      BY <3>1, <3>2
    <3>3. CASE s \in 1..q
      BY <1>2, <3>1, <3>2, <3>3
    <3>4. CASE s = q + 1
      <4>1. s - 1 = q
        BY <1>1, <3>4
      <4> QED
        BY <2>5, <3>1, <3>4, <4>1
    <3> QED
      BY <1>1, <3>3, <3>4
  <2> HIDE DEF D
  <2> QED
    BY <2>3, <2>4, <2>6 DEF SectorsBefore, BlocksBefore
<1> QED
  BY <1>1, <1>3, <1>4

\* A packet of the bodies takes the workstation to the state before the next one.
LEMMA BodyExecuted ==
  ASSUME jobs \in Seq(Jobs), station \in StationType,
         NEW f \in 1..Len(jobs), NEW b \in Nat \ {0},
         DiskBefore(f, b), BufferBefore(b),
         rxFcb = Fcb(f, BodySector(b)),
         Outgoing(BodyPacket(b)) \in PacketIn,
         station' = Executed(Outgoing(BodyPacket(b)))
  PROVE  DiskBefore(f, b + 1)' /\ BufferBefore(b + 1)'
<1> DEFINE p == Outgoing(BodyPacket(b))
<1>1. /\ p.cmd = BodyPacket(b).cmd /\ Block(p) = Block(BodyPacket(b))
      /\ p.cmd \in {"write", "close"} => p.fcb.file = f /\ p.fcb.rec = BodySector(b)
  BY OutgoingParts DEF Fcb
<1>2. p.cmd # "create"
  <2>1. BodyPacket(b) = SectorPacket(BodySector(b), BodyIndex(b))
    BY Body
  <2> QED
    BY <1>1, <2>1 DEF SectorPacket, DataPacket, Carrying
<1>3. /\ station.disk \in [0..Len(jobs) -> Seq(Seq(BlockType))]
      /\ station.buffer \in Seq(BlockType)
      /\ f \in 0..Len(jobs) /\ station.disk[f] \in Seq(Seq(BlockType))
  BY DEF StationType
<1>4. /\ station'.buffer = Buffered(station.buffer, p)
      /\ station'.disk = Disked(station.disk, station.buffer, p)
  BY ExecutedParts
<1>5. station'.disk[f] = Sectored(station.disk[f], station.buffer, p)
  BY <1>1, <1>2, <1>3, <1>4 DEF Disked, Sectored
<1>6. /\ SectorsBefore(Sectored(station.disk[f], station.buffer, p), b + 1)
      /\ BlocksBefore(Buffered(station.buffer, p), b + 1)
  BY <1>1, <1>3, BodyStored DEF DiskBefore, BufferBefore
<1>7. SectorsBefore(station'.disk[f], b + 1) /\ BlocksBefore(station'.buffer, b + 1)
  BY <1>4, <1>5, <1>6
<1> QED
  BY <1>7 DEF DiskBefore, BufferBefore, SectorsBefore, BlocksBefore, HoldsBytes

\* What the packets of a copy are.
LEMMA WholeCopy ==
  ASSUME Types, file > 0, jobs[file].kind = "copy"
  PROVE  LET n == BodyLength(jobs[file].bytes) IN
         /\ file \in 1..Len(jobs) /\ jobs[file].bytes \in Nat
         /\ n \in Nat /\ Whole \in Seq(SendType) /\ Len(Whole) = n + 3
         /\ Whole[1] = Ping /\ Whole[2] = Packet("create", "exit")
         /\ \A k \in 1..n : Whole[k + 2] = BodyPacket(k)
         /\ Whole[n + 3] = Packet("close", "exit")
<1>1. file \in 1..Len(jobs) /\ jobs \in Seq(Jobs)
  BY DEF Types, HostTypes
<1>2. jobs[file] \in Jobs
  BY <1>1
<1>3. jobs[file].bytes \in Nat
  BY <1>2 DEF Jobs
<1>4. Whole = CopyScript(jobs[file].bytes)
  BY DEF Whole, ScriptOf
<1> QED
  BY <1>1, <1>3, <1>4, CopyTyped

\* The packet that is sent is the one after those acknowledged.
LEMMA NextOfCopy ==
  ASSUME Types, file > 0, jobs[file].kind = "copy", RestOfCopy, script # << >>
  PROVE  /\ Acked \in Nat /\ Acked + 1 \in 1..(BodyLength(jobs[file].bytes) + 3)
         /\ Head(script) = Whole[Acked + 1]
         /\ Len(Tail(script)) = Len(script) - 1
         /\ \A i \in 1..Len(Tail(script)) : Tail(script)[i] = Whole[Acked + 1 + i]
<1> DEFINE n == BodyLength(jobs[file].bytes)
<1>1. n \in Nat /\ Len(Whole) = n + 3 /\ Whole \in Seq(SendType)
  BY WholeCopy
<1>2. script \in Seq(SendType) /\ Len(script) \in Nat \ {0} /\ Head(script) = script[1]
      /\ Tail(script) \in Seq(SendType) /\ Len(Tail(script)) = Len(script) - 1
      /\ \A i \in 1..Len(Tail(script)) : Tail(script)[i] = script[i + 1]
  BY DEF Types, HostTypes
<1>3. Len(script) <= Len(Whole) /\ \A i \in 1..Len(script) : script[i] = Whole[Acked + i]
  BY DEF RestOfCopy
<1> HIDE DEF n
<1>4. Acked \in Nat /\ Acked + 1 \in 1..(n + 3)
  BY <1>1, <1>2, <1>3 DEF Acked
<1>5. Head(script) = Whole[Acked + 1]
  BY <1>2, <1>3
<1>6. \A i \in 1..Len(Tail(script)) : Tail(script)[i] = Whole[Acked + 1 + i]
  <2> TAKE i \in 1..Len(Tail(script))
  <2>1. i + 1 \in 1..Len(script) /\ Acked + (i + 1) = Acked + 1 + i
    BY <1>2, <1>4
  <2> QED
    BY <1>2, <1>3, <2>1
<1> QED
  BY <1>2, <1>4, <1>5, <1>6 DEF n

\* A copy is as it was when the workstation, and whether an answer is there, are.
LEMMA SameCopy ==
  ASSUME ThisCopy, UNCHANGED << jobs, file, script, rxFcb, station >>,
         line = << >> <=> line' = << >>
  PROVE  ThisCopy'
<1>1. Whole' = Whole /\ Acked' = Acked /\ Executing' = Executing
  BY DEF Whole, Acked, Executing
<1>2. \A f, n, x : Progress(f, n, x)' <=> Progress(f, n, x)
  BY DEF Progress, DiskBefore, BufferBefore, SectorsBefore, BlocksBefore, CopiedWhole, SectorsOf, Sectors, HoldsBytes
<1> QED
  BY <1>1, <1>2 DEF ThisCopy, RestOfCopy

LEMMA SameEarlier ==
  ASSUME Earlier, UNCHANGED << jobs, file, station >>
  PROVE  Earlier'
BY DEF Earlier, CopiedWhole, SectorsOf, Sectors, HoldsBytes

LEMMA ExecuteCopy ==
  ASSUME Types, file > 0, jobs[file].kind = "copy", ThisCopy, script # << >>, line = << >>,
         UNCHANGED << jobs, file, script, rxFcb >>, line' # << >>,
         station' = Executed(Outgoing(Head(script)))
  PROVE  ThisCopy'
<1>0. PICK f, n, x : f = file /\ n = BodyLength(jobs[file].bytes) /\ x = Acked + 1
  OBVIOUS
<1> DEFINE p == Outgoing(Head(script))
<1>1. /\ f \in 1..Len(jobs) /\ jobs[f].bytes \in Nat
      /\ n \in Nat /\ Whole[1] = Ping /\ Whole[2] = Packet("create", "exit")
      /\ \A k \in 1..n : Whole[k + 2] = BodyPacket(k)
      /\ Whole[n + 3] = Packet("close", "exit")
  BY <1>0, WholeCopy
<1>2. Acked \in Nat /\ x \in 1..(n + 3) /\ Head(script) = Whole[x]
  BY <1>0, NextOfCopy DEF ThisCopy
<1>3. /\ Acked \in 2..(n + 2) => rxFcb = Fcb(f, BodySector(Acked - 1))
      /\ Progress(f, n, x)
  BY <1>0 DEF ThisCopy, Executing
<1>4. jobs \in Seq(Jobs) /\ station \in StationType
  BY DEF Types, HostTypes
<1>5. /\ station.disk \in [0..Len(jobs) -> Seq(Seq(BlockType))]
      /\ station.closed \in [0..Len(jobs) -> Nat] /\ f \in 0..Len(jobs)
  BY <1>1, <1>4 DEF StationType
<1>6. Whole' = Whole /\ Acked' = Acked /\ Executing' = x + 1
  BY <1>0, <1>2 DEF Whole, Acked, Executing
<1>7. (x \in 2..(n + 2) => DiskBefore(f, x - 1)' /\ BufferBefore(x - 1)')
      /\ (x = n + 3 => CopiedWhole(f)')
  <2>1. CASE x = 2
    <3>1. p.cmd = "create" /\ p.fcb = Fcb(f, 0)
      <4>1. Head(script).cmd = "create"
        BY <1>1, <1>2, <2>1 DEF Packet
      <4> QED
        BY <1>0, <4>1, OutgoingParts
    <3>2. station' = [station EXCEPT !.disk = [station.disk EXCEPT ![f] = << >>]]
      BY <3>1 DEF Executed, Fcb, StationType
    <3>3. station'.disk[f] = << >>
      BY <1>4, <1>5, <3>2 DEF StationType
    <3>4. DiskBefore(f, 1)' /\ BufferBefore(1)'
      BY <3>3, BodyFirst DEF DiskBefore, BufferBefore, SectorsBefore, BlocksBefore
    <3>5. x - 1 = 1 /\ x # n + 3
      BY <1>1, <2>1
    <3> QED
      BY <3>4, <3>5
  <2>2. CASE x \in 3..(n + 2)
    <3> DEFINE b == x - 2
    <3>1. b \in 1..n /\ b + 2 = x /\ Acked = b + 1 /\ Acked \in 2..(n + 2) /\ x \in 3..(n + 3)
      BY <1>1, <1>0, <1>2, <2>2
    <3>2. Head(script) = BodyPacket(b)
      BY <1>1, <1>2, <3>1
    <3>3. DiskBefore(f, b) /\ BufferBefore(b)
      BY <1>3, <3>1 DEF Progress
    <3>4. rxFcb = Fcb(f, BodySector(b))
      <4>1. Acked - 1 = b
        BY <3>1
      <4> QED
        BY <1>3, <3>1, <4>1
    <3>5. b \in Nat \ {0}
      BY <1>1, <3>1
    <3>6. PICK c \in Nat \ {0} : c = b
      BY <3>5
    <3> HIDE DEF b
    <3>7. DiskBefore(f, c + 1)' /\ BufferBefore(c + 1)'
      BY <1>1, <1>4, <3>2, <3>3, <3>4, <3>6, BodyExecuted, OutgoingTyped
    <3>8. c + 1 = x - 1 /\ x # n + 3
      BY <1>1, <1>2, <2>2, <3>6 DEF b
    <3> QED
      BY <3>7, <3>8
  <2>3. CASE x = n + 3
    <3>1. Acked \in 2..(n + 2) /\ Acked - 1 = n + 1 /\ x \in 3..(n + 3) /\ x - 2 = n + 1
      BY <1>1, <1>2, <1>0, <2>3
    <3>2. rxFcb = Fcb(f, BodySector(n + 1)) /\ DiskBefore(f, n + 1)
      BY <1>3, <3>1 DEF Progress
    <3>3. BodySector(n + 1) = Sectors(f)
      BY <1>1, <1>0, BodyLast DEF Sectors
    <3>4. p.cmd = "close" /\ p.fcb = Fcb(f, Sectors(f))
      <4>1. Head(script).cmd = "close"
        BY <1>1, <1>2, <2>3 DEF Packet
      <4> QED
        BY <3>2, <3>3, <1>0, <4>1, OutgoingParts
    <3>5. station' = [station EXCEPT !.closed = [station.closed EXCEPT ![f] = Sectors(f)]]
      BY <3>4 DEF Executed, Fcb, StationType
    <3>6. station'.closed[f] = Sectors(f) /\ station'.disk = station.disk
      BY <1>4, <1>5, <3>5 DEF StationType
    <3>7. SectorsOf(f)
      BY <3>2, <3>3 DEF DiskBefore, SectorsBefore, SectorsOf, Sectors
    <3>8. CopiedWhole(f)'
      BY <3>6, <3>7 DEF CopiedWhole, SectorsOf, Sectors, HoldsBytes
    <3>9. ~(x \in 2..(n + 2))
      BY <1>1, <2>3
    <3> QED
      BY <3>8, <3>9
  <2>4. x = 1 => ~(x \in 2..(n + 2)) /\ x # n + 3
    BY <1>1
  <2>5. x = 1 \/ x = 2 \/ x \in 3..(n + 2) \/ x = n + 3
    BY <1>1, <1>2
  <2> QED
    BY <2>1, <2>2, <2>3, <2>4, <2>5
<1>8. file' = f /\ jobs' = jobs /\ n = BodyLength(jobs[f].bytes)
  BY <1>0
<1>9. Progress(f, n, x + 1)'
  <2>1. x + 1 \in 3..(n + 3) => x \in 2..(n + 2) /\ (x + 1) - 2 = x - 1
    BY <1>1, <1>2
  <2>2. x + 1 = n + 4 => x = n + 3
    BY <1>1, <1>2
  <2> QED
    BY <1>7, <2>1, <2>2 DEF Progress
<1>10. Len(script) <= Len(Whole) /\ \A i \in 1..Len(script) : script[i] = Whole[Acked + i]
  BY DEF ThisCopy, RestOfCopy
<1> QED
  BY <1>3, <1>6, <1>8, <1>9, <1>10 DEF ThisCopy, RestOfCopy

-----------------------------------------------------------------------------
(* The steps of a session without late answers and lost data.              *)

\* What a wait without an answer does to a copy.
LEMMA CopyUnacked ==
  ASSUME Types, file > 0, jobs[file].kind = "copy", ThisCopy, script # << >>
  PROVE  /\ Head(script).unacked # "leave"
         /\ Head(script).unacked = "on" => Head(script).cmd \in {"data", "data2"}
         /\ Head(script).cmd \in {"write", "close"} =>
              \E r \in Nat : rxFcb = Fcb(file, r)
<1>0. PICK n : n = BodyLength(jobs[file].bytes)
  OBVIOUS
<1>1. /\ jobs[file].bytes \in Nat
      /\ n \in Nat /\ Whole[1] = Ping /\ Whole[2] = Packet("create", "exit")
      /\ \A k \in 1..n : Whole[k + 2] = BodyPacket(k)
      /\ Whole[n + 3] = Packet("close", "exit")
  BY <1>0, WholeCopy
<1>2. Acked \in Nat /\ Acked + 1 \in 1..(n + 3) /\ Head(script) = Whole[Acked + 1]
  BY <1>0, NextOfCopy DEF ThisCopy
<1>3. Acked \in 2..(n + 2) => \E r \in Nat : rxFcb = Fcb(file, r)
  <2> SUFFICES ASSUME Acked \in 2..(n + 2) PROVE \E r \in Nat : rxFcb = Fcb(file, r)
    OBVIOUS
  <2>1. Acked - 1 \in Nat \ {0}
    BY <1>1
  <2>2. BodySector(Acked - 1) \in Nat
    BY <2>1, Body
  <2> QED
    BY <1>0, <2>2 DEF ThisCopy
<1>4. CASE Acked + 1 = 1
  <2>1. Head(script) = Ping
    BY <1>1, <1>2, <1>4
  <2> QED
    BY <2>1 DEF Ping, Packet
<1>5. CASE Acked + 1 = 2
  <2>1. Head(script) = Packet("create", "exit")
    BY <1>1, <1>2, <1>5
  <2> QED
    BY <2>1 DEF Packet
<1>6. CASE Acked + 1 \in 3..(n + 2)
  <2>1. PICK b \in 1..n : Acked + 1 = b + 2
    <3>1. Acked - 1 \in 1..n /\ Acked + 1 = (Acked - 1) + 2
      BY <1>1, <1>2, <1>6
    <3> QED
      BY <3>1
  <2>2. Head(script) = BodyPacket(b) /\ b \in Nat \ {0}
    BY <1>1, <1>2, <2>1
  <2>3. Acked \in 2..(n + 2)
    BY <1>1, <1>2, <1>6
  <2>4. BodyPacket(b) = SectorPacket(BodySector(b), BodyIndex(b))
    BY <2>2, Body
  <2>5. \/ BodyPacket(b).unacked = "on" /\ BodyPacket(b).cmd \in {"data", "data2"}
        \/ BodyPacket(b).unacked = "exit"
    BY <2>4 DEF SectorPacket, DataPacket, Carrying
  <2> QED
    BY <1>3, <2>2, <2>3, <2>5
<1>7. CASE Acked + 1 = n + 3
  <2>1. Head(script) = Packet("close", "exit")
    BY <1>1, <1>2, <1>7
  <2>2. Acked \in 2..(n + 2)
    BY <1>1, <1>2, <1>7
  <2> QED
    BY <1>3, <2>1, <2>2 DEF Packet
<1>8. Acked + 1 = 1 \/ Acked + 1 = 2 \/ Acked + 1 \in 3..(n + 2) \/ Acked + 1 = n + 3
  BY <1>1, <1>2
<1> QED
  BY <1>4, <1>5, <1>6, <1>7, <1>8

\* A copy whose packets are all acknowledged is whole.
LEMMA CopyDone ==
  ASSUME Types, TurnInv, early = 0, Copying, file > 0, jobs[file].kind = "copy", script = << >>
  PROVE  CopiedWhole(file)
<1>0. PICK n : n = BodyLength(jobs[file].bytes)
  OBVIOUS
<1>1. n \in Nat /\ Len(Whole) = n + 3
  BY <1>0, WholeCopy
<1>2. line = << >>
  BY DEF TurnInv, Waits, InTurn, Quiet
<1>3. Executing = n + 4
  BY <1>1, <1>2 DEF Executing, Acked
<1>4. Progress(file, n, n + 4)
  BY <1>0, <1>3 DEF Copying, ThisCopy
<1> QED
  BY <1>4 DEF Progress

LEMMA SameCopying ==
  ASSUME Copying, UNCHANGED << jobs, file, script, rxFcb, station, rxCut >>,
         line = << >> <=> line' = << >>, Missed'
  PROVE  Copying'
<1>1. Earlier'
  BY SameEarlier DEF Copying
<1>2. file > 0 /\ jobs[file].kind = "copy" => ThisCopy'
  BY SameCopy DEF Copying
<1> QED
  BY <1>1, <1>2 DEF Copying

LEMMA NextFileCopying ==
  ASSUME Types, TurnInv, early = 0, Copying, NextFile
  PROVE  Copying'
<1>1. /\ UNCHANGED << jobs, waiting, rxFcb, rxCut, net, line, station, lost, early >>
      /\ script = << >> /\ ~waiting
  BY DEF NextFile, rxVars, history, TurnInv, Waits
<1>2. line = << >> /\ Missed'
  BY <1>1 DEF TurnInv, InTurn, Quiet, Missed
<1>3. CASE file = Len(jobs)
  <2>1. UNCHANGED << jobs, file, script, rxFcb, station, rxCut >>
    BY <1>1, <1>3 DEF NextFile
  <2> QED
    BY <1>1, <1>2, <2>1, SameCopying
<1>4. CASE file # Len(jobs)
  <2>1. PICK f : f = file + 1
    OBVIOUS
  <2>2. file' = f /\ script' = ScriptOf(jobs[f])
    BY <1>4, <2>1 DEF NextFile
  <2>3. jobs \in Seq(Jobs) /\ f \in 1..Len(jobs) /\ file \in Nat
    BY <1>4, <2>1 DEF Types, HostTypes
  <2>4. jobs[f] \in Jobs
    BY <2>3
  <2>5. \A g : CopiedWhole(g) => CopiedWhole(g)'
    BY <1>1 DEF CopiedWhole, SectorsOf, Sectors, HoldsBytes
  <2>6. Earlier'
    <3> SUFFICES ASSUME NEW g \in 1..Len(jobs), jobs[g].kind = "copy", g < f
                 PROVE  CopiedWhole(g)
      BY <1>1, <2>2, <2>5 DEF Earlier
    <3>1. CASE g < file
      BY <3>1 DEF Copying, Earlier
    <3>2. CASE g = file
      BY <1>1, <2>3, <3>2, CopyDone
    <3> QED
      BY <2>1, <2>3, <3>1, <3>2
  <2>7. ASSUME jobs[f].kind = "copy" PROVE ThisCopy'
    <3>1. PICK n : n = BodyLength(jobs[f].bytes)
      OBVIOUS
    <3>2. jobs[f].bytes \in Nat
      BY <2>4 DEF Jobs
    <3>3. ScriptOf(jobs[f]) = CopyScript(jobs[f].bytes)
      BY <2>7 DEF ScriptOf
    <3>4. n \in Nat /\ Len(ScriptOf(jobs[f])) = n + 3
      BY <3>1, <3>2, <3>3, CopyTyped
    <3>5. Whole' = ScriptOf(jobs[f]) /\ script' = ScriptOf(jobs[f])
      BY <1>1, <2>2 DEF Whole
    <3>6. Acked' = 0 /\ Executing' = 1
      BY <1>1, <1>2, <3>4, <3>5 DEF Acked, Executing
    <3>7. Progress(f, n, 1)'
      BY <3>4 DEF Progress
    <3>8. Len(script') <= Len(Whole') /\ \A i \in 1..Len(script') : script'[i] = Whole'[0 + i]
      BY <3>4, <3>5
    <3> QED
      BY <1>1, <2>2, <3>1, <3>6, <3>7, <3>8 DEF ThisCopy, RestOfCopy
  <2>8. jobs[f].kind # "copy" => script' \in Seq(ProgType)
    BY <2>2, <2>4, ProgramTyped
  <2>9. ~rxCut' /\ file' # 0
    BY <1>1, <2>2, <2>3 DEF Copying
  <2> QED
    BY <1>1, <1>2, <2>2, <2>6, <2>7, <2>8, <2>9 DEF Copying
<1> QED
  BY <1>3, <1>4

LEMMA SendCopying ==
  ASSUME Types, Copying, Send
  PROVE  Copying'
<1>1. UNCHANGED << jobs, file, script, rxFcb, station, rxCut, line >>
  BY DEF Send, rxVars
<1>2. net' # << >>
  BY DEF Send, Types, WireTypes
<1>3. Missed'
  BY <1>2 DEF Missed, Quiet
<1> QED
  BY <1>1, <1>3, SameCopying

LEMMA LoseCopying ==
  ASSUME Types, TurnInv, early = 0, Copying, Lose
  PROVE  Copying'
<1>1. UNCHANGED << jobs, file, script, rxFcb, station, rxCut, line >>
  BY DEF Lose, hostVars, rxVars
<1>2. net = << Outgoing(Head(script)) >> /\ net # << >>
  BY DEF Lose, TurnInv, InTurn, Quiet
<1>3. lost' = Append(lost, Outgoing(Head(script))) /\ lost \in Seq(PacketIn)
  BY <1>2 DEF Lose, Types, WireTypes
<1>4. Len(lost) + 1 \in DOMAIN lost' /\ lost'[Len(lost) + 1] = Outgoing(Head(script))
  BY <1>3
<1>5. Missed'
  BY <1>1, <1>4, OutgoingParts DEF Missed
<1> QED
  BY <1>1, <1>5, SameCopying

LEMMA ExecuteCopying ==
  ASSUME Types, TurnInv, early = 0, Copying, Execute
  PROVE  Copying'
<1> DEFINE p == Outgoing(Head(script))
<1>1. UNCHANGED << jobs, file, script, waiting, rxFcb, rxCut, lost >>
  BY DEF Execute, hostVars, rxVars, history
<1>2. waiting /\ net = << p >> /\ line = << >> /\ script # << >>
  BY DEF Execute, TurnInv, Waits, InTurn, Quiet
<1>3. station' = Executed(p) /\ line' # << >>
  BY <1>2 DEF Execute
<1>4. p \in PacketIn /\ jobs \in Seq(Jobs) /\ station \in StationType /\ file \in 0..Len(jobs)
  BY <1>2 DEF Types, WireTypes, HostTypes
<1>5. file > 0
  BY <1>2, <1>4 DEF Copying
<1>6. ASSUME jobs[file].kind = "copy" PROVE ThisCopy'
  BY <1>1, <1>2, <1>3, <1>5, <1>6, ExecuteCopy DEF Copying
<1>7. p.cmd \in {"create", "write", "close"} => p.fcb.file = file
  <2>1. CASE jobs[file].kind = "copy"
    BY <1>2, <1>5, <2>1, OutgoingParts, CopyUnacked DEF Copying, Fcb
  <2>2. CASE jobs[file].kind # "copy"
    <3>1. Head(script) \in ProgType
      BY <1>2, <1>5, <2>2, HeadOf DEF Copying
    <3>2. p.cmd \in ProgCommands
      BY <3>1, OutgoingParts DEF ProgType
    <3> QED
      BY <3>2 DEF ProgCommands
  <2> QED
    BY <2>1, <2>2
<1>8. Earlier'
  <2> SUFFICES ASSUME NEW g \in 1..Len(jobs), jobs[g].kind = "copy", g < file
               PROVE  CopiedWhole(g)'
    BY <1>1 DEF Earlier
  <2>1. g \in 0..Len(jobs) /\ g # file
    BY <1>4
  <2>2. station'.disk[g] = station.disk[g] /\ station'.closed[g] = station.closed[g]
    BY <1>3, <1>4, <1>7, <2>1, OthersKept
  <2>3. CopiedWhole(g)
    BY DEF Copying, Earlier
  <2> QED
    BY <1>1, <2>2, <2>3 DEF CopiedWhole, SectorsOf, Sectors, HoldsBytes
<1>9. Missed'
  BY <1>3 DEF Missed, Quiet
<1> QED
  BY <1>1, <1>5, <1>6, <1>8, <1>9 DEF Copying

\* The answer to a packet of a copy leaves the FCB of the next one.
LEMMA AnsweredCopy ==
  ASSUME Types, file > 0, jobs[file].kind = "copy", ThisCopy, script # << >>, ~rxCut,
         Acked + 1 \in 2..(BodyLength(jobs[file].bytes) + 2)
  PROVE  Parsed(AnswerTo(Outgoing(Head(script)))) = Fcb(file, BodySector(Acked))
<1> DEFINE a == AnswerTo(Outgoing(Head(script)))
<1>0. PICK n : n = BodyLength(jobs[file].bytes)
  OBVIOUS
<1>1. /\ n \in Nat /\ Whole[2] = Packet("create", "exit")
      /\ \A k \in 1..n : Whole[k + 2] = BodyPacket(k)
  BY <1>0, WholeCopy
<1>2. Acked \in Nat /\ Head(script) = Whole[Acked + 1] /\ Acked + 1 \in 2..(n + 2)
  BY <1>0, NextOfCopy DEF ThisCopy
<1>3. CASE Acked + 1 = 2
  <2>1. Head(script).cmd = "create"
    BY <1>1, <1>2, <1>3 DEF Packet
  <2>2. Outgoing(Head(script)).cmd = "create" /\ Outgoing(Head(script)).fcb = Fcb(file, 0)
    BY <2>1, OutgoingParts
  <2>3. a = Answer("created", Fcb(file, 0))
    BY <2>2 DEF AnswerTo, Fcb
  <2>4. Acked = 1
    BY <1>2, <1>3
  <2> QED
    BY <2>3, <2>4, BodyFirst DEF Parsed, Answer
<1>4. CASE Acked + 1 \in 3..(n + 2)
  <2>1. PICK b \in 1..n : Acked = b + 1 /\ Acked - 1 = b /\ Acked + 1 = b + 2
    <3>1. Acked - 1 \in 1..n /\ Acked = (Acked - 1) + 1 /\ Acked + 1 = (Acked - 1) + 2
      BY <1>1, <1>2, <1>4
    <3> QED
      BY <3>1
  <2>2. Head(script) = BodyPacket(b) /\ b \in Nat \ {0} /\ Acked \in 2..(n + 2)
    BY <1>1, <1>2, <2>1
  <2>3. rxFcb = Fcb(file, BodySector(b))
    BY <1>0, <2>1, <2>2 DEF ThisCopy
  <2>4. /\ BodySector(b) \in Nat /\ BodyIndex(b) \in 1..PerSector
        /\ BodyPacket(b) = SectorPacket(BodySector(b), BodyIndex(b))
        /\ PerSector = SectorPackets + 1 /\ SectorPackets \in Nat
    BY <2>2, Body, BlocksOfSector DEF PerSector
  <2>5. CASE BodyIndex(b) <= SectorPackets
    <3>1. Head(script).cmd \in {"data", "data2"}
      BY <2>2, <2>4, <2>5 DEF SectorPacket, DataPacket, Carrying
    <3>2. Outgoing(Head(script)).cmd \in {"data", "data2"}
      BY <3>1, OutgoingParts
    <3>3. a = Ack
      BY <3>2 DEF AnswerTo
    <3>4. BodySector(b + 1) = BodySector(b)
      BY <2>2, <2>4, <2>5, BodyNext
    <3> QED
      BY <2>1, <2>3, <3>3, <3>4 DEF Parsed, Ack, Answer
  <2>6. CASE BodyIndex(b) = PerSector
    <3>1. Head(script).cmd = "write"
      <4>1. ~(BodyIndex(b) <= SectorPackets)
        BY <2>4, <2>6
      <4> QED
        BY <2>2, <2>4, <4>1 DEF SectorPacket, Carrying
    <3>2. Outgoing(Head(script)).cmd = "write"
          /\ Outgoing(Head(script)).fcb = Fcb(file, BodySector(b))
      BY <2>3, <3>1, OutgoingParts
    <3>3. a = Answer("written", Fcb(file, BodySector(b) + 1))
      BY <3>2 DEF AnswerTo, Fcb
    <3>4. BodySector(b + 1) = BodySector(b) + 1
      BY <2>2, <2>6, BodyNext
    <3> QED
      BY <2>1, <3>3, <3>4 DEF Parsed, Answer
  <2> QED
    BY <2>4, <2>5, <2>6
<1>5. Acked + 1 = 2 \/ Acked + 1 \in 3..(n + 2)
  BY <1>1, <1>2
<1> QED
  BY <1>3, <1>4, <1>5

LEMMA HearCopying ==
  ASSUME Types, TurnInv, early = 0, Copying, NEW j \in Nat, Hear(j)
  PROVE  Copying'
<1>1. /\ UNCHANGED << jobs, file, net, station, lost >>
      /\ waiting /\ waiting' = FALSE /\ script' = Tail(script) /\ script # << >>
      /\ j >= 1 /\ line # << >>
      /\ line' = SubSeq(line, j + 1, Len(line)) /\ rxCut' = FALSE
      /\ rxFcb' = Parsed(line[1])
  BY DEF Hear, Dropped, TurnInv, Waits
<1>2. line = << AnswerTo(Outgoing(Head(script))) >>
  BY <1>1 DEF TurnInv, InTurn, Quiet
<1>3. line' = << >>
  <2>1. PICK a : line = << a >>
    BY <1>2
  <2> QED
    BY <1>1, <2>1, OneDropped
<1>4. file > 0
  BY <1>1 DEF Copying, Types, HostTypes
<1>5. \A f, n, x : Progress(f, n, x)' <=> Progress(f, n, x)
  BY <1>1 DEF Progress, DiskBefore, BufferBefore, SectorsBefore, BlocksBefore, CopiedWhole, SectorsOf, Sectors, HoldsBytes
<1>6. ASSUME jobs[file].kind = "copy" PROVE ThisCopy'
  <2>0. PICK n : n = BodyLength(jobs[file].bytes)
    OBVIOUS
  <2>1. ThisCopy /\ ~rxCut
    BY <1>4, <1>6 DEF Copying
  <2>2. n \in Nat /\ Len(Whole) = n + 3
    BY <1>4, <1>6, <2>0, WholeCopy
  <2>3. /\ Acked \in Nat /\ Acked + 1 \in 1..(n + 3)
        /\ Len(Tail(script)) = Len(script) - 1
        /\ \A i \in 1..Len(Tail(script)) : Tail(script)[i] = Whole[Acked + 1 + i]
    BY <1>1, <1>4, <1>6, <2>0, <2>1, NextOfCopy DEF ThisCopy
  <2>4. Whole' = Whole /\ Acked' = Acked + 1 /\ Executing' = Executing
        /\ Len(script') <= Len(Whole')
    <3>1. Len(script) \in Nat /\ Len(script) <= Len(Whole)
      BY <2>1 DEF ThisCopy, RestOfCopy, Types, HostTypes
    <3>2. Whole' = Whole
      BY <1>1 DEF Whole
    <3>3. Acked' = Acked + 1 /\ Len(script') <= Len(Whole')
      <4>1. Len(script') = Len(script) - 1
        BY <1>1, <2>3
      <4>2. Len(Whole') = Len(Whole) /\ Len(Whole) \in Nat
        BY <2>2, <3>2
      <4> QED
        BY <3>1, <4>1, <4>2 DEF Acked
    <3>4. Executing' = Acked' + 1 /\ Executing = Acked + 2
      BY <1>1, <1>3 DEF Executing
    <3>5. Executing' = Executing
      BY ONLY <2>3, <3>3, <3>4
    <3> QED
      BY <3>2, <3>3, <3>5
  <2>5. \A i \in 1..Len(script') : script'[i] = Whole'[Acked' + i]
    BY <1>1, <2>3, <2>4
  <2>6. Acked' \in 2..(n + 2) => rxFcb' = Fcb(file, BodySector(Acked' - 1))
    <3> SUFFICES ASSUME Acked' \in 2..(n + 2) PROVE rxFcb' = Fcb(file, BodySector(Acked' - 1))
      OBVIOUS
    <3>1. Acked' - 1 = Acked /\ Acked + 1 \in 2..(n + 2)
      BY <2>3, <2>4
    <3>2. Parsed(AnswerTo(Outgoing(Head(script)))) = Fcb(file, BodySector(Acked))
      BY <1>1, <1>4, <1>6, <2>0, <2>1, <3>1, AnsweredCopy
    <3>3. line[1] = AnswerTo(Outgoing(Head(script)))
      BY <1>2
    <3> QED
      BY <1>1, <3>1, <3>2, <3>3
  <2>7. Progress(file, n, Executing)
    BY <2>0, <2>1 DEF ThisCopy
  <2> QED
    BY <1>1, <1>5, <2>0, <2>4, <2>5, <2>6, <2>7 DEF ThisCopy, RestOfCopy
<1>7. jobs[file].kind # "copy" => script' \in Seq(ProgType)
  BY <1>1, <1>4, HeadOf DEF Copying
<1>8. Earlier'
  BY <1>1, SameEarlier DEF Copying
<1>9. Missed'
  BY <1>1 DEF Missed
<1> QED
  BY <1>1, <1>4, <1>6, <1>7, <1>8, <1>9 DEF Copying

\* One answer fits into the buffer.
LEMMA OneFits ==
  ASSUME Types, Len(line) = 1
  PROVE  WholeBytes(0) = 0 /\ WholeBytes(1) <= RxMax /\ WholeBytes(1) \in Nat
<1> DEFINE z == Sized(line[1].cmd)
<1>1. z \in 1..RxMax /\ RxMax \in Nat
  BY PacketAssumption DEF Sized
<1>2. WholeBytes(0) = 0
  <2> DEFINE r == CHOOSE b : b = [i \in 0..0 |-> IF i = 0 THEN 0 ELSE b[i - 1] + Sized(line[i].cmd)]
             g == [i \in 0..0 |-> 0]
  <2>1. g = [i \in 0..0 |-> IF i = 0 THEN 0 ELSE g[i - 1] + Sized(line[i].cmd)]
    <3> DEFINE h == [i \in 0..0 |-> IF i = 0 THEN 0 ELSE g[i - 1] + Sized(line[i].cmd)]
    <3>1. \A i \in 0..0 : h[i] = g[i]
      OBVIOUS
    <3> QED
      BY <3>1
  <2>2. r = [i \in 0..0 |-> IF i = 0 THEN 0 ELSE r[i - 1] + Sized(line[i].cmd)]
    <3> HIDE DEF g
    <3> QED
      BY <2>1, Zenon
  <2>3. WholeBytes(0) = r[0]
    BY DEF WholeBytes
  <2> HIDE DEF r
  <2> QED
    BY <1>1, <2>2, <2>3
<1>3. WholeBytes(1) = z
  <2> DEFINE r == CHOOSE b : b = [i \in 0..1 |-> IF i = 0 THEN 0 ELSE b[i - 1] + Sized(line[i].cmd)]
             g == [i \in 0..1 |-> IF i = 0 THEN 0 ELSE z]
  <2>1. g = [i \in 0..1 |-> IF i = 0 THEN 0 ELSE g[i - 1] + Sized(line[i].cmd)]
    <3> DEFINE h == [i \in 0..1 |-> IF i = 0 THEN 0 ELSE g[i - 1] + Sized(line[i].cmd)]
    <3>1. \A i \in 0..1 : h[i] = g[i]
      BY <1>1
    <3> QED
      BY <3>1
  <2>2. r = [i \in 0..1 |-> IF i = 0 THEN 0 ELSE r[i - 1] + Sized(line[i].cmd)]
    <3> HIDE DEF g
    <3> QED
      BY <2>1, Zenon
  <2>3. WholeBytes(1) = r[1]
    BY DEF WholeBytes
  <2> HIDE DEF r
  <2> QED
    BY <1>1, <2>2, <2>3
<1> QED
  BY <1>1, <1>2, <1>3

LEMMA NoOverrun ==
  ASSUME Types, TurnInv, early = 0, NEW j \in Nat, NEW part \in BOOLEAN, Overrun(j, part)
  PROVE  FALSE
<1>1. PICK n \in 1..Len(line) : IF part THEN WholeBytes(n) > RxMax + 1 ELSE WholeBytes(n) > RxMax
  BY DEF Overrun
<1>2. line # << >> /\ waiting
  BY DEF Overrun
<1>3. Len(line) = 1
  BY <1>2 DEF TurnInv, InTurn, Quiet
<1>4. n = 1
  BY <1>3
<1>5. RxMax \in Nat
  BY PacketAssumption
<1> QED
  BY <1>1, <1>3, <1>4, <1>5, OneFits

LEMMA GiveUpCopying ==
  ASSUME Types, TurnInv, InTime, InTime', Copying, GiveUp
  PROVE  Copying'
<1>1. /\ UNCHANGED << jobs, file, rxFcb, net, station, lost >>
      /\ waiting /\ waiting' = FALSE /\ script # << >>
      /\ Unacknowledged(Head(script)) /\ Dropped(rxWhole, rxPart)
  BY DEF GiveUp, Unacknowledged, TurnInv, Waits
<1>2. Quiet
  <2>1. early = 0 /\ early' = 0
    BY DEF InTime
  <2>2. ~Quiet => early' = early + 1
    BY DEF GiveUp
  <2> QED
    BY <2>1, <2>2
<1>3. net = << >> /\ line = << >> /\ rxWhole = 0 /\ rxPart = FALSE
  BY <1>2 DEF Quiet, Types, BufferTypes
<1>4. line' = << >> /\ rxCut' = rxCut
  BY <1>1, <1>3 DEF Dropped
<1>5. Head(script).cmd \notin {"data", "data2"}
  <2>1. PICK i \in DOMAIN lost : lost[i].cmd = Head(script).cmd
    BY <1>1, <1>2 DEF Copying, Missed
  <2> QED
    BY <2>1 DEF InTime, Lost
<1>6. Missed'
  BY <1>1 DEF Missed
<1>7. file > 0
  BY <1>1 DEF Copying, Types, HostTypes
<1>8. Head(script).unacked \in {"again", "on", "leave", "exit"}
  BY <1>1, HeadOf DEF Types, HostTypes, SendType
<1>9. CASE Head(script).unacked \in {"again", "exit"}
  <2>1. script' = script
    BY <1>1, <1>9 DEF Unacknowledged
  <2> QED
    BY <1>1, <1>3, <1>4, <1>6, <2>1, SameCopying
<1>10. CASE Head(script).unacked \in {"on", "leave"}
  <2>1. jobs[file].kind # "copy"
    BY <1>1, <1>5, <1>7, <1>10, CopyUnacked DEF Copying
  <2>2. script' \in {Tail(script), << >>}
    BY <1>1, <1>10 DEF Unacknowledged
  <2>3. script' \in Seq(ProgType)
    <3>1. Tail(script) \in Seq(ProgType) /\ << >> \in Seq(ProgType)
      BY <1>1, <1>7, <2>1, HeadOf DEF Copying
    <3> QED
      BY <2>2, <3>1
  <2>4. Earlier'
    BY <1>1, SameEarlier DEF Copying
  <2>5. ~rxCut'
    BY <1>4 DEF Copying
  <2> QED
    BY <1>1, <1>6, <1>7, <2>1, <2>3, <2>4, <2>5 DEF Copying
<1> QED
  BY <1>8, <1>9, <1>10

LEMMA CopyStep ==
  ASSUME Types, TurnInv, CopyInv, [Next]_vars
  PROVE  CopyInv'
<1> SUFFICES ASSUME InTime' PROVE Copying'
  BY DEF CopyInv
<1>1. ASSUME UNCHANGED << early, lost >> PROVE InTime /\ Copying /\ early = 0
  BY <1>1 DEF InTime, Lost, CopyInv
<1>2. CASE Execute
  BY <1>1, <1>2, ExecuteCopying DEF Execute, history
<1>3. CASE Lose
  <2>1. early' = early /\ lost' = Append(lost, Head(net)) /\ lost \in Seq(PacketIn)
    BY <1>3 DEF Lose, Types, WireTypes
  <2>2. \A i \in DOMAIN lost : i \in DOMAIN lost' /\ lost'[i] = lost[i]
    BY <2>1
  <2>3. InTime
    BY <2>1, <2>2 DEF InTime, Lost
  <2> QED
    BY <1>3, <2>3, LoseCopying DEF CopyInv, InTime
<1>4. CASE NextFile
  BY <1>1, <1>4, NextFileCopying DEF NextFile, history
<1>5. CASE Send
  BY <1>1, <1>5, SendCopying DEF Send, history
<1>6. CASE HostHears
  <2>1. PICK j \in 0..Len(line) : Hear(j) \/ Overrun(j, TRUE) \/ Overrun(j, FALSE)
    BY <1>6 DEF HostHears
  <2>2. j \in Nat
    BY <2>1
  <2>3. CASE Hear(j)
    BY <1>1, <2>2, <2>3, HearCopying DEF Hear
  <2>4. CASE Overrun(j, TRUE)
    BY <1>1, <2>2, <2>4, NoOverrun DEF Overrun
  <2>5. CASE Overrun(j, FALSE)
    BY <1>1, <2>2, <2>5, NoOverrun DEF Overrun
  <2> QED
    BY <2>1, <2>3, <2>4, <2>5
<1>7. CASE GiveUp
  <2>1. lost' = lost /\ early \in Nat /\ early' = 0 /\ (early' = early \/ early' = early + 1)
    BY <1>7 DEF GiveUp, TurnInv, Waits, InTime
  <2>2. InTime
    BY <2>1 DEF InTime, Lost
  <2> QED
    BY <1>7, <2>2, GiveUpCopying DEF CopyInv
<1>8. ASSUME UNCHANGED << jobs, file, script, rxFcb, station, rxCut, line, waiting, net >>,
             UNCHANGED << early, lost >>
      PROVE  Copying'
  <2>1. Missed'
    BY <1>1, <1>8 DEF Copying, Missed, Quiet
  <2> QED
    BY <1>1, <1>8, <2>1, SameCopying
<1>9. ASSUME NEW j \in 0..Len(line), HearPart(j) PROVE Copying'
  BY <1>8, <1>9 DEF HearPart, hostVars, history
<1>10. CASE UNCHANGED vars
  BY <1>8, <1>10 DEF vars, hostVars, rxVars, history
<1> QED
  BY <1>2, <1>3, <1>4, <1>5, <1>6, <1>7, <1>9, <1>10 DEF Next

LEMMA CopyStart == Init => CopyInv
<1> SUFFICES ASSUME Init PROVE Copying
  BY DEF CopyInv
<1>1. file = 0 /\ script = << >> /\ waiting = FALSE /\ rxCut = FALSE
  BY DEF Init
<1>2. Earlier
  BY <1>1 DEF Earlier
<1> QED
  BY <1>1, <1>2 DEF Copying, Missed

\* Whatever is lost but data blocks, and wherever the reads end, a copy that the
\* host goes on from is on the workstation with all its whole sectors, each with
\* all its bytes, and closed behind the last one: for all files and all sizes of
\* blocks and sectors.
THEOREM CopiesWhole == Spec => []CopiesRight
<1>1. Init => Types /\ TurnInv /\ CopyInv
  BY TypesInit, TurnInit, CopyStart
<1>2. Types /\ TurnInv /\ CopyInv /\ [Next]_vars => (Types /\ TurnInv /\ CopyInv)'
  BY TypesStep, TurnStep, CopyStep
<1>3. Types /\ TurnInv /\ CopyInv => CopiesRight
  <2> SUFFICES ASSUME Types, TurnInv, CopyInv, InTime,
                      NEW f \in 1..Len(jobs), Finished(f)
               PROVE  CopiedWhole(f)
    BY DEF CopiesRight, CopiedWhole, Sectors, InTime
  <2>1. Copying /\ early = 0 /\ jobs[f].kind = "copy"
    BY DEF CopyInv, InTime, Finished
  <2>2. CASE f < file
    BY <2>1, <2>2 DEF Copying, Earlier
  <2>3. CASE f = file /\ script = << >>
    BY <2>1, <2>3, CopyDone
  <2> QED
    BY <2>2, <2>3 DEF Finished
<1> QED
  BY <1>1, <1>2, <1>3, PTL DEF Spec

-----------------------------------------------------------------------------
(* Programs.                                                               *)

\* What the workstation has of a program, and what a packet makes of it.
Loaders == [image : Nat, loaded : Nat, complete : BOOLEAN]
LoaderOf ==
  [image |-> station.image, loaded |-> station.loaded, complete |-> station.complete]
Load(Q, p) ==
  IF p.cmd = "header" THEN [image |-> p.n, loaded |-> 0, complete |-> FALSE]
  ELSE IF p.cmd = "block"
    THEN [image |-> Q.image,
          loaded |-> IF p.at = Q.loaded THEN Q.loaded + p.n ELSE Q.loaded,
          complete |-> p.last]
    ELSE Q

\* Nothing is started, or all of it.
Safe(Q, p) ==
  p.cmd \in {"command", "poke"} => Q.image = 0 \/ (Q.complete /\ Q.loaded = Q.image)

\* Packets s executed from Q, the loader going through g to R, each of them safe.
Trace(g, Q, s, R) ==
  /\ g \in [0..Len(s) -> Loaders] /\ g[0] = Q /\ g[Len(s)] = R
  /\ \A i \in 1..Len(s) : g[i] = Load(g[i - 1], s[i]) /\ Safe(g[i - 1], s[i])
Runs(Q, s, R) == \E g : Trace(g, Q, s, R)
Good(Q, s) == \E R \in Loaders : Runs(Q, s, R)

LEMMA LoadTyped ==
  ASSUME NEW Q \in Loaders, NEW p, p.at \in Nat, p.n \in Nat, p.last \in BOOLEAN
  PROVE  Load(Q, p) \in Loaders
<1>1. CASE p.cmd = "header"
  BY <1>1 DEF Load, Loaders
<1>2. CASE p.cmd = "block"
  <2> DEFINE l == IF p.at = Q.loaded THEN Q.loaded + p.n ELSE Q.loaded
  <2>1. l \in Nat /\ Q.image \in Nat
    BY DEF Loaders
  <2>2. Load(Q, p) = [image |-> Q.image, loaded |-> l, complete |-> p.last]
    BY <1>2 DEF Load
  <2> HIDE DEF l
  <2> QED
    BY <2>1, <2>2 DEF Loaders
<1>3. CASE p.cmd \notin {"header", "block"}
  BY <1>3 DEF Load
<1> QED
  BY <1>1, <1>2, <1>3

LEMMA RunsNone ==
  ASSUME NEW Q \in Loaders
  PROVE  Runs(Q, << >>, Q) /\ Good(Q, << >>) /\ \A R : Runs(Q, << >>, R) => R = Q
<1>1. Trace([i \in 0..0 |-> Q], Q, << >>, Q)
  BY DEF Trace
<1>2. \A R : Runs(Q, << >>, R) => R = Q
  BY DEF Runs, Trace
<1> QED
  BY <1>1, <1>2 DEF Runs, Good

LEMMA RunsHead ==
  ASSUME NEW T, NEW s \in Seq(T), s # << >>, NEW Q, NEW R, Runs(Q, s, R)
  PROVE  /\ Safe(Q, Head(s)) /\ Load(Q, Head(s)) \in Loaders
         /\ Runs(Load(Q, Head(s)), Tail(s), R)
<1>1. PICK g : Trace(g, Q, s, R)
  BY DEF Runs
<1> DEFINE n == Len(s)
           t == Tail(s)
           h == [i \in 0..(n - 1) |-> g[i + 1]]
<1>2. n \in Nat \ {0} /\ Head(s) = s[1] /\ Len(t) = n - 1
      /\ \A i \in 1..(n - 1) : t[i] = s[i + 1]
  OBVIOUS
<1>3. /\ g \in [0..n -> Loaders] /\ g[0] = Q /\ g[n] = R
      /\ \A i \in 1..n : g[i] = Load(g[i - 1], s[i]) /\ Safe(g[i - 1], s[i])
  BY <1>1 DEF Trace
<1> HIDE DEF n, t
<1>4. g[1] = Load(Q, Head(s)) /\ Safe(Q, Head(s)) /\ g[1] \in Loaders
  <2>1. 1 \in 1..n /\ 1 - 1 = 0 /\ 1 \in 0..n
    BY <1>2
  <2>2. g[1] = Load(g[1 - 1], s[1]) /\ Safe(g[1 - 1], s[1]) /\ g[1] \in Loaders
    BY <1>3, <2>1
  <2> QED
    BY <1>2, <1>3, <2>1, <2>2
<1>5. h \in [0..(n - 1) -> Loaders] /\ h[0] = g[1] /\ h[n - 1] = R
  <2>1. \A i \in 0..(n - 1) : i + 1 \in 0..n
    BY <1>2
  <2>2. 0 \in 0..(n - 1) /\ n - 1 \in 0..(n - 1) /\ (n - 1) + 1 = n /\ 0 + 1 = 1
    BY <1>2
  <2>3. h[0] = g[0 + 1] /\ h[n - 1] = g[(n - 1) + 1]
    BY <2>2
  <2> QED
    BY <1>3, <2>1, <2>2, <2>3
<1>6. ASSUME NEW i \in 1..(n - 1)
      PROVE h[i] = Load(h[i - 1], t[i]) /\ Safe(h[i - 1], t[i])
  <2>1. i + 1 \in 1..n /\ (i + 1) - 1 = i /\ (i - 1) + 1 = i
        /\ i \in 0..(n - 1) /\ i - 1 \in 0..(n - 1)
    BY <1>2
  <2>2. g[i + 1] = Load(g[i], s[i + 1]) /\ Safe(g[i], s[i + 1])
    BY <1>3, <2>1
  <2>3. h[i] = g[i + 1] /\ h[i - 1] = g[(i - 1) + 1]
    BY <2>1
  <2>4. h[i - 1] = g[i]
    BY <2>1, <2>3
  <2> QED
    BY <1>2, <2>2, <2>3, <2>4
<1> HIDE DEF h
<1>7. Trace(h, g[1], t, R)
  BY <1>2, <1>5, <1>6 DEF Trace
<1> QED
  BY <1>4, <1>7 DEF Runs, t

\* The same the other way round.
LEMMA RunsFirst ==
  ASSUME NEW T, NEW s \in Seq(T), s # << >>, NEW Q \in Loaders, NEW R,
         Safe(Q, Head(s)), Runs(Load(Q, Head(s)), Tail(s), R)
  PROVE  Runs(Q, s, R)
<1>1. PICK g : Trace(g, Load(Q, Head(s)), Tail(s), R)
  BY DEF Runs
<1> DEFINE n == Len(s)
           t == Tail(s)
           h == [i \in 0..n |-> IF i = 0 THEN Q ELSE g[i - 1]]
<1>2. n \in Nat \ {0} /\ Head(s) = s[1] /\ Len(t) = n - 1
      /\ \A i \in 1..(n - 1) : t[i] = s[i + 1]
  OBVIOUS
<1>3. /\ g \in [0..(n - 1) -> Loaders] /\ g[0] = Load(Q, s[1]) /\ g[n - 1] = R
      /\ \A i \in 1..(n - 1) : g[i] = Load(g[i - 1], t[i]) /\ Safe(g[i - 1], t[i])
  BY <1>1, <1>2 DEF Trace
<1>4. Safe(Q, s[1])
  BY <1>2
<1> HIDE DEF n, t
<1>5. h \in [0..n -> Loaders] /\ h[0] = Q /\ h[n] = R
  <2>1. \A i \in 0..n : i # 0 => i - 1 \in 0..(n - 1)
    BY <1>2
  <2>2. 0 \in 0..n /\ n \in 0..n /\ n # 0
    BY <1>2
  <2> QED
    BY <1>3, <2>1, <2>2
<1>6. ASSUME NEW i \in 1..n
      PROVE h[i] = Load(h[i - 1], s[i]) /\ Safe(h[i - 1], s[i])
  <2>1. i \in 0..n /\ i - 1 \in 0..n /\ i # 0
    BY <1>2
  <2>2. h[i] = g[i - 1]
    BY <2>1
  <2>3. CASE i = 1
    <3>1. i - 1 = 0 /\ h[i - 1] = Q
      BY <2>1, <2>3
    <3> QED
      BY <1>3, <1>4, <2>2, <2>3, <3>1
  <2>4. CASE i # 1
    <3>1. i - 1 \in 1..(n - 1) /\ (i - 1) + 1 = i /\ i - 1 # 0
      BY <1>2, <2>4
    <3>2. g[i - 1] = Load(g[(i - 1) - 1], t[i - 1]) /\ Safe(g[(i - 1) - 1], t[i - 1])
      BY <1>3, <3>1
    <3>3. t[i - 1] = s[i]
      BY <1>2, <3>1
    <3>4. h[i - 1] = g[(i - 1) - 1]
      BY <2>1, <3>1
    <3> QED
      BY <2>2, <3>2, <3>3, <3>4
  <2> QED
    BY <2>3, <2>4
<1> HIDE DEF h
<1>7. Trace(h, Q, s, R)
  BY <1>5, <1>6 DEF Trace, n
<1> QED
  BY <1>7 DEF Runs

LEMMA RunsConcat ==
  ASSUME NEW T, NEW s \in Seq(T), NEW t \in Seq(T), NEW P, NEW Q, NEW R,
         Runs(P, s, Q), Runs(Q, t, R)
  PROVE  Runs(P, s \o t, R)
<1>1. PICK g : Trace(g, P, s, Q)
  BY DEF Runs
<1>2. PICK k : Trace(k, Q, t, R)
  BY DEF Runs
<1> DEFINE m == Len(s)
           n == Len(t)
           u == s \o t
           h == [i \in 0..(m + n) |-> IF i <= m THEN g[i] ELSE k[i - m]]
<1>3. m \in Nat /\ n \in Nat /\ Len(u) = m + n
      /\ \A i \in 1..(m + n) : u[i] = IF i <= m THEN s[i] ELSE t[i - m]
  BY ConcatProperties
<1>4. /\ g \in [0..m -> Loaders] /\ g[0] = P /\ g[m] = Q
      /\ \A i \in 1..m : g[i] = Load(g[i - 1], s[i]) /\ Safe(g[i - 1], s[i])
  BY <1>1 DEF Trace
<1>5. /\ k \in [0..n -> Loaders] /\ k[0] = Q /\ k[n] = R
      /\ \A i \in 1..n : k[i] = Load(k[i - 1], t[i]) /\ Safe(k[i - 1], t[i])
  BY <1>2 DEF Trace
<1> HIDE DEF m, n, u
<1>6. h \in [0..(m + n) -> Loaders] /\ h[0] = P /\ h[m + n] = R
  <2>1. \A i \in 0..(m + n) : (i <= m => i \in 0..m) /\ (~(i <= m) => i - m \in 0..n)
    BY <1>3
  <2>2. h \in [0..(m + n) -> Loaders]
    BY <1>4, <1>5, <2>1
  <2>3. 0 \in 0..(m + n) /\ 0 <= m /\ m + n \in 0..(m + n)
    BY <1>3
  <2>4. h[m + n] = R
    <3>1. CASE n = 0
      <4>1. m + n = m /\ m + n <= m
        BY <1>3, <3>1
      <4> QED
        BY <1>4, <1>5, <2>3, <3>1, <4>1
    <3>2. CASE n # 0
      <4>1. ~(m + n <= m) /\ (m + n) - m = n
        BY <1>3, <3>2
      <4> QED
        BY <1>5, <2>3, <4>1
    <3> QED
      BY <3>1, <3>2
  <2> QED
    BY <1>4, <2>2, <2>3, <2>4
<1>7. ASSUME NEW i \in 1..(m + n)
      PROVE h[i] = Load(h[i - 1], u[i]) /\ Safe(h[i - 1], u[i])
  <2>1. i \in 0..(m + n) /\ i - 1 \in 0..(m + n)
    BY <1>3
  <2>2. CASE i <= m
    <3>1. i \in 1..m /\ i - 1 <= m
      BY <1>3, <2>2
    <3>2. h[i] = g[i] /\ h[i - 1] = g[i - 1] /\ u[i] = s[i]
      BY <1>3, <2>1, <2>2, <3>1
    <3> QED
      BY <1>4, <3>1, <3>2
  <2>3. CASE ~(i <= m)
    <3>1. i - m \in 1..n
      BY <1>3, <2>3
    <3>2. h[i] = k[i - m] /\ u[i] = t[i - m]
      BY <1>3, <2>1, <2>3
    <3>3. h[i - 1] = k[(i - m) - 1]
      <4>1. CASE i = m + 1
        <5>1. i - 1 = m /\ i - 1 <= m /\ (i - m) - 1 = 0
          BY <1>3, <4>1
        <5> QED
          BY <1>4, <1>5, <2>1, <5>1
      <4>2. CASE i # m + 1
        <5>1. ~(i - 1 <= m) /\ (i - 1) - m = (i - m) - 1
          BY <1>3, <2>3, <4>2
        <5> QED
          BY <2>1, <5>1
      <4> QED
        BY <4>1, <4>2
    <3> QED
      BY <1>5, <3>1, <3>2, <3>3
  <2> QED
    BY <2>2, <2>3
<1> HIDE DEF h
<1>8. Trace(h, P, u, R)
  BY <1>3, <1>6, <1>7 DEF Trace
<1> QED
  BY <1>8 DEF Runs, u

LEMMA RunsOne ==
  ASSUME NEW p, NEW Q \in Loaders, Safe(Q, p), Load(Q, p) \in Loaders
  PROVE  Runs(Q, << p >>, Load(Q, p))
<1>1. << p >> \in Seq({p}) /\ << p >> # << >> /\ Head(<< p >>) = p /\ Tail(<< p >>) = << >>
  OBVIOUS
<1>2. Runs(Load(Q, p), << >>, Load(Q, p))
  BY RunsNone
<1> QED
  BY <1>1, <1>2, RunsFirst

LEMMA RunsAppend ==
  ASSUME NEW T, NEW s \in Seq(T), NEW p \in T, NEW Q, NEW R \in Loaders,
         Runs(Q, s, R), Safe(R, p), Load(R, p) \in Loaders
  PROVE  Runs(Q, Append(s, p), Load(R, p))
<1>1. Runs(R, << p >>, Load(R, p))
  BY RunsOne
<1>2. << p >> \in Seq(T) /\ Append(s, p) = s \o << p >>
  OBVIOUS
<1> QED
  BY <1>1, <1>2, RunsConcat

\* The blocks of a program, and a program with its header, leave all of it.
Announced(n) == [image |-> n, loaded |-> 0, complete |-> FALSE]
Loaded(n) == [image |-> n, loaded |-> n, complete |-> TRUE]

LEMMA ImageRuns ==
  ASSUME NEW n \in Nat \ {0}
  PROVE  Runs(Announced(n), ImageBlocks(n), Loaded(n))
<1>1. PICK full : full = FullBlocks(n)
  OBVIOUS
<1> DEFINE M == [i \in Nat |-> i * BlockMax]
           s == ImageBlocks(n)
           g == [i \in 0..(full + 1) |->
                   IF i <= full THEN [image |-> n, loaded |-> M[i], complete |-> FALSE]
                   ELSE Loaded(n)]
<1>2. full \in Nat /\ M[full] < n /\ Len(s) = full + 1
      /\ \A i \in 1..(full + 1) : s[i] = ImageBlock(n, i)
  BY <1>1, ImageTyped
<1>3. BlockMax \in Nat
  BY ScriptAssumption
<1>4. M[0] = 0 /\ \A i \in Nat : M[i] \in Nat /\ M[i + 1] = M[i] + BlockMax
  <2>1. 0 * BlockMax = 0 /\ \A i \in Nat : M[i] = i * BlockMax
    BY <1>3
  <2>2. M[0] = 0
    BY <2>1
  <2>3. ASSUME NEW i \in Nat PROVE M[i] \in Nat /\ M[i + 1] = M[i] + BlockMax
    <3>1. i * BlockMax \in Nat /\ (i + 1) * BlockMax = i * BlockMax + BlockMax
      BY <1>3, Products
    <3>2. i + 1 \in Nat
      OBVIOUS
    <3> QED
      BY <2>1, <3>1, <3>2
  <2> QED
    BY <2>2, <2>3
<1>5. ASSUME NEW i \in 1..full
      PROVE  /\ s[i].cmd = "block" /\ s[i].at = M[i - 1] /\ s[i].n = BlockMax
             /\ s[i].last = FALSE
  <2>1. i \in 1..(full + 1) /\ i <= full /\ i - 1 \in Nat
    BY <1>2
  <2>2. s[i] = FullBlock(i)
    BY <1>1, <1>2, <2>1 DEF ImageBlock
  <2> QED
    BY <2>1, <2>2 DEF FullBlock, Carrying
<1>6. /\ s[full + 1].cmd = "block" /\ s[full + 1].at = M[full] /\ s[full + 1].n = n - M[full]
      /\ s[full + 1].last = TRUE
  <2>1. full + 1 \in 1..(full + 1) /\ ~(full + 1 <= full)
    BY <1>2
  <2>2. s[full + 1] = Carrying("block", "on", full * BlockMax, n - full * BlockMax, TRUE)
    BY <1>1, <1>2, <2>1 DEF ImageBlock
  <2> QED
    BY <1>2, <2>2 DEF Carrying
<1> HIDE DEF M, s
<1>7. g \in [0..(full + 1) -> Loaders] /\ g[0] = Announced(n) /\ g[full + 1] = Loaded(n)
  <2>1. \A i \in Nat : [image |-> n, loaded |-> M[i], complete |-> FALSE] \in Loaders
    BY <1>4 DEF Loaders
  <2>2. Loaded(n) \in Loaders
    BY DEF Loaders, Loaded
  <2>3. 0 \in 0..(full + 1) /\ 0 <= full /\ full + 1 \in 0..(full + 1) /\ ~(full + 1 <= full)
    BY <1>2
  <2>4. g \in [0..(full + 1) -> Loaders]
    BY <1>2, <2>1, <2>2
  <2> QED
    BY <1>4, <2>3, <2>4 DEF Announced
<1>8. ASSUME NEW i \in 1..(full + 1)
      PROVE  g[i] = Load(g[i - 1], s[i]) /\ Safe(g[i - 1], s[i])
  <2>1. i \in 0..(full + 1) /\ i - 1 \in 0..(full + 1) /\ i - 1 <= full /\ i - 1 \in Nat
    BY <1>2
  <2>2. g[i - 1] = [image |-> n, loaded |-> M[i - 1], complete |-> FALSE]
    BY <2>1
  <2>3. CASE i <= full
    <3>1. i \in 1..full /\ (i - 1) + 1 = i
      BY <1>2, <2>3
    <3>2. g[i] = [image |-> n, loaded |-> M[i], complete |-> FALSE]
      BY <2>1, <2>3
    <3>3. M[i] = M[i - 1] + BlockMax
      BY <1>4, <2>1, <3>1
    <3>4. /\ s[i].cmd = "block" /\ s[i].at = M[i - 1] /\ s[i].n = BlockMax
          /\ s[i].last = FALSE
      BY <1>5, <3>1
    <3> HIDE DEF g
    <3>5. g[i - 1].image = n /\ g[i - 1].loaded = M[i - 1]
      BY <2>2
    <3>6. Load(g[i - 1], s[i]) =
            [image |-> n, loaded |-> M[i - 1] + BlockMax, complete |-> FALSE]
      BY <3>4, <3>5 DEF Load
    <3>7. Safe(g[i - 1], s[i])
      BY <3>4 DEF Safe
    <3> QED
      BY <3>2, <3>3, <3>6, <3>7
  <2>4. CASE ~(i <= full)
    <3>1. i = full + 1 /\ i - 1 = full
      BY <1>2, <2>4
    <3>2. g[i] = Loaded(n)
      BY <2>1, <2>4
    <3>3. M[full] + (n - M[full]) = n
      <4>1. PICK b \in Nat : b = M[full]
        BY <1>2, <1>4
      <4>2. b + (n - b) = n
        OBVIOUS
      <4> QED
        BY <4>1, <4>2
    <3> HIDE DEF g
    <3>4. g[i - 1].image = n /\ g[i - 1].loaded = M[full]
      BY <2>2, <3>1
    <3>5. /\ s[i].cmd = "block" /\ s[i].at = M[full] /\ s[i].n = n - M[full]
          /\ s[i].last = TRUE
      BY <1>6, <3>1
    <3>6. Load(g[i - 1], s[i]) =
            [image |-> n, loaded |-> M[full] + (n - M[full]), complete |-> TRUE]
      BY <3>4, <3>5 DEF Load
    <3>7. Safe(g[i - 1], s[i])
      BY <3>5 DEF Safe
    <3> QED
      BY <3>2, <3>3, <3>6, <3>7 DEF Loaded
  <2> QED
    BY <2>3, <2>4
<1> HIDE DEF g
<1>9. Trace(g, Announced(n), s, Loaded(n))
  BY <1>2, <1>7, <1>8 DEF Trace
<1> QED
  BY <1>9 DEF Runs, s

\* A packet that loads nothing.
LEMMA RunsIdle ==
  ASSUME NEW p, NEW Q \in Loaders, p.cmd \notin {"header", "block"}, Safe(Q, p)
  PROVE  Runs(Q, << p >>, Q)
<1>1. Load(Q, p) = Q
  BY DEF Load
<1> QED
  BY <1>1, RunsOne

LEMMA RunsTwo ==
  ASSUME NEW p, NEW q, NEW P, NEW Q, NEW R, Runs(P, << p >>, Q), Runs(Q, << q >>, R)
  PROVE  Runs(P, << p, q >>, R)
<1>1. << p >> \in Seq({p, q}) /\ << q >> \in Seq({p, q})
  OBVIOUS
<1>2. << p, q >> = << p >> \o << q >>
  <2> DEFINE a == << p, q >>
             b == << p >> \o << q >>
  <2>1. a \in Seq({p, q}) /\ Len(a) = 2 /\ a[1] = p /\ a[2] = q
    OBVIOUS
  <2>2. Len(<< p >>) = 1 /\ Len(<< q >>) = 1 /\ << p >>[1] = p /\ << q >>[1] = q
    OBVIOUS
  <2>3. b \in Seq({p, q}) /\ Len(b) = 2 /\ b[1] = p /\ b[2] = q
    BY <1>1, <2>2, ConcatProperties
  <2> HIDE DEF a, b
  <2>4. \A i \in 1..Len(a) : a[i] = b[i]
    BY <2>1, <2>3
  <2>5. a = b
    BY <2>1, <2>3, <2>4, SeqEqual
  <2> QED
    BY <2>5 DEF a, b
<1> QED
  BY <1>1, <1>2, RunsConcat

LEMMA LoadRuns ==
  ASSUME NEW n \in Nat \ {0}, NEW Q \in Loaders
  PROVE  Runs(Q, LoadScript(n), Loaded(n)) /\ LoadScript(n) \in Seq(ProgType)
         /\ Loaded(n) \in Loaders
<1> DEFINE h == Carrying("header", "leave", 0, n, TRUE)
<1>1. Runs(Q, << Ping >>, Q)
  BY RunsIdle DEF Ping, Packet, Safe
<1>2. Runs(Q, << h >>, Announced(n))
  <2>1. Load(Q, h) = Announced(n) /\ Safe(Q, h)
    BY DEF Load, Safe, Carrying, Announced
  <2>2. Announced(n) \in Loaders
    BY DEF Announced, Loaders
  <2> HIDE DEF h
  <2>3. Runs(Q, << h >>, Load(Q, h))
    BY <2>1, <2>2, RunsOne
  <2> QED
    BY <2>1, <2>3
<1>3. Ping \in ProgType /\ h \in ProgType
  BY ProgTyped DEF Ping, ProgCommands, GoesOn
<1>4. LoadScript(n) = << Ping, h >> \o ImageBlocks(n)
  BY DEF LoadScript
<1> HIDE DEF h
<1>5. Runs(Q, << Ping, h >>, Announced(n)) /\ << Ping, h >> \in Seq(ProgType)
  BY <1>1, <1>2, <1>3, RunsTwo
<1>6. ImageBlocks(n) \in Seq(ProgType)
  BY ImageTyped
<1>7. Runs(Q, << Ping, h >> \o ImageBlocks(n), Loaded(n))
      /\ << Ping, h >> \o ImageBlocks(n) \in Seq(ProgType)
  BY <1>5, <1>6, ImageRuns, RunsConcat, ConcatProperties
<1>8. Loaded(n) \in Loaders
  BY DEF Loaded, Loaders
<1> QED
  BY <1>4, <1>7, <1>8

LEMMA ProgramRuns ==
  ASSUME NEW n \in Nat \ {0}, NEW Q \in Loaders
  PROVE  Runs(Q, ProgramScript(n), Loaded(n)) /\ ProgramScript(n) \in Seq(ProgType)
<1> DEFINE c == Packet("command", "on")
<1>1. Loaded(n) \in Loaders
  BY LoadRuns
<1>2. Runs(Loaded(n), << Ping >>, Loaded(n)) /\ Runs(Loaded(n), << c >>, Loaded(n))
  BY <1>1, RunsIdle DEF Ping, Packet, Safe, Loaded
<1>3. Ping \in ProgType /\ c \in ProgType
  BY ProgTyped DEF Ping, ProgCommands, GoesOn
<1>4. RunScript = << Ping, c >>
  BY DEF RunScript
<1> HIDE DEF c
<1>5. Runs(Loaded(n), RunScript, Loaded(n)) /\ RunScript \in Seq(ProgType)
  BY <1>2, <1>3, <1>4, RunsTwo
<1> QED
  BY <1>5, LoadRuns, RunsConcat, ConcatProperties DEF ProgramScript

\* Whatever is there when the script of a file begins, it starts nothing in part; the
\* bootstrap finds nothing there.
LEMMA ScriptGood ==
  ASSUME NEW job \in Jobs, NEW Q \in Loaders, job.kind = "boot" => Q.image = 0
  PROVE  Good(Q, ScriptOf(job))
<1> DEFINE n == job.bytes
<1>1. CASE job.kind = "copy"
  <2> DEFINE s == CopyScript(n)
             m == BodyLength(n)
             g == [i \in 0..Len(s) |-> Q]
  <2>1. n \in Nat /\ ScriptOf(job) = s
    BY <1>1 DEF Jobs, ScriptOf
  <2>2. m \in Nat /\ Len(s) = m + 3
        /\ s[1] = Ping /\ s[2] = Packet("create", "exit") /\ s[m + 3] = Packet("close", "exit")
        /\ \A k \in 1..m : s[k + 2] = BodyPacket(k)
    BY <2>1, CopyTyped
  <2> HIDE DEF s, m
  <2>3. ASSUME NEW i \in 1..Len(s)
        PROVE  s[i].cmd \in {"ping", "create", "data", "data2", "write", "close"}
    <3>1. CASE i \in {1, 2, m + 3}
      BY <2>2, <3>1 DEF Ping, Packet
    <3>2. CASE i \notin {1, 2, m + 3}
      <4>1. i - 2 \in 1..m /\ (i - 2) + 2 = i /\ i - 2 \in Nat \ {0}
        BY <2>2, <3>2
      <4>2. s[i] = SectorPacket(BodySector(i - 2), BodyIndex(i - 2))
        <5>1. s[i] = BodyPacket(i - 2)
          BY <2>2, <4>1
        <5>2. \A k \in Nat \ {0} : BodyPacket(k) = SectorPacket(BodySector(k), BodyIndex(k))
          BY Body
        <5> QED
          BY <4>1, <5>1, <5>2
      <4> QED
        BY <4>2 DEF SectorPacket, DataPacket, Carrying
    <3> QED
      BY <3>1, <3>2
  <2>4. \A i \in 1..Len(s) : g[i] = Load(g[i - 1], s[i]) /\ Safe(g[i - 1], s[i])
    <3> TAKE i \in 1..Len(s)
    <3>1. g[i] = Q /\ g[i - 1] = Q
      BY <2>2
    <3> QED
      BY <2>3, <3>1 DEF Load, Safe
  <2>5. Trace(g, Q, s, Q)
    BY <2>2, <2>4 DEF Trace
  <2> QED
    BY <2>1, <2>5 DEF Good, Runs
<1>2. CASE job.kind # "copy"
  <2>1. n \in Nat \ {0} /\ job.kind \in {"program", "halves", "basic", "boot"}
    BY <1>2 DEF Jobs
  <2>2. Loaded(n) \in Loaders
    BY <2>1, LoadRuns
  <2>3. CASE job.kind = "program"
    BY <2>1, <2>2, <2>3, ProgramRuns DEF Good, ScriptOf
  <2>4. CASE job.kind = "halves"
    <3>1. Runs(Q, HalvesScript(n), Loaded(n))
      BY <2>1, <2>2, ProgramRuns, RunsConcat DEF HalvesScript
    <3> QED
      BY <2>2, <2>4, <3>1 DEF Good, ScriptOf
  <2>5. CASE job.kind = "basic"
    <3> DEFINE k == Packet("poke", "leave")
    <3>1. Runs(Loaded(n), << k >>, Loaded(n)) /\ k \in ProgType
      BY <2>2, RunsIdle, ProgTyped DEF Packet, Safe, Loaded, ProgCommands, GoesOn
    <3>2. BasicScript(n) = LoadScript(n) \o << k, k >>
      BY DEF BasicScript
    <3> HIDE DEF k
    <3>3. Runs(Loaded(n), << k, k >>, Loaded(n)) /\ << k, k >> \in Seq(ProgType)
      BY <3>1, RunsTwo
    <3>4. Runs(Q, BasicScript(n), Loaded(n))
      BY <2>1, <3>2, <3>3, LoadRuns, RunsConcat
    <3> QED
      BY <2>2, <2>5, <3>4 DEF Good, ScriptOf
  <2>6. CASE job.kind = "boot"
    <3> DEFINE c == Packet("command", "leave")
    <3>1. Runs(Q, << c >>, Q) /\ c \in ProgType
      BY <2>6, RunsIdle, ProgTyped DEF Packet, Safe, ProgCommands, GoesOn
    <3>2. BootScript(n) = << c >> \o ProgramScript(n)
      BY DEF BootScript
    <3> HIDE DEF c
    <3>3. << c >> \in Seq(ProgType)
      BY <3>1
    <3>4. Runs(Q, BootScript(n), Loaded(n))
      BY <2>1, <3>1, <3>2, <3>3, ProgramRuns, RunsConcat
    <3> QED
      BY <2>2, <2>6, <3>4 DEF Good, ScriptOf
  <2> QED
    BY <2>1, <2>3, <2>4, <2>5, <2>6
<1> QED
  BY <1>1, <1>2

-----------------------------------------------------------------------------
(* No program is started in part.                                          *)

\* What the host goes on to send; what it does when its packet has been executed.
Rest == IF outcome # "none" THEN << >> ELSE IF waiting THEN Tail(script) ELSE script
RestInTurn ==
  IF outcome # "none" THEN << >> ELSE IF line # << >> THEN Tail(script) ELSE script

\* Nothing lost: what is on its way and then the rest start nothing in part.
InFlow == \E R \in Loaders : Runs(LoaderOf, net, R) /\ Good(R, Rest)

\* Nothing late: what is not yet executed starts nothing in part, and a packet
\* without an answer is one that was lost.
MissedBlock ==
  waiting /\ Quiet =>
    \E i \in DOMAIN lost : lost[i].cmd = Head(script).cmd /\ lost[i].last = Head(script).last
InTurnFlow == Good(LoaderOf, RestInTurn) /\ MissedBlock

\* Before the first file.
Fresh ==
  /\ jobs \in Sessions
  /\ file = 0 => script = << >> /\ net = << >> /\ station.image = 0

EndsKept == \A i \in DOMAIN lost : ~(lost[i].cmd = "block" /\ lost[i].last)

FlowInv ==
  /\ Fresh
  /\ lost = << >> => InFlow /\ station.used # "part"
  /\ early = 0 /\ EndsKept => InTurnFlow /\ station.used # "part"

\* A packet in the host's script and on its way load the same.
LEMMA SentLoads ==
  ASSUME NEW P, NEW Q
  PROVE  Load(Q, Outgoing(P)) = Load(Q, P) /\ (Safe(Q, Outgoing(P)) <=> Safe(Q, P))
BY DEF Load, Safe, Outgoing

\* What the workstation makes of a packet.
LEMMA ExecutedLoads ==
  ASSUME station \in StationType, NEW p \in PacketIn, station' = Executed(p)
  PROVE  /\ LoaderOf' = Load(LoaderOf, p)
         /\ Safe(LoaderOf, p) /\ station.used # "part" => station'.used # "part"
<1>1. p.cmd \in Commands
  BY DEF PacketIn
<1>2. CASE p.cmd \in {"create", "write"}
  <2>1. PICK x : Executed(p) = [station EXCEPT !.disk = [station.disk EXCEPT ![p.fcb.file] = x]]
    BY <1>2 DEF Executed, StationType
  <2> QED
    BY <1>2, <2>1 DEF StationType, LoaderOf, Load
<1>3. CASE p.cmd = "close"
  <2>1. PICK x : Executed(p) = [station EXCEPT !.closed = x]
    BY <1>3 DEF Executed, StationType
  <2> QED
    BY <1>3, <2>1 DEF StationType, LoaderOf, Load
<1>4. CASE p.cmd \in {"data", "data2"}
  <2>1. PICK x : Executed(p) = [station EXCEPT !.buffer = x]
    BY <1>4 DEF Executed, StationType
  <2> QED
    BY <1>4, <2>1 DEF StationType, LoaderOf, Load
<1>5. CASE p.cmd = "header"
  <2>1. Executed(p) = [station EXCEPT !.image = p.n, !.loaded = 0, !.complete = FALSE]
    BY <1>5 DEF Executed
  <2> QED
    BY <1>5, <2>1 DEF StationType, LoaderOf, Load
<1>6. CASE p.cmd = "block"
  <2> DEFINE l == IF p.at = station.loaded THEN station.loaded + p.n ELSE station.loaded
  <2>1. Executed(p) = [station EXCEPT !.loaded = l, !.complete = p.last]
    BY <1>6 DEF Executed, StationType
  <2>2. Load(LoaderOf, p) = [image |-> station.image, loaded |-> l, complete |-> p.last]
    BY <1>6 DEF Load, LoaderOf
  <2> HIDE DEF l
  <2> QED
    BY <2>1, <2>2 DEF StationType, LoaderOf
<1>7. CASE p.cmd = "ping"
  BY <1>7 DEF Executed, LoaderOf, Load
<1>8. CASE p.cmd \in {"command", "poke"}
  <2>1. CASE station.image = 0
    BY <1>8, <2>1 DEF Executed, LoaderOf, Load
  <2>2. CASE station.image # 0
    <3> DEFINE u == IF station.complete /\ station.loaded = station.image THEN "whole" ELSE "part"
    <3>1. Executed(p) = [station EXCEPT !.used = u]
      BY <1>8, <2>2 DEF Executed
    <3>2. Safe(LoaderOf, p) => u = "whole"
      BY <1>8, <2>2 DEF Safe, LoaderOf
    <3> HIDE DEF u
    <3>3. station'.used = u /\ LoaderOf' = LoaderOf
      BY <3>1 DEF StationType, LoaderOf
    <3> QED
      BY <1>8, <3>2, <3>3 DEF Load
  <2> QED
    BY <2>1, <2>2
<1> QED
  BY <1>1, <1>2, <1>3, <1>4, <1>5, <1>6, <1>7, <1>8 DEF Commands

LEMMA LoaderTyped == station \in StationType => LoaderOf \in Loaders
BY DEF StationType, LoaderOf, Loaders

\* The rest of a script after its first packet.
LEMMA GoodRest ==
  ASSUME NEW Q \in Loaders, NEW s \in Seq(SendType), s # << >>, Good(Q, s)
  PROVE  /\ Safe(Q, Head(s)) /\ Load(Q, Head(s)) \in Loaders
         /\ Good(Load(Q, Head(s)), Tail(s))
<1>1. PICK R \in Loaders : Runs(Q, s, R)
  BY DEF Good
<1>2. Safe(Q, Head(s)) /\ Load(Q, Head(s)) \in Loaders /\ Runs(Load(Q, Head(s)), Tail(s), R)
  BY <1>1, RunsHead
<1> QED
  BY <1>2 DEF Good

LEMMA FlowStart == Init => FlowInv
<1> SUFFICES ASSUME Init PROVE FlowInv
  OBVIOUS
<1>1. /\ jobs \in Sessions /\ file = 0 /\ script = << >> /\ waiting = FALSE /\ outcome = "none"
      /\ net = << >> /\ line = << >> /\ station.image = 0 /\ station.used = "nothing"
  BY DEF Init
<1>2. LoaderOf \in Loaders
  BY TypesInit, LoaderTyped DEF Types
<1>3. Runs(LoaderOf, << >>, LoaderOf) /\ Good(LoaderOf, << >>)
  BY <1>2, RunsNone
<1>4. InFlow
  BY <1>1, <1>2, <1>3 DEF InFlow, Rest
<1>5. InTurnFlow
  BY <1>1, <1>3 DEF InTurnFlow, RestInTurn, MissedBlock
<1> QED
  BY <1>1, <1>4, <1>5 DEF FlowInv, Fresh

\* Steps that leave the workstation and what is still to be executed as they are.
LEMMA SameFlow ==
  ASSUME FlowInv, UNCHANGED << jobs, file, net, station, lost, early >>,
         file = 0 => script' = script, Rest' = Rest,
         InTurnFlow /\ early = 0 => RestInTurn' = RestInTurn /\ MissedBlock'
  PROVE  FlowInv'
<1>1. LoaderOf' = LoaderOf
  BY DEF LoaderOf
<1>2. InFlow => InFlow'
  BY <1>1 DEF InFlow
<1>3. InTurnFlow /\ early = 0 => InTurnFlow'
  BY <1>1 DEF InTurnFlow
<1>4. Fresh'
  BY DEF FlowInv, Fresh
<1>5. EndsKept' = EndsKept
  BY DEF EndsKept
<1> QED
  BY <1>2, <1>3, <1>4, <1>5 DEF FlowInv

LEMMA NextFileFlow == Types /\ TurnInv /\ FlowInv /\ NextFile => FlowInv'
<1> SUFFICES ASSUME Types, TurnInv, FlowInv, NextFile PROVE FlowInv'
  OBVIOUS
<1>1. /\ UNCHANGED << jobs, waiting, net, line, station, lost, early >>
      /\ script = << >> /\ ~waiting /\ outcome = "none"
  BY DEF NextFile, history, TurnInv, Waits
<1>2. MissedBlock' /\ Rest = << >>
  BY <1>1 DEF MissedBlock, Rest
<1>3. early = 0 => line = << >>
  BY <1>1 DEF TurnInv, InTurn, Quiet
<1>4. CASE file = Len(jobs)
  <2>1. file' = file /\ script' = script /\ outcome' = "done"
    BY <1>4 DEF NextFile
  <2>2. Rest' = << >> /\ RestInTurn' = << >>
    BY <2>1 DEF Rest, RestInTurn
  <2>3. early = 0 => RestInTurn = << >>
    BY <1>1, <1>3 DEF RestInTurn
  <2> QED
    BY <1>1, <1>2, <2>1, <2>2, <2>3, SameFlow
<1>5. CASE file # Len(jobs)
  <2>1. PICK f : f = file + 1
    OBVIOUS
  <2>2. file' = f /\ script' = ScriptOf(jobs[f]) /\ outcome' = "none"
    BY <1>1, <1>5, <2>1 DEF NextFile
  <2>3. jobs \in Seq(Jobs) /\ f \in 1..Len(jobs) /\ file \in Nat /\ file' # 0
    BY <1>5, <2>1, <2>2 DEF Types, HostTypes
  <2>4. jobs[f] \in Jobs
    BY <2>3
  <2>5. jobs[f].kind = "boot" => file = 0
    <3>1. file # 0 => f \in 2..Len(jobs)
      BY <2>1, <2>3
    <3>2. jobs \in Sessions
      BY DEF FlowInv, Fresh
    <3> QED
      BY <3>1, <3>2, PacketAssumption
  <2>6. Rest' = ScriptOf(jobs[f]) /\ (early = 0 => RestInTurn' = ScriptOf(jobs[f]))
    BY <1>1, <1>3, <2>2 DEF Rest, RestInTurn
  <2>7. LoaderOf \in Loaders /\ LoaderOf' = LoaderOf
    BY <1>1, LoaderTyped DEF Types, LoaderOf
  <2>8. \A R \in Loaders : Runs(LoaderOf, net, R) => Good(R, ScriptOf(jobs[f]))
    <3> SUFFICES ASSUME NEW R \in Loaders, Runs(LoaderOf, net, R)
                 PROVE  Good(R, ScriptOf(jobs[f]))
      OBVIOUS
    <3>1. file = 0 => R.image = 0
      <4> SUFFICES ASSUME file = 0 PROVE R.image = 0
        OBVIOUS
      <4>1. net = << >> /\ station.image = 0
        BY DEF FlowInv, Fresh
      <4>2. R = LoaderOf
        BY <2>7, <4>1, RunsNone
      <4> QED
        BY <4>1, <4>2 DEF LoaderOf
    <3> QED
      BY <2>4, <2>5, <3>1, ScriptGood
  <2>9. InFlow => InFlow'
    BY <1>1, <2>6, <2>7, <2>8 DEF InFlow
  <2>10. early = 0 => InTurnFlow'
    <3> SUFFICES ASSUME early = 0 PROVE InTurnFlow'
      OBVIOUS
    <3>1. net = << >>
      BY <1>1 DEF TurnInv, InTurn, Quiet
    <3>2. Good(LoaderOf, ScriptOf(jobs[f]))
      BY <2>7, <2>8, <3>1, RunsNone
    <3> QED
      BY <1>2, <2>6, <2>7, <3>2 DEF InTurnFlow
  <2>11. Fresh'
    BY <1>1, <2>3 DEF FlowInv, Fresh
  <2>12. EndsKept' = EndsKept
    BY <1>1 DEF EndsKept
  <2> QED
    BY <1>1, <2>9, <2>10, <2>11, <2>12 DEF FlowInv
<1> QED
  BY <1>4, <1>5

LEMMA SendFlow == Types /\ TurnInv /\ FlowInv /\ Send => FlowInv'
<1> SUFFICES ASSUME Types, TurnInv, FlowInv, Send PROVE FlowInv'
  OBVIOUS
<1> DEFINE p == Head(script)
<1>1. /\ UNCHANGED << jobs, file, script, outcome, line, station, lost, early >>
      /\ script # << >> /\ ~waiting /\ waiting' /\ outcome = "none"
      /\ net' = Append(net, Outgoing(p))
  BY DEF Send, history
<1>2. script \in Seq(SendType) /\ net \in Seq(PacketIn) /\ net' \in Seq(PacketIn)
      /\ PacketIn' = PacketIn
  <2>1. PacketIn' = PacketIn
    BY <1>1 DEF PacketIn, FcbIn
  <2> QED
    BY <2>1, SendTypes DEF Types, HostTypes, WireTypes
<1>3. net' # << >> /\ Outgoing(p) \in PacketIn
  <2>1. p \in SendType
    BY <1>1, <1>2, HeadOf
  <2>2. Outgoing(p) \in PacketIn
    BY <2>1 DEF Outgoing, PacketIn, SendType, Types, HostTypes, FcbIn, NoFcb, Fcb
  <2> QED
    BY <1>1, <1>2, <2>2
<1>4. LoaderOf' = LoaderOf /\ Rest = script /\ Rest' = Tail(script)
      /\ RestInTurn' = RestInTurn
  BY <1>1 DEF LoaderOf, Rest, RestInTurn
<1>5. InFlow => InFlow'
  <2> SUFFICES ASSUME InFlow PROVE InFlow'
    OBVIOUS
  <2>1. PICK R \in Loaders : Runs(LoaderOf, net, R) /\ Good(R, script)
    BY <1>4 DEF InFlow
  <2>2. Safe(R, p) /\ Load(R, p) \in Loaders /\ Good(Load(R, p), Tail(script))
    BY <1>1, <1>2, <2>1, GoodRest
  <2>3. Safe(R, Outgoing(p)) /\ Load(R, Outgoing(p)) = Load(R, p)
    BY <2>2, SentLoads
  <2>4. Runs(LoaderOf, net', Load(R, p))
    BY <1>1, <1>2, <1>3, <2>1, <2>2, <2>3, RunsAppend
  <2> QED
    BY <1>4, <2>2, <2>4 DEF InFlow
<1>6. InTurnFlow => InTurnFlow'
  BY <1>3, <1>4 DEF InTurnFlow, MissedBlock, Quiet
<1>7. Fresh'
  BY <1>1 DEF FlowInv, Fresh
<1>8. EndsKept' = EndsKept
  BY <1>1 DEF EndsKept
<1> QED
  BY <1>1, <1>5, <1>6, <1>7, <1>8 DEF FlowInv

LEMMA ExecuteFlow == Types /\ TurnInv /\ FlowInv /\ Execute => FlowInv'
<1> SUFFICES ASSUME Types, TurnInv, FlowInv, Execute PROVE FlowInv'
  OBVIOUS
<1> DEFINE p == Head(net)
<1>1. /\ UNCHANGED << jobs, file, script, waiting, outcome, lost, early >>
      /\ net # << >> /\ net' = Tail(net) /\ station' = Executed(p)
      /\ line' = Append(line, AnswerTo(p))
  BY DEF Execute, hostVars, history
<1>2. /\ net \in Seq(PacketIn) /\ p \in PacketIn /\ station \in StationType
      /\ script \in Seq(SendType) /\ LoaderOf \in Loaders
  BY <1>1, HeadOf, LoaderTyped DEF Types, WireTypes, HostTypes
<1>3. LoaderOf' = Load(LoaderOf, p)
      /\ (Safe(LoaderOf, p) /\ station.used # "part" => station'.used # "part")
  BY <1>1, <1>2, ExecutedLoads
<1>4. Fresh' /\ EndsKept' = EndsKept /\ Rest' = Rest
  BY <1>1 DEF FlowInv, Fresh, EndsKept, Rest
<1>5. InFlow => Safe(LoaderOf, p) /\ InFlow'
  <2> SUFFICES ASSUME InFlow PROVE Safe(LoaderOf, p) /\ InFlow'
    OBVIOUS
  <2>1. PICK R \in Loaders : Runs(LoaderOf, net, R) /\ Good(R, Rest)
    BY DEF InFlow
  <2>2. Safe(LoaderOf, p) /\ Runs(Load(LoaderOf, p), Tail(net), R)
    BY <1>1, <1>2, <2>1, RunsHead
  <2> QED
    BY <1>1, <1>3, <1>4, <2>1, <2>2 DEF InFlow
<1>6. early = 0 /\ InTurnFlow => Safe(LoaderOf, p) /\ InTurnFlow'
  <2> SUFFICES ASSUME early = 0, InTurnFlow PROVE Safe(LoaderOf, p) /\ InTurnFlow'
    OBVIOUS
  <2>1. waiting /\ net = << Outgoing(Head(script)) >> /\ line = << >> /\ script # << >>
    BY <1>1 DEF TurnInv, Waits, InTurn, Quiet
  <2>2. p = Outgoing(Head(script)) /\ outcome = "none" /\ line' # << >>
    BY <1>1, <2>1 DEF Types, HostTypes
  <2>3. RestInTurn = script /\ RestInTurn' = Tail(script)
    BY <1>1, <2>1, <2>2 DEF RestInTurn
  <2>4. Safe(LoaderOf, Head(script)) /\ Good(Load(LoaderOf, Head(script)), Tail(script))
    BY <1>2, <2>1, <2>3, GoodRest DEF InTurnFlow
  <2>5. Safe(LoaderOf, p) /\ Load(LoaderOf, p) = Load(LoaderOf, Head(script))
    BY <2>2, <2>4, SentLoads
  <2>6. MissedBlock'
    BY <2>2 DEF MissedBlock, Quiet
  <2> QED
    BY <1>3, <2>3, <2>4, <2>5, <2>6 DEF InTurnFlow
<1> QED
  BY <1>1, <1>3, <1>4, <1>5, <1>6 DEF FlowInv

LEMMA LoseFlow == Types /\ TurnInv /\ FlowInv /\ Lose => FlowInv'
<1> SUFFICES ASSUME Types, TurnInv, FlowInv, Lose PROVE FlowInv'
  OBVIOUS
<1>1. /\ UNCHANGED << jobs, file, script, waiting, outcome, line, station, early >>
      /\ net # << >> /\ net' = Tail(net) /\ lost' = Append(lost, Head(net))
      /\ lost \in Seq(PacketIn)
  BY DEF Lose, hostVars, rxVars, Types, WireTypes
<1>2. lost' # << >> /\ Len(lost) + 1 \in DOMAIN lost' /\ lost'[Len(lost) + 1] = Head(net)
      /\ \A i \in DOMAIN lost : i \in DOMAIN lost' /\ lost'[i] = lost[i]
  BY <1>1
<1>3. EndsKept' => EndsKept
  BY <1>2 DEF EndsKept
<1>4. Fresh'
  BY <1>1 DEF FlowInv, Fresh
<1>5. early = 0 /\ InTurnFlow => InTurnFlow'
  <2> SUFFICES ASSUME early = 0, InTurnFlow PROVE InTurnFlow'
    OBVIOUS
  <2>1. net = << Outgoing(Head(script)) >>
    BY <1>1 DEF TurnInv, InTurn, Quiet
  <2>2. Head(net).cmd = Head(script).cmd /\ Head(net).last = Head(script).last
    BY <2>1 DEF Outgoing
  <2>3. MissedBlock'
    BY <1>1, <1>2, <2>2 DEF MissedBlock
  <2>4. LoaderOf' = LoaderOf /\ RestInTurn' = RestInTurn
    BY <1>1 DEF LoaderOf, RestInTurn
  <2> QED
    BY <2>3, <2>4 DEF InTurnFlow
<1> QED
  BY <1>1, <1>2, <1>3, <1>4, <1>5 DEF FlowInv

LEMMA HearFlow ==
  ASSUME Types, TurnInv, FlowInv, NEW j \in Nat, Hear(j)
  PROVE  FlowInv'
<1>1. /\ UNCHANGED << jobs, file, outcome, net, station, lost, early >>
      /\ waiting /\ waiting' = FALSE /\ script' = Tail(script) /\ script # << >>
      /\ outcome = "none" /\ j >= 1 /\ line # << >>
      /\ line' = SubSeq(line, j + 1, Len(line))
  BY DEF Hear, Dropped, Types, HostTypes
<1>2. file # 0
  BY <1>1 DEF FlowInv, Fresh
<1>3. Rest' = Rest /\ MissedBlock'
  BY <1>1 DEF Rest, MissedBlock
<1>4. early = 0 => RestInTurn' = RestInTurn
  <2> SUFFICES ASSUME early = 0 PROVE RestInTurn' = RestInTurn
    OBVIOUS
  <2>1. PICK a : line = << a >>
    BY <1>1 DEF TurnInv, InTurn, Quiet
  <2>2. line' = << >>
    BY <1>1, <2>1, OneDropped
  <2> QED
    BY <1>1, <2>2 DEF RestInTurn
<1> QED
  BY <1>1, <1>2, <1>3, <1>4, SameFlow

LEMMA OverrunFlow ==
  ASSUME Types, TurnInv, FlowInv, NEW j \in Nat, NEW part \in BOOLEAN, Overrun(j, part)
  PROVE  FlowInv'
<1>1. UNCHANGED << jobs, file, script, waiting, outcome, net, station, lost, early >>
  BY DEF Overrun, hostVars
<1>2. Rest' = Rest
  BY <1>1 DEF Rest
<1>3. early # 0
  BY NoOverrun
<1> QED
  BY <1>1, <1>2, <1>3, SameFlow

LEMMA GiveUpFlow == Types /\ TurnInv /\ FlowInv /\ GiveUp => FlowInv'
<1> SUFFICES ASSUME Types, TurnInv, FlowInv, GiveUp PROVE FlowInv'
  OBVIOUS
<1> DEFINE p == Head(script)
<1>1. /\ UNCHANGED << jobs, file, net, station, lost >>
      /\ waiting /\ waiting' = FALSE /\ script # << >> /\ outcome = "none"
      /\ Unacknowledged(p) /\ Dropped(rxWhole, rxPart) /\ early \in Nat
      /\ script \in Seq(SendType)
  BY DEF GiveUp, Unacknowledged, Types, HostTypes
<1>2. /\ p.unacked \in {"again", "on", "leave", "exit"} /\ GoesOn(p.cmd, p.unacked, p.last)
  BY <1>1, HeadOf DEF SendType
<1>3. \/ p.unacked = "again" /\ script' = script /\ outcome' = "none" /\ p.cmd = "ping"
      \/ p.unacked = "on" /\ script' = Tail(script) /\ outcome' = "none"
      \/ p.unacked = "leave" /\ script' = << >> /\ outcome' = "none"
      \/ p.unacked = "exit" /\ script' = script /\ outcome' = "exit"
  BY <1>1, <1>2 DEF Unacknowledged, GoesOn
<1>4. LoaderOf' = LoaderOf /\ Fresh' /\ EndsKept' = EndsKept /\ MissedBlock'
  BY <1>1 DEF LoaderOf, FlowInv, Fresh, EndsKept, MissedBlock
<1>5. ASSUME NEW R \in Loaders, Good(R, Tail(script)) PROVE Good(R, Rest')
  <2>1. CASE p.unacked = "again"
    <3>1. Rest' = script /\ Load(R, p) = R /\ Safe(R, p)
      BY <1>1, <1>3, <2>1 DEF Rest, Load, Safe
    <3>2. PICK Q \in Loaders : Runs(R, Tail(script), Q)
      BY <1>5 DEF Good
    <3>3. Runs(R, script, Q)
      BY <1>1, <3>1, <3>2, RunsFirst
    <3> QED
      BY <3>1, <3>3 DEF Good
  <2>2. CASE p.unacked = "on"
    BY <1>1, <1>3, <1>5, <2>2 DEF Rest
  <2>3. CASE p.unacked \in {"leave", "exit"}
    <3>1. Rest' = << >>
      BY <1>1, <1>3, <2>3 DEF Rest
    <3> QED
      BY <3>1, RunsNone
  <2> QED
    BY <1>2, <2>1, <2>2, <2>3
<1>6. InFlow => InFlow'
  <2>1. Rest = Tail(script)
    BY <1>1 DEF Rest
  <2> QED
    BY <1>1, <1>4, <1>5, <2>1 DEF InFlow
<1>7. ASSUME early' = 0, EndsKept PROVE early = 0 /\ (InTurnFlow => InTurnFlow')
  <2>1. Quiet /\ early = 0
    BY <1>1, <1>7 DEF GiveUp
  <2>2. line = << >> /\ rxWhole = 0 /\ rxPart = FALSE
    BY <2>1 DEF Quiet, Types, BufferTypes
  <2>3. line' = << >>
    BY <1>1, <2>2 DEF Dropped
  <2>4. ASSUME InTurnFlow PROVE InTurnFlow'
    <3>1. Good(LoaderOf, script) /\ LoaderOf \in Loaders
      BY <1>1, <2>2, <2>4, LoaderTyped DEF InTurnFlow, RestInTurn, Types
    <3>2. ~(p.cmd = "block" /\ p.last)
      BY <1>1, <1>7, <2>1, <2>4 DEF InTurnFlow, MissedBlock, EndsKept
    <3>3. CASE p.unacked = "again"
      <4>1. RestInTurn' = script
        BY <1>3, <2>3, <3>3 DEF RestInTurn
      <4> QED
        BY <1>4, <3>1, <4>1 DEF InTurnFlow
    <3>4. CASE p.unacked = "on"
      <4>1. RestInTurn' = Tail(script)
        BY <1>3, <2>3, <3>4 DEF RestInTurn
      <4>2. Load(LoaderOf, p) = LoaderOf
        BY <1>2, <3>2, <3>4 DEF GoesOn, Load
      <4>3. Good(LoaderOf, Tail(script))
        BY <1>1, <3>1, <4>2, GoodRest
      <4> QED
        BY <1>4, <4>1, <4>3 DEF InTurnFlow
    <3>5. CASE p.unacked \in {"leave", "exit"}
      <4>1. RestInTurn' = << >>
        BY <1>3, <2>3, <3>5 DEF RestInTurn
      <4> QED
        BY <1>4, <3>1, <4>1, RunsNone DEF InTurnFlow
    <3> QED
      BY <1>2, <3>3, <3>4, <3>5
  <2> QED
    BY <2>1, <2>4
<1> QED
  BY <1>1, <1>4, <1>6, <1>7 DEF FlowInv

LEMMA FlowStep == Types /\ TurnInv /\ FlowInv /\ [Next]_vars => FlowInv'
<1> SUFFICES ASSUME Types, TurnInv, FlowInv, [Next]_vars PROVE FlowInv'
  OBVIOUS
<1>1. CASE Execute
  BY <1>1, ExecuteFlow
<1>2. CASE Lose
  BY <1>2, LoseFlow
<1>3. CASE NextFile
  BY <1>3, NextFileFlow
<1>4. CASE Send
  BY <1>4, SendFlow
<1>5. CASE HostHears
  <2>1. PICK j \in 0..Len(line) : Hear(j) \/ Overrun(j, TRUE) \/ Overrun(j, FALSE)
    BY <1>5 DEF HostHears
  <2>2. j \in Nat
    BY <2>1
  <2>3. CASE Hear(j)
    BY <2>2, <2>3, HearFlow
  <2>4. CASE Overrun(j, TRUE)
    BY <2>2, <2>4, OverrunFlow
  <2>5. CASE Overrun(j, FALSE)
    BY <2>2, <2>5, OverrunFlow
  <2> QED
    BY <2>1, <2>3, <2>4, <2>5
<1>6. CASE GiveUp
  BY <1>6, GiveUpFlow
<1>7. ASSUME UNCHANGED << hostVars, net, line, station, history >> PROVE FlowInv'
  <2>1. UNCHANGED << jobs, file, net, station, lost, early >> /\ script' = script
        /\ Rest' = Rest /\ RestInTurn' = RestInTurn /\ MissedBlock' = MissedBlock
    BY <1>7 DEF hostVars, history, Rest, RestInTurn, MissedBlock, Quiet
  <2> QED
    BY <2>1, SameFlow DEF InTurnFlow
<1>8. ASSUME NEW j \in 0..Len(line), HearPart(j) PROVE FlowInv'
  BY <1>7, <1>8 DEF HearPart
<1>9. CASE UNCHANGED vars
  BY <1>7, <1>9 DEF vars
<1> QED
  BY <1>1, <1>2, <1>3, <1>4, <1>5, <1>6, <1>8, <1>9 DEF Next

\* No program is started, and no end of one poked, before all of it is there: however
\* late the answers, if nothing was lost; and whatever was lost but a last block, if
\* no wait ended early.  For all files and all sizes.
THEOREM NoneStartedInPart == Spec => []StartedWhole
<1>1. Init => Types /\ TurnInv /\ FlowInv
  BY TypesInit, TurnInit, FlowStart
<1>2. Types /\ TurnInv /\ FlowInv /\ [Next]_vars => (Types /\ TurnInv /\ FlowInv)'
  BY TypesStep, TurnStep, FlowStep
<1>3. FlowInv => StartedWhole
  BY DEF FlowInv, EndsKept, StartedWhole
<1> QED
  BY <1>1, <1>2, <1>3, PTL DEF Spec

-----------------------------------------------------------------------------
(* Copies when answers are late.  No trace of the past is needed: what the *)
(* host has sent and the workstation has not executed is on the net, and   *)
(* what it has not yet heard is owed by the line and the net together.     *)

SendsCopy == file > 0 /\ jobs[file].kind = "copy"

\* Whatever happened, the script is the rest of the file that is being sent.
RestInv ==
  /\ file = 0 => script = << >>
  /\ SendsCopy => RestOfCopy
  /\ file > 0 /\ ~SendsCopy => script \in Seq(ProgType)
  /\ outcome = "done" => file = Len(jobs) /\ script = << >>

\* At most one packet, or its answer, is on its way for each wait that ended early,
\* and one for the wait that goes on.
Pending == Len(line) + Len(net) <= early + (IF waiting THEN 1 ELSE 0)

\* The answers that the host may still hear, and the packets of the file sent.
Owed ==
  [i \in 1..(Len(line) + Len(net)) |->
     IF i <= Len(line) THEN line[i] ELSE AnswerTo(net[i - Len(line)])]
Sent == Acked + (IF waiting THEN 1 ELSE 0)

\* The FCB x comes with answer k of those owed, or has come when k <= 0; behind it
\* are acknowledgements only.
Brings(owed, fcb, k, x) ==
  /\ \A i \in 1..Len(owed) : i > k => owed[i].cmd = "ack"
  /\ k > 0 => owed[k].cmd \in {"created", "written"} /\ owed[k].fcb = x
  /\ k <= 0 => fcb = x

\* The FCB for the next sector of a copy was asked for by the create or write that
\* the last packets, blocks of that sector, were sent after.
FcbComes ==
  SendsCopy /\ Sent \in 2..(BodyLength(jobs[file].bytes) + 2) =>
    Brings(Owed, rxFcb, Len(Owed) - (BodyIndex(Sent - 1) - 1), Fcb(file, BodySector(Sent - 1)))

\* Disk and buffer of the workstation, and what the packets s make of them.
StoreType == [disk : [0..Len(jobs) -> Seq(Seq(BlockType))], buffer : Seq(BlockType)]
StoreOf == [disk |-> station.disk, buffer |-> station.buffer]
Put(Q, p) == [disk |-> Disked(Q.disk, Q.buffer, p), buffer |-> Buffered(Q.buffer, p)]
Leads(Q, s, R) ==
  \E g : g[0] = Q /\ g[Len(s)] = R /\ \A i \in 1..Len(s) : g[i] = Put(g[i - 1], s[i])

\* R has the copies before this file, and of this one what x packets hold.
AllSectors(d, f) ==
  /\ Len(d) = Sectors(f)
  /\ \A s \in DOMAIN d : HoldsBytes(d[s], (s - 1) * Sector, s * Sector)
Reached(R, f, x) ==
  LET n == BodyLength(jobs[f].bytes) IN
    /\ x \in 2..(n + 2) => SectorsBefore(R.disk[f], x - 1) /\ BlocksBefore(R.buffer, x - 1)
    /\ x = n + 3 => AllSectors(R.disk[f], f)
HasCopies(R) ==
  \A f \in 1..Len(jobs) : jobs[f].kind = "copy" /\ f < file => AllSectors(R.disk[f], f)
Holds(R) == HasCopies(R) /\ (SendsCopy => Reached(R, file, Sent))

\* When the workstation has executed what is on the net, its disk is right.
StoreComes == \E R \in StoreType : Leads(StoreOf, net, R) /\ Holds(R)

\* The late answers of ParsedAnswersInTime, while the host goes on.
Late == early <= SectorPackets /\ lost = << >> /\ ~unparsed /\ outcome # "exit"
LateInv == RestInv /\ Pending /\ (Late => FcbComes /\ StoreComes)

LEMMA LeadsNone ==
  ASSUME NEW Q
  PROVE  Leads(Q, << >>, Q) /\ \A R : Leads(Q, << >>, R) => R = Q
<1>1. Len(<< >>) = 0
  OBVIOUS
<1>2. Leads(Q, << >>, Q)
  <2> DEFINE g == [i \in 0..0 |-> Q]
  <2>1. g[0] = Q /\ \A i \in 1..0 : FALSE
    OBVIOUS
  <2> QED
    BY <1>1, <2>1 DEF Leads
<1> QED
  BY <1>1, <1>2 DEF Leads

LEMMA LeadsHead ==
  ASSUME NEW T, NEW s \in Seq(T), s # << >>, NEW Q, NEW R, Leads(Q, s, R)
  PROVE  Leads(Put(Q, Head(s)), Tail(s), R)
<1> DEFINE n == Len(s)
           t == Tail(s)
<1>1. PICK g : g[0] = Q /\ g[n] = R /\ \A i \in 1..n : g[i] = Put(g[i - 1], s[i])
  BY DEF Leads
<1> DEFINE h == [i \in 0..(n - 1) |-> g[i + 1]]
<1>2. n \in Nat \ {0} /\ Head(s) = s[1] /\ Len(t) = n - 1
      /\ \A i \in 1..(n - 1) : t[i] = s[i + 1]
  OBVIOUS
<1> HIDE DEF n, t
<1>3. h[0] = Put(Q, Head(s)) /\ h[n - 1] = R
  <2>1. 0 \in 0..(n - 1) /\ n - 1 \in 0..(n - 1) /\ 0 + 1 = 1 /\ (n - 1) + 1 = n
        /\ 1 \in 1..n /\ 1 - 1 = 0
    BY <1>2
  <2>2. h[0] = g[1] /\ h[n - 1] = g[n] /\ g[1] = Put(g[0], s[1])
    BY <1>1, <2>1
  <2> QED
    BY <1>1, <1>2, <2>2
<1>4. ASSUME NEW i \in 1..(n - 1) PROVE h[i] = Put(h[i - 1], t[i])
  <2>1. i + 1 \in 1..n /\ (i + 1) - 1 = i /\ (i - 1) + 1 = i
        /\ i \in 0..(n - 1) /\ i - 1 \in 0..(n - 1)
    BY <1>2
  <2>2. g[i + 1] = Put(g[i], s[i + 1]) /\ h[i] = g[i + 1] /\ h[i - 1] = g[i]
    BY <1>1, <2>1
  <2> QED
    BY <1>2, <2>2
<1> HIDE DEF h
<1>5. h[0] = Put(Q, Head(s)) /\ h[Len(t)] = R /\ \A i \in 1..Len(t) : h[i] = Put(h[i - 1], t[i])
  BY <1>2, <1>3, <1>4
<1> QED
  BY <1>5 DEF Leads, t

LEMMA LeadsAppend ==
  ASSUME NEW T, NEW s \in Seq(T), NEW p \in T, NEW Q, NEW R, Leads(Q, s, R)
  PROVE  Leads(Q, Append(s, p), Put(R, p))
<1> DEFINE n == Len(s)
           t == Append(s, p)
<1>1. PICK g : g[0] = Q /\ g[n] = R /\ \A i \in 1..n : g[i] = Put(g[i - 1], s[i])
  BY DEF Leads
<1> DEFINE h == [i \in 0..(n + 1) |-> IF i = n + 1 THEN Put(R, p) ELSE g[i]]
<1>2. n \in Nat /\ Len(t) = n + 1 /\ t[n + 1] = p /\ \A i \in 1..n : t[i] = s[i]
  OBVIOUS
<1> HIDE DEF n, t
<1>3. h[0] = Q /\ h[n] = R /\ h[n + 1] = Put(R, p)
  BY <1>1, <1>2
<1>4. ASSUME NEW i \in 1..(n + 1) PROVE h[i] = Put(h[i - 1], t[i])
  <2>1. CASE i = n + 1
    <3>1. i - 1 = n
      BY <1>2, <2>1
    <3> QED
      BY <1>2, <1>3, <2>1, <3>1
  <2>2. CASE i # n + 1
    <3>1. i \in 1..n /\ i \in 0..(n + 1) /\ i - 1 \in 0..(n + 1) /\ i - 1 # n + 1
      BY <1>2, <2>2
    <3>2. h[i] = g[i] /\ h[i - 1] = g[i - 1]
      BY <2>2, <3>1
    <3> QED
      BY <1>1, <1>2, <3>1, <3>2
  <2> QED
    BY <2>1, <2>2
<1> HIDE DEF h
<1>5. h[0] = Q /\ h[Len(t)] = Put(R, p) /\ \A i \in 1..Len(t) : h[i] = Put(h[i - 1], t[i])
  BY <1>2, <1>3, <1>4
<1> QED
  BY <1>5 DEF Leads, t

LEMMA PutTyped ==
  ASSUME jobs \in Seq(Jobs), NEW Q \in StoreType, NEW p \in PacketIn
  PROVE  Put(Q, p) \in StoreType
<1>1. /\ Q.disk \in [0..Len(jobs) -> Seq(Seq(BlockType))] /\ Q.buffer \in Seq(BlockType)
      /\ p.fcb.file \in 0..Len(jobs) /\ p.fcb.rec \in Nat
      /\ p.at \in Nat /\ p.n \in Nat /\ p.last \in BOOLEAN
  BY DEF StoreType, PacketIn, FcbIn
<1>2. Block(p) \in BlockType
  BY <1>1 DEF Block, BlockType
<1>3. Buffered(Q.buffer, p) \in Seq(BlockType)
  <2>1. << Block(p) >> \in Seq(BlockType) /\ Append(Q.buffer, Block(p)) \in Seq(BlockType)
    BY ONLY <1>1, <1>2
  <2> QED
    BY <1>1, <2>1 DEF Buffered
<1>4. Sectored(Q.disk[p.fcb.file], Q.buffer, p) \in Seq(Seq(BlockType))
  BY <1>1, StoredTyped DEF Sectored
<1>5. Disked(Q.disk, Q.buffer, p) \in [0..Len(jobs) -> Seq(Seq(BlockType))]
  <2>1. << >> \in Seq(Seq(BlockType))
    OBVIOUS
  <2>2. CASE p.cmd = "create"
    BY <1>1, <2>1, <2>2 DEF Disked
  <2>3. CASE p.cmd = "write"
    <3>1. Disked(Q.disk, Q.buffer, p) =
            [Q.disk EXCEPT ![p.fcb.file] = Sectored(Q.disk[p.fcb.file], Q.buffer, p)]
      BY <1>1, <2>3 DEF Disked
    <3> QED
      BY <1>1, <1>4, <3>1
  <2>4. CASE p.cmd \notin {"create", "write"}
    BY <1>1, <2>4 DEF Disked
  <2> QED
    BY <2>2, <2>3, <2>4
<1> QED
  BY <1>3, <1>5 DEF Put, StoreType

-----------------------------------------------------------------------------
(* Answers owed.                                                           *)

LEMMA OwedTyped ==
  ASSUME Types
  PROVE  /\ Owed \in Seq(AnswerIn) /\ Len(Owed) = Len(line) + Len(net)
         /\ Len(line) \in Nat /\ Len(net) \in Nat
         /\ \A i \in 1..Len(line) : Owed[i] = line[i]
<1>1. line \in Seq(AnswerIn) /\ net \in Seq(PacketIn) /\ Len(line) \in Nat /\ Len(net) \in Nat
  BY DEF Types, WireTypes
<1>2. \A i \in 1..Len(net) : AnswerTo(net[i]) \in AnswerIn
  <2> TAKE i \in 1..Len(net)
  <2>1. net[i] \in PacketIn
    BY <1>1
  <2> QED
    BY <2>1, ExecutedTyped DEF Types, HostTypes
<1>3. \A i \in 1..(Len(line) + Len(net)) : Owed[i] \in AnswerIn
  <2> TAKE i \in 1..(Len(line) + Len(net))
  <2>1. CASE i <= Len(line)
    BY <1>1, <2>1 DEF Owed
  <2>2. CASE ~(i <= Len(line))
    <3>1. i - Len(line) \in 1..Len(net)
      BY <1>1, <2>2
    <3> QED
      BY <1>2, <2>2, <3>1 DEF Owed
  <2> QED
    BY <2>1, <2>2
<1> QED
  BY <1>1, <1>3 DEF Owed

LEMMA OwedExecute ==
  ASSUME Types, Execute
  PROVE  Owed' = Owed
<1>1. line \in Seq(AnswerIn) /\ net \in Seq(PacketIn) /\ net # << >>
  BY DEF Types, WireTypes, Execute
<1>2. PICK m, n : m = Len(line) /\ n = Len(net)
  OBVIOUS
<1>3. /\ m \in Nat /\ n \in Nat \ {0}
      /\ Len(line') = m + 1 /\ Len(net') = n - 1
      /\ line'[m + 1] = AnswerTo(net[1]) /\ \A i \in 1..m : line'[i] = line[i]
      /\ \A i \in 1..(n - 1) : net'[i] = net[i + 1]
  BY <1>1, <1>2 DEF Execute
<1>4. \A p : AnswerTo(p)' = AnswerTo(p)
  BY DEF AnswerTo, Answer, Fcb, Ack, NoFcb
<1>5. Owed' = [i \in 1..(m + n) |-> IF i <= m + 1 THEN line'[i] ELSE AnswerTo(net'[i - (m + 1)])]
  <2>1. (m + 1) + (n - 1) = m + n
    BY <1>3
  <2> QED
    BY <1>3, <1>4, <2>1 DEF Owed
<1>6. Owed = [i \in 1..(m + n) |-> IF i <= m THEN line[i] ELSE AnswerTo(net[i - m])]
  BY <1>2 DEF Owed
<1>7. ASSUME NEW i \in 1..(m + n)
      PROVE (IF i <= m + 1 THEN line'[i] ELSE AnswerTo(net'[i - (m + 1)]))
              = (IF i <= m THEN line[i] ELSE AnswerTo(net[i - m]))
  <2>1. CASE i <= m
    BY <1>3, <2>1
  <2>2. CASE i = m + 1
    <3>1. i <= m + 1 /\ ~(i <= m) /\ i - m = 1
      BY <1>3, <2>2
    <3> QED
      BY <1>3, <2>2, <3>1
  <2>3. CASE i > m + 1
    <3>1. ~(i <= m + 1) /\ ~(i <= m) /\ i - (m + 1) \in 1..(n - 1) /\ (i - (m + 1)) + 1 = i - m
      BY <1>3, <2>3
    <3> QED
      BY <1>3, <3>1
  <2> QED
    BY <1>3, <2>1, <2>2, <2>3
<1> QED
  BY <1>5, <1>6, <1>7

LEMMA OwedSend ==
  ASSUME Types, NEW p \in PacketIn, line' = line, net' = Append(net, p)
  PROVE  /\ Len(Owed') = Len(Owed) + 1 /\ Owed'[Len(Owed) + 1] = AnswerTo(p)
         /\ \A i \in 1..Len(Owed) : Owed'[i] = Owed[i]
<1>1. PICK m, n : m = Len(line) /\ n = Len(net)
  OBVIOUS
<1>2. Len(Owed) = m + n /\ m \in Nat /\ n \in Nat
  BY <1>1, OwedTyped
<1>3. Len(net') = n + 1 /\ net'[n + 1] = p /\ \A i \in 1..n : net'[i] = net[i]
  BY <1>1 DEF Types, WireTypes
<1>4. \A q : AnswerTo(q)' = AnswerTo(q)
  BY DEF AnswerTo, Answer, Fcb, Ack, NoFcb
<1>5. Owed' = [i \in 1..(m + n + 1) |-> IF i <= m THEN line[i] ELSE AnswerTo(net'[i - m])]
  <2>1. m + (n + 1) = m + n + 1
    BY <1>2
  <2> QED
    BY <1>1, <1>3, <1>4, <2>1 DEF Owed
<1>6. \A i \in 1..(m + n) : Owed[i] = IF i <= m THEN line[i] ELSE AnswerTo(net[i - m])
  BY <1>1 DEF Owed
<1>7. Len(Owed') = m + n + 1
  BY <1>2, <1>5
<1>8. Owed'[m + n + 1] = AnswerTo(p)
  <2>1. m + n + 1 \in 1..(m + n + 1) /\ ~(m + n + 1 <= m) /\ (m + n + 1) - m = n + 1
    BY <1>2
  <2> QED
    BY <1>3, <1>5, <2>1
<1>9. ASSUME NEW i \in 1..(m + n) PROVE Owed'[i] = Owed[i]
  <2>1. i \in 1..(m + n + 1) /\ (~(i <= m) => i - m \in 1..n)
    BY <1>2
  <2> QED
    BY <1>3, <1>5, <1>6, <2>1
<1> QED
  BY <1>2, <1>7, <1>8, <1>9

LEMMA OwedDrop ==
  ASSUME Types, NEW d \in 0..Len(line), line' = SubSeq(line, d + 1, Len(line)), net' = net
  PROVE  /\ Len(line') = Len(line) - d /\ Len(Owed') = Len(Owed) - d
         /\ \A i \in 1..Len(Owed') : Owed'[i] = Owed[i + d]
<1>1. PICK m, n : m = Len(line) /\ n = Len(net)
  OBVIOUS
<1>2. m \in Nat /\ n \in Nat /\ d \in 0..m /\ line \in Seq(AnswerIn)
      /\ Len(Owed) = m + n
  BY <1>1, OwedTyped DEF Types, WireTypes
<1>3. line' = SubSeq(line, d + 1, m)
  BY <1>1
<1>4. Len(line') = m - d /\ \A i \in 1..(m - d) : line'[i] = line[i + d]
  BY <1>1, <1>2, <1>3
<1>5. \A q : AnswerTo(q)' = AnswerTo(q)
  BY DEF AnswerTo, Answer, Fcb, Ack, NoFcb
<1>6. Owed' = [i \in 1..((m - d) + n) |->
                 IF i <= m - d THEN line'[i] ELSE AnswerTo(net[i - (m - d)])]
  BY <1>1, <1>4, <1>5 DEF Owed
<1>7. \A i \in 1..(m + n) : Owed[i] = IF i <= m THEN line[i] ELSE AnswerTo(net[i - m])
  BY <1>1 DEF Owed
<1>8. Len(Owed') = (m + n) - d
  BY <1>2, <1>6
<1>9. ASSUME NEW i \in 1..((m + n) - d) PROVE Owed'[i] = Owed[i + d]
  <2>1. i \in 1..((m - d) + n) /\ i + d \in 1..(m + n)
    BY <1>2
  <2>2. CASE i <= m - d
    <3>1. i \in 1..(m - d) /\ i + d <= m
      BY <1>2, <2>2
    <3> QED
      BY <1>4, <1>6, <1>7, <2>1, <2>2, <3>1
  <2>3. CASE ~(i <= m - d)
    <3>1. ~(i + d <= m) /\ (i + d) - m = i - (m - d)
      BY <1>2, <2>3
    <3>2. Owed'[i] = AnswerTo(net[i - (m - d)]) /\ Owed[i + d] = AnswerTo(net[(i + d) - m])
      BY <1>6, <1>7, <2>1, <2>3, <3>1
    <3> QED
      BY <3>1, <3>2
  <2> QED
    BY <2>2, <2>3
<1> QED
  BY <1>1, <1>2, <1>4, <1>8, <1>9

\* An acknowledgement more, and answers fewer, do not change what comes.
LEMMA BringsAck ==
  ASSUME NEW o, NEW u, Len(o) \in Nat, Len(u) = Len(o) + 1, u[Len(o) + 1].cmd = "ack",
         \A i \in 1..Len(o) : u[i] = o[i],
         NEW fcb, NEW k \in Int, NEW x, k <= Len(o), Brings(o, fcb, k, x)
  PROVE  Brings(u, fcb, k, x)
<1>1. PICK n : n = Len(o) /\ n \in Nat /\ Len(u) = n + 1
  OBVIOUS
<1>2. \A i \in 1..(n + 1) : i \in 1..n \/ i = n + 1
  BY <1>1
<1>3. k > 0 => k \in 1..n
  BY <1>1
<1> QED
  BY <1>1, <1>2, <1>3 DEF Brings

LEMMA BringsDrop ==
  ASSUME NEW o, NEW u, NEW d \in Nat, Len(o) \in Nat, Len(u) = Len(o) - d,
         d <= Len(o), \A i \in 1..Len(u) : u[i] = o[i + d],
         NEW fcb, NEW new, NEW k \in Int, NEW x, k <= Len(o), Brings(o, fcb, k, x),
         k \in 1..d => new = x,
         k <= 0 => new = fcb
  PROVE  Brings(u, new, k - d, x)
<1>1. PICK n : n = Len(o) /\ n \in Nat /\ Len(u) = n - d
  OBVIOUS
<1>2. ASSUME NEW i \in 1..(n - d), i > k - d PROVE u[i].cmd = "ack"
  <2>1. i + d \in 1..n /\ i + d > k
    BY <1>1, <1>2
  <2> QED
    BY <1>1, <2>1 DEF Brings
<1>3. ASSUME k - d > 0 PROVE u[k - d].cmd \in {"created", "written"} /\ u[k - d].fcb = x
  <2>1. k - d \in 1..(n - d) /\ (k - d) + d = k /\ k > 0
    BY <1>1, <1>3
  <2>2. u[k - d] = o[(k - d) + d]
    BY <1>1, <2>1
  <2> QED
    BY <2>1, <2>2 DEF Brings
<1>4. ASSUME k - d <= 0 PROVE new = x
  <2>1. k \in 1..d \/ k <= 0
    BY <1>4
  <2> QED
    BY <2>1 DEF Brings
<1> QED
  BY <1>1, <1>2, <1>3, <1>4 DEF Brings

-----------------------------------------------------------------------------
(* The script is the rest of the file.                                     *)

\* What is sent next of a copy.
LEMMA CopyHead ==
  ASSUME Types, SendsCopy, RestOfCopy, script # << >>,
         NEW n, n = BodyLength(jobs[file].bytes)
  PROVE  /\ n \in Nat /\ Acked \in Nat /\ Acked + 1 \in 1..(n + 3)
         /\ Acked + 1 = 1 => Head(script) = Ping
         /\ Acked + 1 = 2 => Head(script) = Packet("create", "exit")
         /\ Acked + 1 \in 3..(n + 2) =>
              Acked - 1 \in Nat \ {0} /\ Head(script) = BodyPacket(Acked - 1)
         /\ Acked + 1 = n + 3 => Head(script) = Packet("close", "exit")
         /\ Head(script).unacked # "leave"
         /\ Head(script).unacked = "again" => Acked = 0
<1>1. /\ n \in Nat /\ Whole[1] = Ping /\ Whole[2] = Packet("create", "exit")
      /\ \A k \in 1..n : Whole[k + 2] = BodyPacket(k)
      /\ Whole[n + 3] = Packet("close", "exit")
  BY WholeCopy DEF SendsCopy
<1>2. Acked \in Nat /\ Acked + 1 \in 1..(n + 3) /\ Head(script) = Whole[Acked + 1]
  BY NextOfCopy DEF SendsCopy
<1>3. Acked + 1 \in 3..(n + 2) =>
        /\ Acked - 1 \in Nat \ {0} /\ Head(script) = BodyPacket(Acked - 1)
        /\ Head(script).unacked \in {"on", "exit"}
  <2> SUFFICES ASSUME Acked + 1 \in 3..(n + 2)
               PROVE  /\ Acked - 1 \in Nat \ {0} /\ Head(script) = BodyPacket(Acked - 1)
                      /\ Head(script).unacked \in {"on", "exit"}
    OBVIOUS
  <2>1. Acked - 1 \in 1..n /\ Acked + 1 = (Acked - 1) + 2 /\ Acked - 1 \in Nat \ {0}
    BY <1>1, <1>2
  <2>2. Head(script) = BodyPacket(Acked - 1)
    BY <1>1, <1>2, <2>1
  <2>3. BodyPacket(Acked - 1) = SectorPacket(BodySector(Acked - 1), BodyIndex(Acked - 1))
    BY <2>1, Body
  <2>4. Head(script).unacked \in {"on", "exit"}
    BY <2>2, <2>3 DEF SectorPacket, DataPacket, Carrying
  <2> QED
    BY <2>1, <2>2, <2>4
<1>4. /\ Acked + 1 = 1 => Head(script) = Ping
      /\ Acked + 1 = 2 => Head(script) = Packet("create", "exit")
      /\ Acked + 1 = n + 3 => Head(script) = Packet("close", "exit")
  BY <1>1, <1>2
<1>5. Acked + 1 = 1 \/ Acked + 1 = 2 \/ Acked + 1 \in 3..(n + 2) \/ Acked + 1 = n + 3
  BY <1>1, <1>2
<1>6. Head(script).unacked # "leave" /\ (Head(script).unacked = "again" => Acked = 0)
  BY <1>2, <1>3, <1>4, <1>5 DEF Ping, Packet
<1> QED
  BY <1>1, <1>2, <1>3, <1>4, <1>6

LEMMA RestStart == Init => RestInv
BY DEF Init, RestInv, SendsCopy

LEMMA SameRest ==
  ASSUME RestInv, UNCHANGED << jobs, file, script >>, outcome' = "done" => outcome = "done"
  PROVE  RestInv'
<1>1. Whole' = Whole /\ Acked' = Acked /\ SendsCopy' = SendsCopy
  BY DEF Whole, Acked, SendsCopy
<1> QED
  BY <1>1 DEF RestInv, RestOfCopy

\* A script that goes on with its tail, or ends.
LEMMA TailRest ==
  ASSUME Types, RestInv, waiting, UNCHANGED << jobs, file >>,
         script' \in {Tail(script), << >>}, outcome' # "done"
  PROVE  RestInv'
<1>1. script # << >> /\ file > 0 /\ script \in Seq(SendType)
  <2>1. script # << >> /\ file \in 0..Len(jobs) /\ jobs \in Seq(Jobs) /\ script \in Seq(SendType)
    BY DEF Types, HostTypes
  <2> QED
    BY <2>1 DEF RestInv
<1>2. Whole' = Whole /\ SendsCopy' = SendsCopy /\ file' > 0
  BY <1>1 DEF Whole, SendsCopy
<1>3. ASSUME SendsCopy PROVE RestOfCopy'
  <2>1. PICK n : n = BodyLength(jobs[file].bytes)
    OBVIOUS
  <2>2. n \in Nat /\ Len(Whole) = n + 3
    BY <1>3, <2>1, WholeCopy DEF SendsCopy
  <2>3. CASE script' = << >>
    <3>1. Len(script') = 0
      BY <2>3
    <3> QED
      BY <1>2, <2>2, <3>1 DEF RestOfCopy
  <2>4. CASE script' = Tail(script)
    <3>1. /\ Acked \in Nat /\ Len(Tail(script)) = Len(script) - 1
          /\ \A i \in 1..Len(Tail(script)) : Tail(script)[i] = Whole[Acked + 1 + i]
      BY <1>1, <1>3, NextOfCopy DEF SendsCopy, RestInv
    <3>2. Len(script) \in Nat /\ Len(script) <= Len(Whole)
      BY <1>1, <1>3 DEF RestInv, RestOfCopy
    <3>3. Len(script') = Len(script) - 1
      BY <2>4, <3>1
    <3>4. Acked' = Acked + 1 /\ Len(script') <= Len(Whole)
      BY <1>2, <2>2, <3>2, <3>3 DEF Acked
    <3> QED
      BY <1>2, <2>4, <3>1, <3>4 DEF RestOfCopy
  <2> QED
    BY <2>3, <2>4
<1>4. ASSUME ~SendsCopy PROVE script' \in Seq(ProgType)
  <2>1. script \in Seq(ProgType)
    BY <1>1, <1>4 DEF RestInv
  <2>2. Tail(script) \in Seq(ProgType) /\ << >> \in Seq(ProgType)
    BY <1>1, <2>1, HeadOf
  <2> QED
    BY <2>2
<1> QED
  BY <1>2, <1>3, <1>4 DEF RestInv

LEMMA NextFileRest ==
  ASSUME Types, RestInv, NextFile
  PROVE  RestInv'
<1>1. /\ jobs' = jobs /\ script = << >> /\ outcome = "none"
      /\ jobs \in Seq(Jobs) /\ file \in 0..Len(jobs)
  BY DEF NextFile, Types, HostTypes
<1>2. CASE file = Len(jobs)
  <2>1. UNCHANGED << jobs, file, script >> /\ outcome' = "done"
    BY <1>1, <1>2 DEF NextFile
  <2>2. Whole' = Whole /\ Acked' = Acked /\ SendsCopy' = SendsCopy
    BY <2>1 DEF Whole, Acked, SendsCopy
  <2> QED
    BY <1>1, <1>2, <2>1, <2>2 DEF RestInv, RestOfCopy
<1>3. CASE file # Len(jobs)
  <2>1. file' = file + 1 /\ script' = ScriptOf(jobs[file + 1]) /\ outcome' = "none"
    BY <1>1, <1>3 DEF NextFile
  <2>2. PICK f : f = file + 1
    OBVIOUS
  <2>3. f \in 1..Len(jobs) /\ jobs[f] \in Jobs /\ file' = f /\ f > 0
    BY <1>1, <1>3, <2>1, <2>2
  <2>4. ScriptOf(jobs[f]) \in Seq(SendType)
    BY <2>3, ScriptTyped
  <2>5. Whole' = script' /\ script' = ScriptOf(jobs[f])
    BY <1>1, <2>1, <2>2 DEF Whole
  <2>6. RestOfCopy'
    <3>1. Len(script') \in Nat
      BY <2>4, <2>5
    <3>2. Acked' = 0
      BY <2>5, <3>1 DEF Acked
    <3>3. \A i \in 1..Len(script') : 0 + i = i
      OBVIOUS
    <3> QED
      BY <2>5, <3>1, <3>2, <3>3 DEF RestOfCopy
  <2>7. SendsCopy' <=> jobs[f].kind = "copy"
    BY <1>1, <2>3 DEF SendsCopy
  <2>8. jobs[f].kind # "copy" => script' \in Seq(ProgType)
    BY <2>3, <2>5, ProgramTyped
  <2> QED
    BY <2>1, <2>3, <2>6, <2>7, <2>8 DEF RestInv
<1> QED
  BY <1>2, <1>3

LEMMA RestStep == Types /\ RestInv /\ [Next]_vars => RestInv'
<1> SUFFICES ASSUME Types, RestInv, [Next]_vars PROVE RestInv'
  OBVIOUS
<1>1. CASE Execute
  BY <1>1, SameRest DEF Execute, hostVars
<1>2. CASE Lose
  BY <1>2, SameRest DEF Lose, hostVars
<1>3. CASE NextFile
  BY <1>3, NextFileRest
<1>4. CASE Send
  BY <1>4, SameRest DEF Send
<1>5. CASE HostHears
  <2>1. PICK j \in 0..Len(line) : Hear(j) \/ Overrun(j, TRUE) \/ Overrun(j, FALSE)
    BY <1>5 DEF HostHears
  <2>2. CASE Hear(j)
    BY <2>2, TailRest DEF Hear, Types, HostTypes
  <2>3. CASE Overrun(j, TRUE) \/ Overrun(j, FALSE)
    BY <2>3, SameRest DEF Overrun, hostVars
  <2> QED
    BY <2>1, <2>2, <2>3
<1>6. CASE GiveUp
  <2>1. /\ waiting /\ UNCHANGED << jobs, file >> /\ outcome = "none"
        /\ Unacknowledged(Head(script))
    BY <1>6 DEF GiveUp, Types, HostTypes
  <2>2. CASE script' = script
    BY <2>1, <2>2, SameRest DEF Unacknowledged
  <2>3. CASE script' \in {Tail(script), << >>} /\ outcome' = outcome
    BY <2>1, <2>3, TailRest
  <2> QED
    BY <2>1, <2>2, <2>3 DEF Unacknowledged
<1>7. ASSUME NEW j \in 0..Len(line), HearPart(j) PROVE RestInv'
  BY <1>7, SameRest DEF HearPart, hostVars
<1>8. CASE UNCHANGED vars
  BY <1>8, SameRest DEF vars, hostVars
<1> QED
  BY <1>1, <1>2, <1>3, <1>4, <1>5, <1>6, <1>7, <1>8 DEF Next

\* Each packet is sent in a wait of its own.
LEMMA PendingStep == Types /\ Pending /\ [Next]_vars => Pending'
<1> SUFFICES ASSUME Types, Pending, [Next]_vars PROVE Pending'
  OBVIOUS
<1>1. /\ line \in Seq(AnswerIn) /\ net \in Seq(PacketIn) /\ early \in Nat
      /\ waiting \in BOOLEAN /\ rxWhole \in 0..Len(line)
  BY DEF Types, WireTypes, HostTypes, BufferTypes
<1>2. ASSUME NEW d \in 0..Len(line), line' = SubSeq(line, d + 1, Len(line))
      PROVE Len(line') = Len(line) - d /\ Len(line) \in Nat /\ Len(net) \in Nat
  BY <1>1, <1>2
<1>3. CASE Execute
  <2>1. Len(line') = Len(line) + 1 /\ Len(net') = Len(net) - 1
        /\ UNCHANGED << early, waiting >> /\ Len(line) \in Nat /\ Len(net) \in Nat
    BY <1>1, <1>3 DEF Execute, hostVars, history
  <2> QED
    BY <2>1 DEF Pending
<1>4. CASE Lose
  <2>1. line' = line /\ Len(net') = Len(net) - 1
        /\ UNCHANGED << early, waiting >> /\ Len(line) \in Nat /\ Len(net) \in Nat
    BY <1>1, <1>4 DEF Lose, hostVars
  <2> QED
    BY <1>1, <2>1 DEF Pending
<1>5. CASE NextFile
  BY <1>5 DEF NextFile, Pending, history
<1>6. CASE Send
  <2>1. line' = line /\ Len(net') = Len(net) + 1 /\ early' = early
        /\ ~waiting /\ waiting' /\ Len(line) \in Nat /\ Len(net) \in Nat
    BY <1>1, <1>6 DEF Send, history
  <2> QED
    BY <1>1, <2>1 DEF Pending
<1>7. CASE HostHears
  <2>1. PICK j \in 0..Len(line) : Hear(j) \/ Overrun(j, TRUE) \/ Overrun(j, FALSE)
    BY <1>7 DEF HostHears
  <2>2. CASE Hear(j)
    <3>1. line' = SubSeq(line, j + 1, Len(line)) /\ net' = net /\ early' = early
          /\ waiting /\ waiting' = FALSE /\ j >= 1
      BY <2>2 DEF Hear, Dropped
    <3>2. Len(line') = Len(line) - j /\ Len(line) \in Nat /\ Len(net) \in Nat
      BY <1>2, <3>1
    <3> QED
      BY <1>1, <3>1, <3>2 DEF Pending
  <2>3. CASE Overrun(j, TRUE) \/ Overrun(j, FALSE)
    <3>1. line' = SubSeq(line, j + 1, Len(line)) /\ net' = net /\ UNCHANGED << early, waiting >>
      BY <2>3 DEF Overrun, Dropped, hostVars
    <3>2. Len(line') = Len(line) - j /\ Len(line) \in Nat /\ Len(net) \in Nat
      BY <1>2, <3>1
    <3> QED
      BY <1>1, <3>1, <3>2 DEF Pending
  <2> QED
    BY <2>1, <2>2, <2>3
<1>8. CASE GiveUp
  <2>1. line' = SubSeq(line, rxWhole + 1, Len(line)) /\ net' = net
        /\ waiting /\ waiting' = FALSE /\ ((Quiet /\ early' = early) \/ early' = early + 1)
    BY <1>8 DEF GiveUp, Dropped, Unacknowledged
  <2>2. Len(line') = Len(line) - rxWhole /\ Len(line) \in Nat /\ Len(net) \in Nat
    BY <1>1, <1>2, <2>1
  <2>3. Quiet => Len(line) = 0 /\ Len(net) = 0
    BY DEF Quiet
  <2>4. rxWhole \in Nat
    BY <1>1, <2>2
  <2>5. CASE Quiet /\ early' = early
    <3>1. Len(line') + Len(net') <= 0
      BY <2>1, <2>2, <2>3, <2>4, <2>5
    <3>2. Len(line') + Len(net') <= early' + 0
      BY <1>1, <2>1, <2>2, <2>3, <2>4, <2>5, <3>1
    <3> QED
      BY <2>1, <3>2 DEF Pending
  <2>6. CASE early' = early + 1
    BY <1>1, <2>1, <2>2, <2>4, <2>6 DEF Pending
  <2> QED
    BY <2>1, <2>5, <2>6
<1>9. ASSUME NEW j \in 0..Len(line), HearPart(j) PROVE Pending'
  BY <1>9 DEF HearPart, hostVars, history, Pending
<1>10. CASE UNCHANGED vars
  BY <1>10 DEF vars, hostVars, history, Pending
<1> QED
  BY <1>3, <1>4, <1>5, <1>6, <1>7, <1>8, <1>9, <1>10 DEF Next

-----------------------------------------------------------------------------
(* The steps of a session with late answers.                               *)

\* What a step that sends nothing does to the packets sent of a copy: nothing, or it
\* is the ping that will be sent again.
SentStays == SendsCopy => Sent' = Sent \/ Sent' \in {0, 1}

LEMMA SameSent ==
  ASSUME UNCHANGED << jobs, file, script, waiting >>
  PROVE  SentStays
BY DEF SentStays, Sent, Acked, Whole

LEMMA TailSent ==
  ASSUME Types, RestInv, UNCHANGED << jobs, file >>, waiting, waiting' = FALSE,
         script' = Tail(script)
  PROVE  SentStays
<1> SUFFICES ASSUME SendsCopy PROVE Sent' = Sent
  BY DEF SentStays
<1>1. PICK n : n = BodyLength(jobs[file].bytes)
  OBVIOUS
<1>2. n \in Nat /\ Len(Whole) = n + 3
  BY <1>1, WholeCopy DEF SendsCopy
<1>3. Len(script) \in Nat /\ Len(script') = Len(script) - 1
  BY HeadOf DEF Types, HostTypes
<1>4. Whole' = Whole
  BY DEF Whole
<1>5. Acked' = Acked + 1 /\ Acked \in Int
  <2>1. Acked = (n + 3) - Len(script)
    BY <1>2 DEF Acked
  <2>2. Acked' = (n + 3) - Len(script')
    BY <1>2, <1>4 DEF Acked
  <2> QED
    BY <1>2, <1>3, <2>1, <2>2
<1> QED
  BY <1>5 DEF Sent

LEMMA SameReached ==
  ASSUME jobs' = jobs
  PROVE  \A R, f, x : Reached(R, f, x)' <=> Reached(R, f, x)
BY DEF Reached, SectorsBefore, BlocksBefore, AllSectors, Sectors, HoldsBytes

LEMMA SameHolds ==
  ASSUME Types, UNCHANGED << jobs, file >>, SentStays
  PROVE  \A R : Holds(R) => Holds(R)'
<1>1. SendsCopy' = SendsCopy
  BY DEF SendsCopy
<1>2. \A R : HasCopies(R)' <=> HasCopies(R)
  BY DEF HasCopies, AllSectors, Sectors, HoldsBytes
<1> SUFFICES ASSUME NEW R, Holds(R), SendsCopy PROVE Reached(R, file, Sent')
  BY <1>1, <1>2, SameReached DEF Holds
<1>3. Reached(R, file, Sent)
  BY DEF Holds
<1>4. CASE Sent' \in {0, 1}
  <2>1. BodyLength(jobs[file].bytes) \in Nat
    BY WholeCopy DEF SendsCopy
  <2> QED
    BY <1>4, <2>1 DEF Reached
<1> QED
  BY <1>3, <1>4 DEF SentStays

\* Nothing was sent or executed.
LEMMA SameStores ==
  ASSUME Types, UNCHANGED << jobs, file, net, station >>, SentStays, StoreComes
  PROVE  StoreComes'
<1>1. StoreOf' = StoreOf /\ StoreType' = StoreType
  BY DEF StoreOf, StoreType
<1>2. \A Q, s, R : Leads(Q, s, R)' <=> Leads(Q, s, R)
  BY DEF Leads
<1> QED
  BY <1>1, <1>2, SameHolds DEF StoreComes

LEMMA SameFcb ==
  ASSUME Types, UNCHANGED << jobs, file, rxFcb >>, Owed' = Owed, SentStays, FcbComes
  PROVE  FcbComes'
<1>1. SendsCopy' = SendsCopy
  BY DEF SendsCopy
<1>2. CASE Sent' = Sent
  BY <1>1, <1>2 DEF FcbComes
<1>3. CASE Sent' \in {0, 1}
  BY <1>3 DEF FcbComes
<1> QED
  BY <1>1, <1>2, <1>3 DEF SentStays, FcbComes

\* Answers go, heard or not.
LEMMA DropFcb ==
  ASSUME Types, UNCHANGED << jobs, file, net >>, SentStays, FcbComes,
         NEW d \in 0..Len(line), line' = SubSeq(line, d + 1, Len(line)),
         \A i \in 1..d : line[i].cmd \in {"created", "written"} => rxFcb' = line[i].fcb,
         (\A i \in 1..Len(line) : line[i].cmd = "ack") => rxFcb' = rxFcb
  PROVE  FcbComes'
<1>1. SendsCopy' = SendsCopy
  BY DEF SendsCopy
<1>2. CASE SendsCopy /\ Sent' = Sent /\ Sent \in 2..(BodyLength(jobs[file].bytes) + 2)
  <2>1. BodyLength(jobs[file].bytes) \in Nat
    BY <1>2, WholeCopy DEF SendsCopy
  <2>2. PICK b : b = Sent - 1
    OBVIOUS
  <2>3. b \in Nat \ {0}
    BY <1>2, <2>1, <2>2
  <2>4. BodyIndex(b) \in Nat \ {0}
    <3>1. BodyIndex(b) \in 1..PerSector /\ PerSector \in Nat
      BY <2>3, Body
    <3> QED
      BY <3>1
  <2>5. PICK k, x : k = Len(Owed) - (BodyIndex(b) - 1) /\ x = Fcb(file, BodySector(b))
    OBVIOUS
  <2>6. Brings(Owed, rxFcb, k, x)
    BY <1>2, <2>2, <2>5 DEF FcbComes
  <2>7. Len(Owed) \in Nat /\ d \in Nat /\ d <= Len(Owed) /\ d <= Len(line)
        /\ \A i \in 1..Len(line) : Owed[i] = line[i] /\ i \in 1..Len(Owed)
    BY OwedTyped
  <2>8. k \in Int /\ k <= Len(Owed)
    BY <2>4, <2>5, <2>7
  <2>9. Len(Owed') = Len(Owed) - d /\ \A i \in 1..Len(Owed') : Owed'[i] = Owed[i + d]
    BY OwedDrop
  <2>10. k \in 1..d => rxFcb' = x
    <3> SUFFICES ASSUME k \in 1..d PROVE rxFcb' = x
      OBVIOUS
    <3>1. k > 0 /\ k \in 1..Len(line)
      BY <2>7
    <3>2. line[k].cmd \in {"created", "written"} /\ line[k].fcb = x
      BY <2>6, <2>7, <3>1 DEF Brings
    <3> QED
      BY <3>2
  <2>11. k <= 0 => rxFcb' = rxFcb
    <3> SUFFICES ASSUME k <= 0 PROVE \A i \in 1..Len(line) : line[i].cmd = "ack"
      OBVIOUS
    <3>1. \A i \in 1..Len(line) : i > k
      BY <2>8
    <3> QED
      BY <2>6, <2>7, <3>1 DEF Brings
  <2>12. Brings(Owed', rxFcb', k - d, x)
    BY <2>6, <2>7, <2>8, <2>9, <2>10, <2>11, BringsDrop
  <2>13. k - d = Len(Owed') - (BodyIndex(b) - 1)
    BY <2>4, <2>5, <2>7, <2>9
  <2> QED
    BY <1>1, <1>2, <2>2, <2>5, <2>12, <2>13 DEF FcbComes
<1>3. CASE Sent' \in {0, 1}
  BY <1>3 DEF FcbComes
<1>4. CASE SendsCopy /\ Sent' = Sent /\ Sent \notin 2..(BodyLength(jobs[file].bytes) + 2)
  BY <1>1, <1>4 DEF FcbComes
<1> QED
  BY <1>1, <1>2, <1>3, <1>4 DEF SentStays, FcbComes

LEMMA ExecuteLate ==
  ASSUME Types, FcbComes, StoreComes, Execute
  PROVE  FcbComes' /\ StoreComes'
<1>1. UNCHANGED << jobs, file, script, waiting, rxFcb >> /\ net # << >> /\ net' = Tail(net)
      /\ station' = Executed(Head(net))
  BY DEF Execute, hostVars
<1>2. SentStays
  BY <1>1, SameSent
<1>3. FcbComes'
  BY <1>1, <1>2, OwedExecute, SameFcb
<1>4. PICK R \in StoreType : Leads(StoreOf, net, R) /\ Holds(R)
  BY DEF StoreComes
<1>5. net \in Seq(PacketIn) /\ Head(net) \in PacketIn /\ station \in StationType
  BY <1>1, HeadOf DEF Types, WireTypes
<1>6. StoreOf' = Put(StoreOf, Head(net))
  BY <1>1, <1>5, ExecutedParts DEF StoreOf, Put
<1>7. Leads(Put(StoreOf, Head(net)), Tail(net), R)
  BY <1>1, <1>4, <1>5, LeadsHead
<1>8. \A Q, s : Leads(Q, s, R)' <=> Leads(Q, s, R)
  BY DEF Leads
<1>9. Leads(StoreOf, net, R)'
  BY <1>1, <1>6, <1>7, <1>8
<1>10. Holds(R)' /\ R \in StoreType'
  BY <1>1, <1>2, <1>4, SameHolds DEF StoreType
<1> QED
  BY <1>3, <1>9, <1>10 DEF StoreComes

LEMMA HearLate ==
  ASSUME Types, RestInv, FcbComes, StoreComes, NEW j \in 0..Len(line), Hear(j), ~unparsed'
  PROVE  FcbComes' /\ StoreComes'
<1>1. /\ UNCHANGED << jobs, file, net, station >> /\ waiting /\ waiting' = FALSE
      /\ script' = Tail(script) /\ j \in 1..Len(line)
      /\ line' = SubSeq(line, j + 1, Len(line)) /\ rxFcb' = Parsed(line[1])
      /\ ~Unparsed(SubSeq(line, 2, j)) /\ ~(rxCut /\ Unparsed(<< line[1] >>))
  BY DEF Hear, Dropped
<1>2. SentStays
  BY <1>1, TailSent
<1>3. line \in Seq(AnswerIn) /\ Len(line) \in Nat
  BY DEF Types, WireTypes
<1>4. ASSUME NEW i \in 1..j, line[i].cmd \in {"created", "written"} PROVE rxFcb' = line[i].fcb
  <2>1. i = 1
    <3> SUFFICES ASSUME i # 1 PROVE FALSE
      OBVIOUS
    <3>1. i - 1 \in 1..Len(SubSeq(line, 2, j)) /\ SubSeq(line, 2, j)[i - 1] = line[i]
      BY <1>1, <1>3
    <3>2. DOMAIN SubSeq(line, 2, j) = 1..Len(SubSeq(line, 2, j))
      BY <1>1, <1>3
    <3> QED
      BY <1>1, <1>4, <3>1, <3>2 DEF Unparsed
  <2>2. << line[1] >>[1] = line[1] /\ 1 \in DOMAIN << line[1] >>
    OBVIOUS
  <2>3. ~rxCut
    BY <1>1, <1>4, <2>1, <2>2 DEF Unparsed
  <2> QED
    BY <1>1, <1>4, <2>1, <2>3 DEF Parsed
<1>5. (\A i \in 1..Len(line) : line[i].cmd = "ack") => rxFcb' = rxFcb
  <2> SUFFICES ASSUME \A i \in 1..Len(line) : line[i].cmd = "ack" PROVE rxFcb' = rxFcb
    OBVIOUS
  <2>1. 1 \in 1..Len(line)
    BY <1>1, <1>3
  <2> QED
    BY <1>1, <2>1 DEF Parsed
<1>6. FcbComes'
  BY <1>1, <1>2, <1>4, <1>5, DropFcb
<1> QED
  BY <1>1, <1>2, <1>6, SameStores

\* Answers that are dropped without a look bring no FCB.
LEMMA DroppedFcb ==
  ASSUME line \in Seq(AnswerIn), NEW d \in 0..Len(line), NEW e \in 0..Len(line), d <= e,
         ~Unparsed(SubSeq(line, 1, e))
  PROVE  \A i \in 1..d : line[i].cmd \notin {"created", "written"}
<1>1. Len(line) \in Nat
  OBVIOUS
<1> DEFINE s == SubSeq(line, 1, e)
<1>2. DOMAIN s = 1..e /\ \A i \in 1..e : s[i] = line[i]
  BY <1>1
<1> HIDE DEF s
<1>3. \A i \in 1..d : i \in 1..e
  BY <1>1
<1>4. \A i \in DOMAIN s : s[i].cmd \notin {"created", "written"}
  BY DEF Unparsed, s
<1> QED
  BY <1>2, <1>3, <1>4

LEMMA OverrunLate ==
  ASSUME Types, FcbComes, StoreComes, NEW j \in 0..Len(line), NEW part \in BOOLEAN,
         Overrun(j, part), ~unparsed'
  PROVE  FcbComes' /\ StoreComes'
<1>1. /\ UNCHANGED << jobs, file, script, waiting, rxFcb, net, station >>
      /\ line' = SubSeq(line, j + 1, Len(line))
  BY DEF Overrun, Dropped, hostVars
<1>2. line \in Seq(AnswerIn) /\ Len(line) \in Nat
  BY DEF Types, WireTypes
<1>3. PICK e : e = IF part THEN j + 1 ELSE j
  OBVIOUS
<1>4. e \in 0..Len(line) /\ j <= e /\ ~Unparsed(SubSeq(line, 1, e))
  <2>1. e \in 1..Len(line) /\ j \in Nat
    BY <1>2, <1>3 DEF Overrun
  <2>2. unparsed' = (unparsed \/ Unparsed(SubSeq(line, 1, e)))
    BY <1>3 DEF Overrun
  <2>3. ~Unparsed(SubSeq(line, 1, e))
    BY <2>2
  <2>4. e = j \/ e = j + 1
    BY <1>3
  <2> QED
    BY <1>2, <2>1, <2>3, <2>4
<1>5. SentStays
  BY <1>1, SameSent
<1>6. FcbComes'
  BY <1>1, <1>2, <1>4, <1>5, DroppedFcb, DropFcb
<1> QED
  BY <1>1, <1>5, <1>6, SameStores

LEMMA GiveUpLate ==
  ASSUME Types, RestInv, FcbComes, StoreComes, GiveUp, Late'
  PROVE  FcbComes' /\ StoreComes'
<1>1. /\ UNCHANGED << jobs, file, rxFcb, net, station >> /\ waiting /\ waiting' = FALSE
      /\ line' = SubSeq(line, rxWhole + 1, Len(line)) /\ Unacknowledged(Head(script))
      /\ script # << >>
  BY DEF GiveUp, Dropped, Unacknowledged, Types, HostTypes
<1>2. line \in Seq(AnswerIn) /\ Len(line) \in Nat
      /\ rxWhole \in 0..Len(line) /\ (rxPart => rxWhole < Len(line))
  BY DEF Types, WireTypes, BufferTypes
<1>3. PICK e : e = rxWhole + (IF rxPart THEN 1 ELSE 0)
  OBVIOUS
<1>4. e \in 0..Len(line) /\ rxWhole <= e /\ ~Unparsed(SubSeq(line, 1, e))
  <2>1. unparsed' = (unparsed \/ Unparsed(SubSeq(line, 1, e)))
    BY <1>3 DEF GiveUp
  <2>2. ~Unparsed(SubSeq(line, 1, e))
    BY <2>1 DEF Late
  <2>3. e = rxWhole \/ (rxPart /\ e = rxWhole + 1)
    BY <1>2, <1>3
  <2> QED
    BY <1>2, <2>2, <2>3
<1>5. SentStays
  <2>1. CASE script' = Tail(script)
    BY <1>1, <2>1, TailSent
  <2>2. CASE Head(script).unacked \in {"again", "leave"}
    <3> SUFFICES ASSUME SendsCopy PROVE Sent' \in {0, 1}
      BY DEF SentStays
    <3>1. PICK n : n = BodyLength(jobs[file].bytes)
      OBVIOUS
    <3>2. Head(script).unacked = "again" /\ Acked = 0
      BY <1>1, <2>2, <3>1, CopyHead DEF RestInv
    <3>3. script' = script
      BY <1>1, <3>2 DEF Unacknowledged
    <3>4. Acked' = 0
      BY <1>1, <3>2, <3>3 DEF Acked, Whole
    <3> QED
      BY <1>1, <3>4 DEF Sent
  <2>3. outcome' # "exit"
    BY DEF Late
  <2> QED
    BY <1>1, <2>1, <2>2, <2>3 DEF Unacknowledged
<1>6. FcbComes'
  BY <1>1, <1>2, <1>4, <1>5, DroppedFcb, DropFcb
<1> QED
  BY <1>1, <1>5, <1>6, SameStores

\* The next packet of a copy: the FCB in a write is the one for its sector, because
\* the answer with it is older than the blocks of the sector.
LEMMA SendFcb ==
  ASSUME Types, RestInv, Pending, FcbComes, early <= SectorPackets, SendsCopy, Send,
         Head(script).cmd = "write", NEW b, b = Acked - 1
  PROVE  /\ b \in Nat \ {0} /\ Head(script) = BodyPacket(b)
         /\ Acked \in 2..(BodyLength(jobs[file].bytes) + 2)
         /\ BodyIndex(b) = PerSector /\ rxFcb = Fcb(file, BodySector(b))
<1>1. script # << >> /\ waiting = FALSE
  BY DEF Send, Types, HostTypes
<1>2. PICK n : n = BodyLength(jobs[file].bytes)
  OBVIOUS
<1>3. /\ n \in Nat /\ Acked \in Nat /\ Acked + 1 \in 1..(n + 3)
      /\ Acked + 1 = 1 => Head(script) = Ping
      /\ Acked + 1 = 2 => Head(script) = Packet("create", "exit")
      /\ Acked + 1 \in 3..(n + 2) =>
           Acked - 1 \in Nat \ {0} /\ Head(script) = BodyPacket(Acked - 1)
      /\ Acked + 1 = n + 3 => Head(script) = Packet("close", "exit")
  BY <1>1, <1>2, CopyHead DEF RestInv
<1>4. Acked + 1 # 1 /\ Acked + 1 # 2 /\ Acked + 1 # n + 3
  BY <1>3 DEF Ping, Packet
<1>5. Acked + 1 \in 3..(n + 2) /\ Acked \in 2..(n + 2)
  BY <1>3, <1>4
<1>6. b \in Nat \ {0} /\ Head(script) = BodyPacket(b)
  BY <1>3, <1>5
<1>7. /\ BodyIndex(b) \in 1..PerSector /\ PerSector = SectorPackets + 1
      /\ SectorPackets \in Nat \ {0}
      /\ BodyPacket(b) = SectorPacket(BodySector(b), BodyIndex(b))
  BY <1>6, Body, BlocksOfSector DEF PerSector
<1>8. BodyIndex(b) = PerSector
  <2> SUFFICES ASSUME BodyIndex(b) <= SectorPackets PROVE FALSE
    BY <1>7
  <2> QED
    BY <1>6, <1>7 DEF SectorPacket, DataPacket, Carrying
<1>9. rxFcb = Fcb(file, BodySector(b))
  <2>1. Sent = Acked
    BY <1>1, <1>3 DEF Sent
  <2>2. PICK k, x : k = Len(Owed) - (BodyIndex(b) - 1) /\ x = Fcb(file, BodySector(b))
    OBVIOUS
  <2>3. Brings(Owed, rxFcb, k, x)
    BY <1>2, <1>5, <2>1, <2>2 DEF FcbComes
  <2>4. Len(Owed) \in Nat /\ Len(Owed) <= early
    <3>1. Len(Owed) = Len(line) + Len(net) /\ Len(line) \in Nat /\ Len(net) \in Nat
          /\ early \in Nat
      BY OwedTyped DEF Types, HostTypes
    <3> QED
      BY <1>1, <3>1 DEF Pending
  <2>5. k <= 0
    <3>1. early \in Nat
      BY DEF Types, HostTypes
    <3> QED
      BY <1>7, <1>8, <2>2, <2>4, <3>1
  <2> QED
    BY <2>2, <2>3, <2>5 DEF Brings
<1> QED
  BY <1>2, <1>5, <1>6, <1>8, <1>9

LEMMA SendFcbComes ==
  ASSUME Types, RestInv, Pending, FcbComes, early <= SectorPackets, Send
  PROVE  FcbComes'
<1>1. /\ UNCHANGED << jobs, file, script, rxFcb, line >> /\ script # << >>
      /\ waiting = FALSE /\ waiting' = TRUE /\ net' = Append(net, Outgoing(Head(script)))
  BY DEF Send, Types, HostTypes
<1>2. SendsCopy' = SendsCopy /\ Acked' = Acked
  BY <1>1 DEF SendsCopy, Acked, Whole
<1> SUFFICES ASSUME SendsCopy PROVE FcbComes'
  BY <1>2 DEF FcbComes
<1> DEFINE p == Outgoing(Head(script))
<1>3. PICK n : n = BodyLength(jobs[file].bytes)
  OBVIOUS
<1>4. /\ n \in Nat /\ Acked \in Nat /\ Acked + 1 \in 1..(n + 3)
      /\ Acked + 1 = 2 => Head(script) = Packet("create", "exit")
      /\ Acked + 1 \in 3..(n + 2) =>
           Acked - 1 \in Nat \ {0} /\ Head(script) = BodyPacket(Acked - 1)
  BY <1>1, <1>3, CopyHead DEF RestInv
<1>5. Sent = Acked /\ Sent' = Acked + 1
  BY <1>1, <1>2, <1>4 DEF Sent
<1>6. p \in PacketIn
  BY <1>1, OutgoingTyped
<1>7. PICK o, u : o = Owed /\ u = Owed'
  OBVIOUS
<1>8. /\ Len(o) \in Nat /\ Len(u) = Len(o) + 1 /\ u[Len(o) + 1] = AnswerTo(p)
      /\ \A i \in 1..Len(o) : u[i] = o[i]
  <2>1. Len(Owed) \in Nat
    BY OwedTyped
  <2> QED
    BY <1>1, <1>6, <1>7, <2>1, OwedSend
<1>9. SUFFICES ASSUME Acked + 1 \in 2..(n + 2)
               PROVE  Brings(u, rxFcb, Len(u) - (BodyIndex(Acked) - 1),
                             Fcb(file, BodySector(Acked)))
  <2>1. Sent' - 1 = Acked
    BY <1>4, <1>5
  <2> QED
    BY <1>1, <1>3, <1>5, <1>7, <1>9, <2>1 DEF FcbComes
\* An answer with the FCB is the last one owed.
<1>10. ASSUME NEW x, u[Len(u)].cmd \in {"created", "written"}, u[Len(u)].fcb = x,
              BodyIndex(Acked) = 1
       PROVE  Brings(u, rxFcb, Len(u) - (BodyIndex(Acked) - 1), x)
  <2>1. Len(u) \in Nat \ {0} /\ Len(u) - (BodyIndex(Acked) - 1) = Len(u)
    BY <1>8, <1>10
  <2> QED
    BY <1>10, <2>1 DEF Brings
<1>11. CASE Acked + 1 = 2
  <2>1. Head(script).cmd = "create"
    BY <1>4, <1>11 DEF Packet
  <2>2. p.cmd = "create" /\ p.fcb = Fcb(file, 0)
    BY <2>1, OutgoingParts
  <2>3. AnswerTo(p) = Answer("created", Fcb(file, 0))
    BY <2>2 DEF AnswerTo, Fcb
  <2>4. Acked = 1
    BY <1>4, <1>11
  <2>5. u[Len(u)] = Answer("created", Fcb(file, 0))
    BY <1>8, <2>3
  <2> QED
    BY <1>10, <2>4, <2>5, BodyFirst DEF Answer
<1>12. CASE Acked + 1 \in 3..(n + 2)
  <2>1. PICK b \in Nat \ {0} : b = Acked - 1 /\ Acked = b + 1
    BY <1>4, <1>12
  <2>2. Head(script) = BodyPacket(b)
    BY <1>4, <1>12, <2>1
  <2>3. /\ BodySector(b) \in Nat /\ BodyIndex(b) \in 1..PerSector
        /\ BodyPacket(b) = SectorPacket(BodySector(b), BodyIndex(b))
        /\ PerSector = SectorPackets + 1 /\ SectorPackets \in Nat
    BY Body, BlocksOfSector DEF PerSector
  <2>4. CASE BodyIndex(b) <= SectorPackets
    <3>1. p.cmd \in {"data", "data2"}
      <4>1. Head(script).cmd \in {"data", "data2"}
        BY <2>2, <2>3, <2>4 DEF SectorPacket, DataPacket, Carrying
      <4> QED
        BY <4>1, OutgoingParts
    <3>2. AnswerTo(p).cmd = "ack"
      BY <3>1 DEF AnswerTo, Ack, Answer
    <3>3. BodySector(b + 1) = BodySector(b) /\ BodyIndex(b + 1) = BodyIndex(b) + 1
      BY <2>3, <2>4, BodyNext
    <3>4. PICK k, x : k = Len(o) - (BodyIndex(b) - 1) /\ x = Fcb(file, BodySector(b))
      OBVIOUS
    <3>5. Sent \in 2..(n + 2) /\ Sent - 1 = b
      BY <1>4, <1>5, <1>12, <2>1
    <3>6. Brings(o, rxFcb, k, x)
      BY <1>3, <1>7, <3>4, <3>5 DEF FcbComes
    <3>7. k \in Int /\ k <= Len(o)
      BY <1>8, <2>3, <3>4
    <3>8. Brings(u, rxFcb, k, x)
      BY <1>8, <3>2, <3>6, <3>7, BringsAck
    <3>9. k = Len(u) - (BodyIndex(b + 1) - 1) /\ x = Fcb(file, BodySector(b + 1))
      BY <1>8, <2>3, <3>3, <3>4
    <3> QED
      BY <2>1, <3>8, <3>9
  <2>5. CASE BodyIndex(b) = PerSector
    <3>1. ~(BodyIndex(b) <= SectorPackets)
      BY <2>3, <2>5
    <3>2. Head(script).cmd = "write"
      BY <2>2, <2>3, <3>1 DEF SectorPacket, Carrying
    <3>3. rxFcb = Fcb(file, BodySector(b))
      BY <2>1, <3>2, SendFcb
    <3>4. p.cmd = "write" /\ p.fcb = Fcb(file, BodySector(b))
      BY <3>2, <3>3, OutgoingParts
    <3>5. AnswerTo(p) = Answer("written", Fcb(file, BodySector(b) + 1))
      BY <3>4 DEF AnswerTo, Fcb
    <3>6. BodySector(b + 1) = BodySector(b) + 1 /\ BodyIndex(b + 1) = 1
      BY <2>5, BodyNext
    <3>7. u[Len(u)] = Answer("written", Fcb(file, BodySector(b + 1)))
      BY <1>8, <3>5, <3>6
    <3> QED
      BY <1>10, <2>1, <3>6, <3>7 DEF Answer
  <2> QED
    BY <2>3, <2>4, <2>5
<1> QED
  BY <1>4, <1>9, <1>11, <1>12

\* Packets that leave the copies before this file alone.
LEMMA PutElsewhere ==
  ASSUME NEW R \in StoreType, NEW p, NEW g,
         p.cmd \in {"create", "write"} => p.fcb.file # g, g \in 0..Len(jobs)
  PROVE  Put(R, p).disk[g] = R.disk[g]
<1>1. R.disk \in [0..Len(jobs) -> Seq(Seq(BlockType))]
  BY DEF StoreType
<1> QED
  BY <1>1 DEF Put, Disked

LEMMA SendReached ==
  ASSUME Types, RestInv, Pending, FcbComes, early <= SectorPackets, Send, SendsCopy,
         NEW R \in StoreType, Reached(R, file, Sent)
  PROVE  LET p == Outgoing(Head(script)) IN
         /\ p.cmd \in {"create", "write"} => p.fcb.file = file
         /\ Reached(Put(R, p), file, Sent + 1)
<1>1. script # << >> /\ waiting = FALSE
  BY DEF Send, Types, HostTypes
<1>0. PICK n, f : n = BodyLength(jobs[file].bytes) /\ f = file
  OBVIOUS
<1> DEFINE p == Outgoing(Head(script))
<1>2. /\ n \in Nat /\ Acked \in Nat /\ Acked + 1 \in 1..(n + 3)
      /\ Acked + 1 = 1 => Head(script) = Ping
      /\ Acked + 1 = 2 => Head(script) = Packet("create", "exit")
      /\ Acked + 1 \in 3..(n + 2) =>
           Acked - 1 \in Nat \ {0} /\ Head(script) = BodyPacket(Acked - 1)
      /\ Acked + 1 = n + 3 => Head(script) = Packet("close", "exit")
  BY <1>0, <1>1, CopyHead DEF RestInv
<1>3. Sent = Acked
  BY <1>1, <1>2 DEF Sent
<1>4. p.cmd = Head(script).cmd /\ Block(p) = Block(Head(script))
      /\ (p.cmd = "create" => p.fcb = Fcb(f, 0))
  BY <1>0, OutgoingParts
<1>5. p.cmd = "write" => p.fcb = Fcb(f, BodySector(Acked - 1))
  BY <1>0, <1>4, SendFcb, OutgoingParts
<1>6. p.cmd \in {"create", "write"} => p.fcb.file = file
  BY <1>0, <1>4, <1>5 DEF Fcb
<1>7. /\ R.disk \in [0..Len(jobs) -> Seq(Seq(BlockType))] /\ R.buffer \in Seq(BlockType)
      /\ f \in 0..Len(jobs) /\ R.disk[f] \in Seq(Seq(BlockType)) /\ f \in 1..Len(jobs)
  BY <1>0, WholeCopy DEF StoreType, SendsCopy
<1>8. /\ Put(R, p).disk = Disked(R.disk, R.buffer, p)
      /\ Put(R, p).buffer = Buffered(R.buffer, p)
  BY DEF Put
<1> HIDE DEF p
<1>9. Reached(Put(R, p), f, Acked + 1)
  <2>1. CASE Acked + 1 = 1
    <3>1. ~(Acked + 1 \in 2..(n + 2)) /\ Acked + 1 # n + 3
      BY <1>2, <2>1
    <3> QED
      BY <1>0, <3>1 DEF Reached
  <2>2. CASE Acked + 1 = 2
    <3>1. p.cmd = "create" /\ p.fcb.file = f
      BY <1>2, <1>4, <2>2 DEF Packet, Fcb
    <3>2. Put(R, p).disk[f] = << >>
      BY <1>7, <1>8, <3>1 DEF Disked
    <3>3. SectorsBefore(Put(R, p).disk[f], 1) /\ BlocksBefore(Put(R, p).buffer, 1)
      BY <3>2, BodyFirst DEF SectorsBefore, BlocksBefore
    <3>4. Acked + 1 # n + 3 /\ (Acked + 1) - 1 = 1
      BY <1>2, <2>2
    <3> QED
      BY <1>0, <3>3, <3>4 DEF Reached
  <2>3. CASE Acked + 1 \in 3..(n + 2)
    <3>1. PICK b \in Nat \ {0} : b = Acked - 1 /\ Acked = b + 1
      BY <1>2, <2>3
    <3>2. Head(script) = BodyPacket(b) /\ Sent \in 2..(n + 2) /\ Sent - 1 = b
      BY <1>2, <1>3, <2>3, <3>1
    <3>3. SectorsBefore(R.disk[f], b) /\ BlocksBefore(R.buffer, b)
      BY <1>0, <3>2 DEF Reached
    <3>4. p.cmd # "create"
      <4>1. BodyPacket(b) = SectorPacket(BodySector(b), BodyIndex(b))
        BY Body
      <4> QED
        BY <1>4, <3>2, <4>1 DEF SectorPacket, DataPacket, Carrying
    <3>5. p.cmd = "write" => p.fcb.file = f /\ p.fcb.rec = BodySector(b)
      BY <1>5, <3>1 DEF Fcb
    <3>6. Put(R, p).disk[f] = Sectored(R.disk[f], R.buffer, p)
      BY <1>7, <1>8, <3>4, <3>5 DEF Disked, Sectored
    <3>7. SectorsBefore(Sectored(R.disk[f], R.buffer, p), b + 1)
          /\ BlocksBefore(Buffered(R.buffer, p), b + 1)
      BY <1>4, <1>7, <3>2, <3>3, <3>5, BodyStored
    <3>8. (Acked + 1) - 1 = b + 1 /\ Acked + 1 # n + 3
      BY <1>2, <2>3, <3>1
    <3> QED
      BY <1>0, <1>8, <3>6, <3>7, <3>8 DEF Reached
  <2>4. CASE Acked + 1 = n + 3
    <3>1. Sent \in 2..(n + 2) /\ Sent - 1 = n + 1
      BY <1>2, <1>3, <2>4
    <3>2. SectorsBefore(R.disk[f], n + 1)
      BY <1>0, <3>1 DEF Reached
    <3>3. BodySector(n + 1) = Sectors(f)
      BY <1>0, WholeCopy, BodyLast DEF Sectors, SendsCopy
    <3>4. p.cmd = "close"
      BY <1>2, <1>4, <2>4 DEF Packet
    <3>5. Put(R, p).disk = R.disk
      BY <1>8, <3>4 DEF Disked
    <3>6. AllSectors(Put(R, p).disk[f], f)
      BY <3>2, <3>3, <3>5 DEF SectorsBefore, AllSectors
    <3>7. ~(Acked + 1 \in 2..(n + 2))
      BY <1>2, <2>4
    <3> QED
      BY <1>0, <3>6, <3>7 DEF Reached
  <2> QED
    BY <1>2, <2>1, <2>2, <2>3, <2>4
<1> QED
  BY <1>0, <1>3, <1>6, <1>9 DEF p

LEMMA SendLate ==
  ASSUME Types, RestInv, Pending, FcbComes, StoreComes, early <= SectorPackets, Send
  PROVE  FcbComes' /\ StoreComes'
<1>1. /\ UNCHANGED << jobs, file, script, rxFcb, station >> /\ script # << >>
      /\ waiting = FALSE /\ waiting' = TRUE /\ net' = Append(net, Outgoing(Head(script)))
      /\ file \in 0..Len(jobs) /\ jobs \in Seq(Jobs) /\ file > 0
  <2>1. script # << >> /\ file \in 0..Len(jobs) /\ jobs \in Seq(Jobs)
    BY DEF Send, Types, HostTypes
  <2>2. file > 0
    BY <2>1 DEF RestInv
  <2> QED
    BY <2>1, <2>2 DEF Send, Types, HostTypes
<1> DEFINE p == Outgoing(Head(script))
<1>2. PICK R \in StoreType : Leads(StoreOf, net, R) /\ Holds(R)
  BY DEF StoreComes
<1>3. p \in PacketIn /\ net \in Seq(PacketIn)
  BY <1>1, OutgoingTyped DEF Types, WireTypes
<1>4. SendsCopy' = SendsCopy /\ Acked' = Acked
  BY <1>1 DEF SendsCopy, Acked, Whole
<1>5. SendsCopy => Sent' = Sent + 1
  <2> SUFFICES ASSUME SendsCopy PROVE Sent' = Sent + 1
    OBVIOUS
  <2>1. Acked \in Nat
    BY <1>1, NextOfCopy DEF SendsCopy, RestInv
  <2> QED
    BY <1>1, <1>4, <2>1 DEF Sent
<1>6. p.cmd \in {"create", "write"} => p.fcb.file = file
  <2>1. CASE SendsCopy
    BY <1>2, <2>1, SendReached DEF Holds
  <2>2. CASE ~SendsCopy
    <3>1. Head(script) \in ProgType
      BY <1>1, <2>2, HeadOf DEF RestInv
    <3>2. p.cmd \in ProgCommands
      BY <3>1, OutgoingParts DEF ProgType
    <3> QED
      BY <3>2 DEF ProgCommands
  <2> QED
    BY <2>1, <2>2
<1>7. SendsCopy => Reached(Put(R, p), file, Sent + 1)
  BY <1>2, SendReached DEF Holds
<1>8. ASSUME NEW g \in 1..Len(jobs), jobs[g].kind = "copy", g < file
      PROVE  AllSectors(Put(R, p).disk[g], g)
  <2>1. g \in 0..Len(jobs) /\ g # file
    BY <1>1, <1>8
  <2>2. Put(R, p).disk[g] = R.disk[g]
    BY <1>6, <2>1, PutElsewhere
  <2> QED
    BY <1>2, <1>8, <2>2 DEF Holds, HasCopies
<1>0. PICK S : S = Put(R, p)
  OBVIOUS
<1>9. S \in StoreType /\ Leads(StoreOf, Append(net, p), S)
  BY <1>0, <1>1, <1>2, <1>3, PutTyped, LeadsAppend
<1>10. (SendsCopy => Reached(S, file, Sent + 1)) /\ HasCopies(S)
  BY <1>0, <1>7, <1>8 DEF HasCopies
<1>11. HasCopies(S)'
  BY <1>1, <1>10 DEF HasCopies, AllSectors, Sectors, HoldsBytes
<1>12. (SendsCopy => Reached(S, file, Sent))'
  BY <1>1, <1>4, <1>5, <1>10, SameReached
<1>13. StoreOf' = StoreOf /\ StoreType' = StoreType
  BY <1>1 DEF StoreOf, StoreType
<1>14. \A Q, s : Leads(Q, s, S)' <=> Leads(Q, s, S)
  BY DEF Leads
<1>15. Leads(StoreOf, net, S)'
  BY <1>1, <1>9, <1>13, <1>14
<1>16. Holds(S)'
  BY <1>11, <1>12 DEF Holds
<1>17. StoreComes'
  BY <1>9, <1>13, <1>15, <1>16 DEF StoreComes
<1> QED
  BY <1>17, SendFcbComes

\* A copy that ends has sent all its packets.
LEMMA NextFileLate ==
  ASSUME Types, RestInv, FcbComes, StoreComes, NextFile
  PROVE  FcbComes' /\ StoreComes'
<1>1. /\ UNCHANGED << jobs, waiting, rxFcb, net, line, station >> /\ script = << >>
      /\ waiting = FALSE /\ jobs \in Seq(Jobs) /\ file \in 0..Len(jobs)
  BY DEF NextFile, Types, HostTypes
<1>2. CASE file = Len(jobs)
  <2>1. UNCHANGED << jobs, file, script, waiting >>
    BY <1>1, <1>2 DEF NextFile
  <2>2. SentStays
    BY <2>1, SameSent
  <2>3. Owed' = Owed
    BY <1>1 DEF Owed, AnswerTo, Answer, Fcb, Ack, NoFcb
  <2> QED
    BY <1>1, <2>1, <2>2, <2>3, SameFcb, SameStores
<1>3. CASE file # Len(jobs)
  <2>1. PICK f : f = file + 1
    OBVIOUS
  <2>2. file' = f /\ script' = ScriptOf(jobs[f])
    BY <1>3, <2>1 DEF NextFile
  <2>3. f \in 1..Len(jobs) /\ jobs[f] \in Jobs /\ file \in Nat
    BY <1>1, <1>3, <2>1
  <2>4. Sent' = 0
    <3>1. Len(script') \in Nat
      BY <2>2, <2>3, ScriptTyped
    <3>2. Whole' = script'
      BY <1>1, <2>2 DEF Whole
    <3>3. Acked' = 0
      BY <3>1, <3>2 DEF Acked
    <3> QED
      BY <1>1, <3>3 DEF Sent
  <2>5. FcbComes'
    BY <2>4 DEF FcbComes
  <2>6. PICK R \in StoreType : Leads(StoreOf, net, R) /\ Holds(R)
    BY DEF StoreComes
  <2>7. ASSUME NEW g \in 1..Len(jobs), jobs[g].kind = "copy", g < f
        PROVE  AllSectors(R.disk[g], g)
    <3>1. CASE g < file
      BY <2>6, <2>7, <3>1 DEF Holds, HasCopies
    <3>2. CASE g = file
      <4>1. SendsCopy
        BY <2>3, <2>7, <3>2 DEF SendsCopy
      <4>2. PICK n : n = BodyLength(jobs[file].bytes)
        OBVIOUS
      <4>3. n \in Nat /\ Len(Whole) = n + 3
        BY <4>1, <4>2, WholeCopy DEF SendsCopy
      <4>4. Sent = n + 3
        <5>1. Len(script) = 0
          BY <1>1
        <5>2. Acked = n + 3
          BY <4>3, <5>1 DEF Acked
        <5> QED
          BY <1>1, <4>3, <5>2 DEF Sent
      <4>5. Reached(R, file, n + 3)
        BY <2>6, <4>1, <4>4 DEF Holds
      <4> QED
        BY <3>2, <4>2, <4>5 DEF Reached
    <3> QED
      BY <2>1, <2>3, <2>7, <3>1, <3>2
  <2>8. HasCopies(R)'
    BY <1>1, <2>2, <2>7 DEF HasCopies, AllSectors, Sectors, HoldsBytes
  <2>9. (SendsCopy => Reached(R, file, Sent))'
    <3> SUFFICES ASSUME SendsCopy' PROVE Reached(R, f, 0)'
      BY <2>2, <2>4, SameReached, <1>1
    <3>1. jobs[f].kind = "copy"
      BY <1>1, <2>2 DEF SendsCopy
    <3>2. BodyLength(jobs[f].bytes) \in Nat
      BY <2>3, CopyTyped DEF Jobs
    <3>3. Reached(R, f, 0)
      BY <3>2 DEF Reached
    <3> QED
      BY <1>1, <3>3, SameReached
  <2>10. StoreOf' = StoreOf /\ StoreType' = StoreType
         /\ \A Q, s : Leads(Q, s, R)' <=> Leads(Q, s, R)
    BY <1>1 DEF StoreOf, StoreType, Leads
  <2>11. Leads(StoreOf, net, R)'
    BY <1>1, <2>6, <2>10
  <2>12. Holds(R)' /\ R \in StoreType'
    BY <2>6, <2>8, <2>9, <2>10 DEF Holds
  <2>13. StoreComes'
    BY <2>11, <2>12 DEF StoreComes
  <2> QED
    BY <2>5, <2>13
<1> QED
  BY <1>2, <1>3

\* A step that leaves what counts alone.
LEMMA UnchangedLate ==
  ASSUME Types, FcbComes, StoreComes,
         UNCHANGED << jobs, file, script, waiting, rxFcb, net, line, station >>
  PROVE  FcbComes' /\ StoreComes'
<1>1. SentStays
  BY SameSent
<1>2. Owed' = Owed
  BY DEF Owed, AnswerTo, Answer, Fcb, Ack, NoFcb
<1> QED
  BY <1>1, <1>2, SameFcb, SameStores

LEMMA LateStart == Init => LateInv
<1> SUFFICES ASSUME Init PROVE LateInv
  OBVIOUS
<1>1. /\ file = 0 /\ net = << >> /\ line = << >> /\ early = 0 /\ waiting = FALSE
      /\ jobs \in Seq(Jobs)
  BY PacketAssumption DEF Init
<1>2. Pending
  BY <1>1 DEF Pending
<1>3. ~SendsCopy
  BY <1>1 DEF SendsCopy
<1>4. FcbComes
  BY <1>3 DEF FcbComes
<1>5. StoreOf \in StoreType
  <2>1. station \in StationType
    BY TypesInit DEF Types
  <2> QED
    BY <2>1 DEF StoreOf, StoreType, StationType
<1>6. Holds(StoreOf)
  BY <1>1, <1>3 DEF Holds, HasCopies
<1>7. Leads(StoreOf, net, StoreOf)
  BY <1>1, LeadsNone
<1> QED
  BY <1>2, <1>4, <1>5, <1>6, <1>7, RestStart DEF LateInv, StoreComes

LEMMA LateStep == Types /\ LateInv /\ [Next]_vars => LateInv'
<1> SUFFICES ASSUME Types, LateInv, [Next]_vars, Late' PROVE FcbComes' /\ StoreComes'
  BY RestStep, PendingStep DEF LateInv
<1>1. early \in Nat /\ SectorPackets \in Nat /\ RestInv /\ Pending
  BY BlocksOfSector DEF Types, HostTypes, LateInv
\* Late is not left and entered again.
<1>2. ASSUME UNCHANGED << outcome, early, lost >>, unparsed => unparsed'
      PROVE  FcbComes /\ StoreComes /\ early <= SectorPackets
  BY <1>2 DEF Late, LateInv
<1>3. CASE Execute
  <2>1. UNCHANGED << outcome, early, lost, unparsed >>
    BY <1>3 DEF Execute, hostVars, history
  <2> QED
    BY <1>2, <1>3, <2>1, ExecuteLate
<1>4. CASE Lose
  <2>1. lost' = Append(lost, Head(net)) /\ lost \in Seq(PacketIn) /\ Head(net) \in PacketIn
    BY <1>4, HeadOf DEF Lose, Types, WireTypes
  <2>2. lost' # << >>
    BY <2>1
  <2> QED
    BY <2>2 DEF Late
<1>5. CASE NextFile
  <2>1. UNCHANGED << early, lost, unparsed >> /\ outcome = "none"
    BY <1>5 DEF NextFile, history
  <2>2. FcbComes /\ StoreComes
    BY <2>1 DEF Late, LateInv
  <2> QED
    BY <1>1, <1>5, <2>2, NextFileLate
<1>6. CASE Send
  <2>1. UNCHANGED << outcome, early, lost, unparsed >>
    BY <1>6 DEF Send, history
  <2> QED
    BY <1>1, <1>2, <1>6, <2>1, SendLate
<1>7. CASE HostHears
  <2>1. PICK j \in 0..Len(line) : Hear(j) \/ Overrun(j, TRUE) \/ Overrun(j, FALSE)
    BY <1>7 DEF HostHears
  <2>2. ~unparsed'
    BY DEF Late
  <2>3. CASE Hear(j)
    <3>1. UNCHANGED << outcome, early, lost >> /\ (unparsed => unparsed')
      BY <2>3 DEF Hear
    <3> QED
      BY <1>1, <1>2, <2>2, <2>3, <3>1, HearLate
  <2>4. ASSUME NEW part \in BOOLEAN, Overrun(j, part) PROVE FcbComes' /\ StoreComes'
    <3>1. UNCHANGED << outcome, early, lost >> /\ (unparsed => unparsed')
      BY <2>4 DEF Overrun, hostVars
    <3> QED
      BY <1>2, <2>2, <2>4, <3>1, OverrunLate
  <2> QED
    BY <2>1, <2>3, <2>4
<1>8. CASE GiveUp
  <2>1. lost' = lost /\ (unparsed => unparsed') /\ outcome = "none"
    BY <1>8 DEF GiveUp, Types, HostTypes
  <2>2. early' = early \/ early' = early + 1
    BY <1>8 DEF GiveUp
  <2>3. early <= SectorPackets
    BY <1>1, <2>2 DEF Late
  <2>4. FcbComes /\ StoreComes
    BY <2>1, <2>3 DEF Late, LateInv
  <2> QED
    BY <1>1, <1>8, <2>4, GiveUpLate
<1>9. ASSUME NEW j \in 0..Len(line), HearPart(j) PROVE FcbComes' /\ StoreComes'
  <2>1. UNCHANGED << jobs, file, script, waiting, rxFcb, net, line, station >>
        /\ UNCHANGED << outcome, early, lost, unparsed >>
    BY <1>9 DEF HearPart, hostVars, history
  <2> QED
    BY <1>2, <2>1, UnchangedLate
<1>10. CASE UNCHANGED vars
  <2>1. UNCHANGED << jobs, file, script, waiting, rxFcb, net, line, station >>
        /\ UNCHANGED << outcome, early, lost, unparsed >>
    BY <1>10 DEF vars, hostVars, history
  <2> QED
    BY <1>2, <2>1, UnchangedLate
<1> QED
  BY <1>3, <1>4, <1>5, <1>6, <1>7, <1>8, <1>9, <1>10 DEF Next

\* ParsedAnswersInTime: copies have the right contents although up to as many waits
\* ended early as a sector has blocks, as long as every FCB that came was the first
\* thing in the buffer of its wait (SendPacket looks at no acknowledgement of
\* NET_MASTER_DATA, CheckPacket at the beginning of the buffer, and GetNetFCB takes
\* what the latest parsed answer brought).
THEOREM LateAnswersComeInTime == Spec => []ParsedAnswersInTime
<1>1. Types /\ LateInv => ParsedAnswersInTime
  <2> SUFFICES ASSUME Types, LateInv, outcome = "done", net = << >>,
                      early <= SectorPackets, lost = << >>, ~unparsed,
                      NEW f \in 1..Len(jobs), jobs[f].kind = "copy"
               PROVE  SectorsOf(f)
    BY DEF ParsedAnswersInTime
  <2>1. StoreComes /\ RestInv
    BY DEF LateInv, Late
  <2>2. PICK R : R = StoreOf /\ Holds(R)
    BY <2>1, LeadsNone DEF StoreComes
  <2>3. file = Len(jobs) /\ script = << >> /\ waiting = FALSE /\ jobs \in Seq(Jobs)
    BY <2>1 DEF RestInv, Types, HostTypes
  <2>4. AllSectors(R.disk[f], f)
    <3>1. CASE f < file
      BY <2>2, <3>1 DEF Holds, HasCopies
    <3>2. CASE f = file
      <4>1. SendsCopy
        BY <2>3, <3>2 DEF SendsCopy
      <4>2. PICK n : n = BodyLength(jobs[file].bytes)
        OBVIOUS
      <4>3. n \in Nat /\ Len(Whole) = n + 3
        BY <4>1, <4>2, WholeCopy DEF SendsCopy
      <4>4. Sent = n + 3
        <5>1. Len(script) = 0
          BY <2>3
        <5>2. Acked = n + 3
          BY <4>3, <5>1 DEF Acked
        <5> QED
          BY <2>3, <4>3, <5>2 DEF Sent
      <4>5. Reached(R, file, n + 3)
        BY <2>2, <4>1, <4>4 DEF Holds
      <4> QED
        BY <3>2, <4>2, <4>5 DEF Reached
    <3> QED
      BY <2>3, <3>1, <3>2
  <2> QED
    BY <2>2, <2>4 DEF StoreOf, AllSectors, SectorsOf, Sectors
<1> QED
  BY LateStart, LateStep, TypesOfLink, <1>1, PTL DEF Spec
=============================================================================
