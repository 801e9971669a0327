--------------------------- MODULE SpyLinkProofs ---------------------------
(***************************************************************************)
(* Proofs about SpyLink that need nothing of the timing and nothing of the *)
(* formats: the two sides may misunderstand each other as they can.        *)
(***************************************************************************)
EXTENDS SpyLink, SequenceTheorems, TLAPS

-----------------------------------------------------------------------------
(* The format tables.                                                      *)

\* The pieces that the formats are built from are sequences of payload kinds.
LEMMA PieceTypes ==
  /\ BYTE \in Seq(Payload) /\ WORD \in Seq(Payload)
  /\ FCB \in Seq(Payload) /\ DMA \in Seq(Payload) /\ DebugBlock \in Seq(Payload)
  /\ << >> \in Seq(Payload) /\ << "one" >> \in Seq(Payload)
<1>1. /\ BYTE \in Seq(Payload) /\ FCB \in Seq(Payload) /\ DMA \in Seq(Payload)
      /\ << >> \in Seq(Payload) /\ << "one" >> \in Seq(Payload)
  BY DEF BYTE, FCB, DMA, Payload, DataKinds, ChunkKinds
<1>2. \A s, t \in Seq(Payload) : s \o t \in Seq(Payload)
  BY ConcatProperties
<1>3. WORD \in Seq(Payload)
  BY <1>1, <1>2 DEF WORD
<1>4. DebugBlock \in Seq(Payload)
  BY <1>2, <1>3 DEF DebugBlock
<1> QED
  BY <1>1, <1>3, <1>4

\* Every row of the four tables is a sequence of payload kinds.
LEMMA FormatTypes ==
  ASSUME NEW f \in Codes
  PROVE  /\ Sent[f] \in Seq(Payload) /\ Wanted[f] \in Seq(Payload)
         /\ Expected[f] \in Seq(Payload) /\ Reply[f] \in Seq(Payload)
<1>1. \A s, t \in Seq(Payload) : s \o t \in Seq(Payload)
  BY ConcatProperties
<1>2. Sent[f] \in Seq(Payload)
  <2>1. /\ FCB \o DMA \in Seq(Payload) /\ DebugBlock \o FCB \in Seq(Payload)
        /\ DebugBlock \o WORD \o FCB \in Seq(Payload)
        /\ BYTE \o BYTE \o BYTE \o BYTE \in Seq(Payload)
    BY <1>1, PieceTypes
  <2> QED
    BY <2>1, PieceTypes DEF Sent
<1>3. /\ DMA \o BYTE \in Seq(Payload) /\ FCB \o BYTE \in Seq(Payload)
      /\ DMA \o FCB \o BYTE \in Seq(Payload)
      /\ WORD \o DMA \o FCB \o BYTE \in Seq(Payload)
  BY <1>1, PieceTypes
<1>4. Wanted[f] \in Seq(Payload)
  BY <1>3, PieceTypes DEF Wanted, Codes
<1>5. Reply[f] \in Seq(Payload)
  BY <1>3, PieceTypes DEF Reply, Codes
<1>6. Expected[f] \in Seq(Payload)
  <2>1. /\ FCB \o DMA \in Seq(Payload) /\ DMA \o FCB \in Seq(Payload)
        /\ WORD \o DMA \o FCB \in Seq(Payload)
        /\ WORD \o BYTE \o BYTE \in Seq(Payload)
        /\ WORD \o BYTE \o BYTE \o DMA \in Seq(Payload)
    BY <1>1, PieceTypes
  <2>2. WORD \o WORD \o WORD \o WORD \o WORD \o WORD \o FCB \in Seq(Payload)
    BY <1>1, PieceTypes
  <2>3. WORD \o WORD \o WORD \o WORD \o WORD \o WORD \o WORD \o FCB \in Seq(Payload)
    BY <1>1, PieceTypes
  <2> QED
    BY <2>1, <2>2, <2>3, PieceTypes DEF Expected
<1> QED
  BY <1>2, <1>4, <1>5, <1>6

-----------------------------------------------------------------------------
(* The line.                                                               *)

\* What the two sides put on the line is made of units.
LEMMA UnitTypes ==
  ASSUME NEW c \in Nat
  PROVE  /\ \A k \in Kinds : Unit(k, c) \in Units
         /\ \A f \in Codes : CodeUnit(f, c) \in Units
         /\ \A s \in Seq(Payload) : UnitsOf(s, c) \in Seq(Units)
<1>1. \A k \in Kinds : Unit(k, c) \in Units
  BY DEF Unit, Units
<1>2. \A f \in Codes : CodeUnit(f, c) \in Units
  BY DEF CodeUnit, Units, Kinds
<1>3. ASSUME NEW s \in Seq(Payload)
      PROVE  UnitsOf(s, c) \in Seq(Units)
  <2>1. \A i \in 1..Len(s) : Unit(s[i], c) \in Units
    BY <1>1, ElementOfSeq DEF Kinds
  <2>2. UnitsOf(s, c) \in [1..Len(s) -> Units]
    BY <2>1 DEF UnitsOf
  <2> QED
    BY <2>2
<1> QED
  BY <1>1, <1>2, <1>3

\* Reading and arriving leave a channel a sequence of units.
LEMMA ChannelTypes ==
  ASSUME NEW ch \in Seq(Units)
  PROVE  /\ \A u \in Units : Append(ch, u) \in Seq(Units)
         /\ \A u \in Units : Arrive(ch, u) \in Seq(Units)
         /\ ch # << >> => /\ Head(ch) \in Units /\ Tail(ch) \in Seq(Units)
                          /\ \A rest \in OneByteRead(ch) : rest \in Seq(Units)
<1>1. \A u \in Units : Append(ch, u) \in Seq(Units)
  OBVIOUS
<1>2. \A u \in Units : Arrive(ch, u) \in Seq(Units)
  BY <1>1 DEF Arrive
<1>3. ASSUME ch # << >>
      PROVE  Head(ch) \in Units /\ Tail(ch) \in Seq(Units)
  BY <1>3
<1>4. ASSUME ch # << >>, NEW rest \in OneByteRead(ch)
      PROVE  rest \in Seq(Units)
  <2>1. Unit("scrap", 0) \in Units
    BY UnitTypes DEF Kinds, Payload, DataKinds, ChunkKinds
  <2>2. << Unit("scrap", 0) >> \o Tail(ch) \in Seq(Units)
    BY <1>3, <1>4, <2>1, ConcatProperties
  <2> QED
    BY <1>3, <1>4, <2>2 DEF OneByteRead
<1> QED
  BY <1>1, <1>2, <1>3, <1>4

\* What is left when the completing read() is discarded is a channel.
LEMMA SuffixTypes ==
  ASSUME NEW ch \in Seq(Units), NEW rest \in Suffixes(ch)
  PROVE  rest \in Seq(Units)
<1>1. PICK i \in 1..(Len(ch) + 1) : rest = SubSeq(ch, i, Len(ch))
  BY DEF Suffixes
<1>2. \A j \in i..Len(ch) : ch[j] \in Units
  BY ElementOfSeq
<1> QED
  BY <1>1, <1>2, SubSeqProperties

-----------------------------------------------------------------------------
(* Type correctness.                                                       *)

LEMMA TypeInit == Init => TypeOK
<1> SUFFICES ASSUME Init PROVE TypeOK
  OBVIOUS
<1>1. hReq \in Requests
  BY DEF Init, NoReq, Requests
<1>2. restarts \in 0..MaxRestarts
  BY LinkAssumption DEF Init
<1>3. /\ hWant \in Seq(Payload) /\ hTx \in Seq(Units)
      /\ wTx \in Seq(Payload) /\ wWant \in Seq(Payload)
      /\ up \in Seq(Units) /\ dn \in Seq(Units)
      /\ asked \in Seq(Funcs) /\ served \in Seq(Requests)
  BY DEF Init
<1> QED
  BY <1>1, <1>2, <1>3 DEF Init, TypeOK, Polling, Listening

LEMMA TypeHost == TypeOK /\ HostStep => TypeOK'
<1> SUFFICES ASSUME TypeOK, HostStep PROVE TypeOK'
  OBVIOUS
<1> USE DEF TypeOK, Polling
<1>1. CASE PollNo
  <2>1. Arrive(dn, Unit("no", 0)) \in Seq(Units)
    BY UnitTypes, ChannelTypes DEF Kinds
  <2> QED
    BY <1>1, <2>1 DEF PollNo, wVars
<1>2. CASE PollF4
  <2>1. Arrive(dn, Unit("f4", 0)) \in Seq(Units)
    BY UnitTypes, ChannelTypes DEF Kinds
  <2> QED
    BY <1>2, <2>1 DEF PollF4, wVars
<1>3. CASE HearPong
  BY <1>3, ChannelTypes DEF HearPong, wVars
<1>4. CASE GiveUp
  BY <1>4 DEF GiveUp, wVars, Quiet
<1>5. CASE GetFunc
  <2>1. /\ up' \in Seq(Units) /\ Head(up).call \in Nat
    BY <1>5, ChannelTypes DEF GetFunc, Units
  <2>2. PICK f \in Codes : /\ hReq' = [func |-> f, call |-> Head(up).call,
                                        intact |-> Head(up).kind = "code"]
                            /\ hWant' = Expected[f]
                            /\ hPhase' = IF Expected[f] = << >> THEN "exec" ELSE "rxdata"
    BY <1>5 DEF GetFunc
  <2>3. hReq' \in Requests /\ hReq'.func \in Codes
    BY <2>1, <2>2 DEF Requests
  <2> QED
    BY <1>5, <2>1, <2>2, <2>3, FormatTypes DEF GetFunc, wVars
<1>6. CASE RxUnit
  <2>1. hReq' \in Requests /\ hReq'.func = hReq.func
    BY <1>6 DEF RxUnit, Requests
  <2>2. Tail(up) \in Seq(Units) /\ Tail(hWant) \in Seq(Payload)
    BY <1>6 DEF RxUnit
  <2>3. up' \in Seq(Units)
    BY <1>6, <2>2, SuffixTypes DEF RxUnit, Took
  <2> QED
    BY <1>6, <2>1, <2>2, <2>3 DEF RxUnit, Took, wVars
<1>7. CASE RxGarbled
  <2>1. hReq' \in Requests /\ hReq'.func = hReq.func
    BY <1>7 DEF RxGarbled, Requests
  <2>2. PICK rest \in OneByteRead(up), want \in {hWant, Tail(hWant)} : Took(rest, want)
    BY <1>7 DEF RxGarbled
  <2>3. rest \in Seq(Units) /\ want \in Seq(Payload)
    <3>1. up # << >> /\ hWant # << >>
      BY <1>7 DEF RxGarbled
    <3>2. rest \in Seq(Units)
      BY <3>1, ChannelTypes
    <3>3. Tail(hWant) \in Seq(Payload)
      BY <3>1
    <3> QED
      BY <3>2, <3>3
  <2>4. up' \in Seq(Units)
    BY <2>2, <2>3, SuffixTypes DEF Took
  <2> QED
    BY <1>7, <2>1, <2>2, <2>3, <2>4 DEF RxGarbled, Took, wVars
<1>8. CASE Exec
  <2>1. hReq.call \in Nat /\ hReq.func \in Codes
    BY <1>8 DEF Exec, Requests
  <2>2. UnitsOf(Reply[hReq.func], hReq.call) \in Seq(Units)
    BY <2>1, FormatTypes, UnitTypes
  <2>3. << Unit("scrap", 0) >> \in Seq(Units)
    BY UnitTypes DEF Kinds, Payload, DataKinds, ChunkKinds
  <2>4. hTx' \in Seq(Units)
    <3>1. \/ hTx' = UnitsOf(Reply[hReq.func], hReq.call)
          \/ hTx' = << >> \/ hTx' = << Unit("scrap", 0) >>
      BY <1>8 DEF Exec
    <3>2. << >> \in Seq(Units)
      OBVIOUS
    <3> QED
      BY ONLY <2>2, <2>3, <3>1, <3>2, Zenon
  <2>5. served' \in Seq(Requests)
    BY <1>8 DEF Exec
  <2>6. searched' \in BOOLEAN
    BY <1>8 DEF Exec
  <2> QED
    BY <1>8, <2>4, <2>5, <2>6 DEF Exec, wVars
<1>9. CASE EmitUnit
  <2>1. Arrive(dn, Head(hTx)) \in Seq(Units) /\ Tail(hTx) \in Seq(Units)
    BY <1>9, ChannelTypes DEF EmitUnit
  <2> QED
    BY <1>9, <2>1 DEF EmitUnit, wVars
<1>10. CASE EmitEnd
  BY <1>10 DEF EmitEnd, wVars
<1> QED
  BY <1>1, <1>2, <1>3, <1>4, <1>5, <1>6, <1>7, <1>8, <1>9, <1>10 DEF HostStep

LEMMA TypeStation == TypeOK /\ StationStep => TypeOK'
<1> SUFFICES ASSUME TypeOK, StationStep PROVE TypeOK'
  OBVIOUS
<1> USE DEF TypeOK, Listening
<1>1. CASE DrainUnit
  BY <1>1, ChannelTypes DEF DrainUnit, hVars
<1>2. CASE DrainStop
  BY <1>2 DEF DrainStop, hVars
<1>3. CASE HearNo
  BY <1>3, ChannelTypes DEF HearNo, hVars
<1>4. CASE HearF4
  BY <1>4, ChannelTypes DEF HearF4, hVars
<1>5. CASE SendPong
  <2>1. Append(up, Unit("pong", 0)) \in Seq(Units)
    BY UnitTypes, ChannelTypes DEF Kinds
  <2> QED
    BY <1>5, <2>1 DEF SendPong, hVars
<1>6. CASE SendCode
  <2>1. wFunc \in Funcs /\ wFunc \in Codes
    BY <1>6, LinkAssumption DEF SendCode
  <2>2. Len(asked) + 1 \in Nat
    OBVIOUS
  <2>3. Append(up, CodeUnit(wFunc, Len(asked) + 1)) \in Seq(Units)
    BY <2>1, <2>2, UnitTypes, ChannelTypes
  <2>4. Sent[wFunc] \in Seq(Payload) /\ Wanted[wFunc] \in Seq(Payload)
    BY <2>1, FormatTypes
  <2> QED
    BY <1>6, <2>1, <2>3, <2>4 DEF SendCode, hVars
<1>7. CASE SendUnit
  <2>1. Head(wTx) \in Kinds /\ Tail(wTx) \in Seq(Payload)
    BY <1>7 DEF SendUnit, Kinds
  <2>2. Len(asked) \in Nat
    OBVIOUS
  <2>3. Append(up, Unit(Head(wTx), Len(asked))) \in Seq(Units)
    BY <2>1, <2>2, UnitTypes, ChannelTypes
  <2> QED
    BY <1>7, <2>1, <2>3 DEF SendUnit, hVars
<1>8. CASE RecvUnit
  BY <1>8 DEF RecvUnit, hVars
<1>9. CASE RecvGarbled
  <2>1. wWant # << >> /\ Tail(wWant) \in Seq(Payload) /\ dn' \in Seq(Units)
    BY <1>9, ChannelTypes DEF RecvGarbled
  <2> QED
    BY <1>9, <2>1 DEF RecvGarbled, hVars
<1>10. CASE RecvLost
  <2>1. wWant # << >> /\ Tail(wWant) \in Seq(Payload) /\ dn' \in Seq(Units)
    BY <1>10, ChannelTypes DEF RecvLost
  <2> QED
    BY <1>10, <2>1 DEF RecvLost, hVars
<1>11. CASE Return
  BY <1>11 DEF Return, hVars
<1> QED
  BY <1>1, <1>2, <1>3, <1>4, <1>5, <1>6, <1>7, <1>8, <1>9, <1>10, <1>11
     DEF StationStep

LEMMA TypeUser == TypeOK /\ UserStep => TypeOK'
<1> SUFFICES ASSUME TypeOK, UserStep PROVE TypeOK'
  OBVIOUS
<1> USE DEF TypeOK
<1>1. CASE Restart
  <2>1. NoReq \in Requests
    BY DEF NoReq, Requests
  <2>2. broken' \in BOOLEAN /\ restarts' \in 0..MaxRestarts
    BY <1>1, LinkAssumption DEF Restart, HarmlessRestart, Quiet
  <2>3. /\ hPhase' = "poll" /\ hReq' \in Requests /\ hWant' = << >> /\ hTx' = << >>
        /\ searched' \in BOOLEAN /\ up' = << >>
        /\ UNCHANGED << wPhase, wFunc, wTx, wWant, dn, asked, served >>
    BY <1>1, <2>1 DEF Restart, wVars
  <2>4. << >> \in Seq(Payload) /\ << >> \in Seq(Units)
    OBVIOUS
  <2> QED
    BY <2>2, <2>3, <2>4 DEF Polling
<1>2. CASE Escape
  BY <1>2 DEF Escape, hVars, Listening
<1>3. ASSUME NEW f \in Funcs, Call(f)
      PROVE  TypeOK'
  BY <1>3 DEF Call, hVars, Listening
<1> QED
  BY <1>1, <1>2, <1>3 DEF UserStep

LEMMA TypeStep == TypeOK /\ [Next]_vars => TypeOK'
<1> SUFFICES ASSUME TypeOK, [Next]_vars PROVE TypeOK'
  OBVIOUS
<1>1. CASE UNCHANGED vars
  BY <1>1 DEF TypeOK, vars
<1> QED
  BY <1>1, TypeHost, TypeStation, TypeUser DEF Next

\* In every behaviour of the link, timely or not, agreeing or not, each
\* variable keeps to its type, and whoever waits for an item has one to wait
\* for: eat() and the receive loops never run past the end of a format.
THEOREM TypeCorrect == Spec => []TypeOK
  BY TypeInit, TypeStep, PTL DEF Spec

-----------------------------------------------------------------------------
(* No request is executed twice, whatever the timing.                      *)

\* The function codes in a channel are of calls that were made, in order.
InOrder(ch) ==
  \A i \in 1..Len(ch) : ch[i].kind = "code" =>
    /\ ch[i].call \in 1..Len(asked)
    /\ ch[i].func = asked[ch[i].call]
    /\ \A j \in 1..(i - 1) : ch[j].kind = "code" => ch[j].call < ch[i].call

\* Every function code in a channel is of a call later than the n-th.
Later(ch, n) ==
  \A i \in 1..Len(ch) : ch[i].kind = "code" => n < ch[i].call

\* The request being received, as long as it is unmixed, was made, comes after
\* those served and before those in the channel.
PendingInOrder ==
  hPhase \in {"rxdata", "exec"} /\ hReq.intact =>
    /\ hReq.call \in 1..Len(asked)
    /\ hReq.func = asked[hReq.call]
    /\ Later(up, hReq.call)
    /\ \A i \in 1..Len(served) : served[i].intact => served[i].call < hReq.call

\* The inductive strengthening of IntactOnce: a function code passes from the
\* workstation to the channel, to the request being received and to the served
\* requests, and is in one of these places only.
OnceInv ==
  /\ IntactOnce
  /\ InOrder(up)
  /\ \A i \in 1..Len(served) : served[i].intact => Later(up, served[i].call)
  /\ PendingInOrder

\* rest is what is left of ch behind its first n units, but for units that are
\* no function codes.
LeftOf(rest, ch, n) ==
  \E d \in Nat : \A i \in 1..Len(rest) : rest[i].kind = "code" =>
    i + d \in (n + 1)..Len(ch) /\ rest[i] = ch[i + d]

LEMMA ReadLeaves ==
  ASSUME NEW ch \in Seq(Units), ch # << >>, NEW rest \in OneByteRead(ch)
  PROVE  LeftOf(rest, ch, 1)
<1>1. CASE rest = Tail(ch)
  <2>1. \A i \in 1..Len(rest) : i + 1 \in (1 + 1)..Len(ch) /\ rest[i] = ch[i + 1]
    BY <1>1, HeadTailProperties
  <2>2. 1 \in Nat
    OBVIOUS
  <2> QED
    BY <2>1, <2>2, Zenon DEF LeftOf
<1>2. CASE rest = << Unit("scrap", 0) >> \o Tail(ch)
  <2> DEFINE s == Unit("scrap", 0)
  <2>1. s \in Units /\ s.kind = "scrap"
    BY UnitTypes DEF Kinds, Payload, DataKinds, ChunkKinds, Unit
  <2> HIDE DEF s
  <2>2. << s >> \in Seq(Units) /\ Len(<< s >>) = 1 /\ << s >>[1] = s
    BY <2>1
  <2>3. /\ Tail(ch) \in Seq(Units) /\ Len(Tail(ch)) = Len(ch) - 1
        /\ \A i \in 1..Len(Tail(ch)) : Tail(ch)[i] = ch[i + 1]
    BY HeadTailProperties
  <2>4. /\ Len(rest) = 1 + Len(Tail(ch))
        /\ \A i \in 1..Len(rest) :
             rest[i] = IF i <= 1 THEN s ELSE Tail(ch)[i - 1]
    <3>1. rest = << s >> \o Tail(ch)
      BY <1>2 DEF s
    <3> QED
      BY <3>1, <2>2, <2>3, ConcatProperties
  <2>5. ASSUME NEW i \in 1..Len(rest), rest[i].kind = "code"
        PROVE  i + 0 \in (1 + 1)..Len(ch) /\ rest[i] = ch[i + 0]
    <3>1. i # 1
      BY <2>1, <2>4, <2>5
    <3>2. i - 1 \in 1..Len(Tail(ch)) /\ Len(ch) \in Nat
      BY <3>1, <2>3, <2>4
    <3>3. rest[i] = Tail(ch)[i - 1]
      BY <3>1, <2>4
    <3>4. Tail(ch)[i - 1] = ch[(i - 1) + 1]
      BY <3>2, <2>3
    <3> QED
      BY <3>1, <3>2, <3>3, <3>4, <2>3
  <2>6. 0 \in Nat
    OBVIOUS
  <2> QED
    BY <2>5, <2>6, Zenon DEF LeftOf
<1> QED
  BY <1>1, <1>2 DEF OneByteRead

LEMMA SuffixLeaves ==
  ASSUME NEW ch \in Seq(Units), NEW rest \in Suffixes(ch)
  PROVE  LeftOf(rest, ch, 0)
<1>1. PICK k \in 1..(Len(ch) + 1) : rest = SubSeq(ch, k, Len(ch))
  BY DEF Suffixes
<1>2. /\ Len(rest) = IF k <= Len(ch) THEN Len(ch) - k + 1 ELSE 0
      /\ \A i \in 1..(Len(ch) - k + 1) : rest[i] = ch[k + i - 1]
  <2>1. \A j \in k..Len(ch) : ch[j] \in Units
    BY ElementOfSeq
  <2> QED
    BY <1>1, <2>1, SubSeqProperties
<1>3. k - 1 \in Nat /\ Len(ch) \in Nat
  OBVIOUS
<1>4. \A i \in 1..Len(rest) :
        i + (k - 1) \in (0 + 1)..Len(ch) /\ rest[i] = ch[i + (k - 1)]
  BY <1>2, <1>3
<1> QED
  BY <1>3, <1>4, Zenon DEF LeftOf

\* What the host leaves in the channel when it has taken an item: what the
\* completing read() did not return.
LEMMA TookLeaves ==
  ASSUME NEW ch \in Seq(Units), ch # << >>, NEW rest \in OneByteRead(ch),
         NEW want, Took(rest, want)
  PROVE  LeftOf(up', ch, 1)
<1>1. LeftOf(rest, ch, 1) /\ rest \in Seq(Units)
  BY ReadLeaves, ChannelTypes
<1>2. CASE up' = rest
  BY <1>1, <1>2
<1>3. CASE up' \in Suffixes(rest)
  <2>1. PICK d \in Nat : \A i \in 1..Len(rest) : rest[i].kind = "code" =>
          i + d \in (1 + 1)..Len(ch) /\ rest[i] = ch[i + d]
    BY <1>1, Zenon DEF LeftOf
  <2>2. PICK e \in Nat : \A i \in 1..Len(up') : up'[i].kind = "code" =>
          i + e \in (0 + 1)..Len(rest) /\ up'[i] = rest[i + e]
    BY <1>1, <1>3, SuffixLeaves, Zenon DEF LeftOf
  <2>3. up' \in Seq(Units) /\ Len(up') \in Nat
    BY <1>1, <1>3, SuffixTypes
  <2>4. ASSUME NEW i \in 1..Len(up'), up'[i].kind = "code"
        PROVE  i + (e + d) \in (1 + 1)..Len(ch) /\ up'[i] = ch[i + (e + d)]
    <3>1. i + e \in 1..Len(rest) /\ up'[i] = rest[i + e]
      BY <2>2, <2>4
    <3>2. (i + e) + d \in (1 + 1)..Len(ch) /\ rest[i + e] = ch[(i + e) + d]
      BY <2>1, <2>4, <3>1
    <3>3. (i + e) + d = i + (e + d)
      BY <2>3
    <3> QED
      BY <3>1, <3>2, <3>3
  <2>5. e + d \in Nat
    OBVIOUS
  <2> QED
    BY <2>4, <2>5, Zenon DEF LeftOf
<1> QED
  BY <1>2, <1>3 DEF Took

\* What is left of a channel keeps the order, and its function codes are of
\* later calls than those in front of it.
LEMMA LeftInOrder ==
  ASSUME NEW ch \in Seq(Units), NEW rest \in Seq(Units), NEW n \in {0, 1},
         LeftOf(rest, ch, n)
  PROVE  /\ InOrder(ch) => InOrder(rest)
         /\ \A m : Later(ch, m) => Later(rest, m)
         /\ n = 1 /\ InOrder(ch) /\ ch # << >> /\ Head(ch).kind = "code"
              => Later(rest, Head(ch).call)
<1>1. PICK d \in Nat : \A i \in 1..Len(rest) : rest[i].kind = "code" =>
        i + d \in (n + 1)..Len(ch) /\ rest[i] = ch[i + d]
  BY DEF LeftOf
<1>2. Len(ch) \in Nat /\ Len(rest) \in Nat
  OBVIOUS
<1>3. ASSUME InOrder(ch)
      PROVE  InOrder(rest)
  <2>1. SUFFICES ASSUME NEW i \in 1..Len(rest), rest[i].kind = "code"
                 PROVE  /\ rest[i].call \in 1..Len(asked)
                        /\ rest[i].func = asked[rest[i].call]
                        /\ \A j \in 1..(i - 1) :
                             rest[j].kind = "code" => rest[j].call < rest[i].call
    BY DEF InOrder
  <2>2. i + d \in 1..Len(ch) /\ rest[i] = ch[i + d]
    BY <1>1, <1>2, <2>1
  <2>3. ASSUME NEW j \in 1..(i - 1), rest[j].kind = "code"
        PROVE  rest[j].call < rest[i].call
    <3>1. j \in 1..Len(rest) /\ j + d \in 1..((i + d) - 1)
      BY <1>1, <1>2, <2>3
    <3>2. rest[j] = ch[j + d]
      BY <1>1, <2>3, <3>1
    <3> QED
      BY <1>3, <2>1, <2>2, <2>3, <3>1, <3>2 DEF InOrder
  <2> QED
    BY <1>3, <2>1, <2>2, <2>3 DEF InOrder
<1>4. ASSUME NEW m, Later(ch, m)
      PROVE  Later(rest, m)
  <2>1. \A i \in 1..Len(rest) : rest[i].kind = "code" =>
          i + d \in 1..Len(ch) /\ rest[i] = ch[i + d]
    BY <1>1, <1>2
  <2> QED
    BY <1>4, <2>1 DEF Later
<1>5. ASSUME n = 1, InOrder(ch), ch # << >>, Head(ch).kind = "code"
      PROVE  Later(rest, Head(ch).call)
  <2>1. Head(ch) = ch[1]
    BY <1>5
  <2>2. ASSUME NEW i \in 1..Len(rest), rest[i].kind = "code"
        PROVE  Head(ch).call < rest[i].call
    <3>1. i + d \in 1..Len(ch) /\ 1 \in 1..((i + d) - 1) /\ rest[i] = ch[i + d]
      BY <1>1, <1>2, <1>5, <2>2
    <3> QED
      BY <1>5, <2>1, <2>2, <3>1 DEF InOrder
  <2> QED
    BY <2>2 DEF Later
<1> QED
  BY <1>3, <1>4, <1>5

LEMMA OnceInit == Init => OnceInv
  BY DEF Init, OnceInv, IntactOnce, InOrder, PendingInOrder

\* A step that leaves the history and the request alone, and takes from the
\* front of the channel or not at all, preserves the invariant.
LEMMA OnceTaken ==
  ASSUME TypeOK, OnceInv, up' \in Seq(Units), LeftOf(up', up, 0) \/ LeftOf(up', up, 1),
         UNCHANGED << asked, served >>,
         hPhase' \in {"rxdata", "exec"} /\ hReq'.intact =>
           /\ hPhase \in {"rxdata", "exec"} /\ hReq.intact
           /\ hReq'.call = hReq.call /\ hReq'.func = hReq.func
  PROVE  OnceInv'
<1> USE DEF TypeOK
<1>1. IntactOnce'
  BY DEF OnceInv, IntactOnce
<1>2. InOrder(up)' /\ \A m : Later(up, m) => Later(up', m)
  <2>1. InOrder(up') /\ \A m : Later(up, m) => Later(up', m)
    BY LeftInOrder DEF OnceInv
  <2> QED
    BY <2>1 DEF InOrder
<1>3. \A i \in 1..Len(served') : served'[i].intact => Later(up', served'[i].call)
  BY <1>2 DEF OnceInv
<1>4. PendingInOrder'
  BY <1>2 DEF OnceInv, PendingInOrder
<1> QED
  BY <1>1, <1>2, <1>3, <1>4 DEF OnceInv, Later

\* A step that changes none of the variables of the invariant.
LEMMA OnceSame ==
  ASSUME TypeOK, OnceInv, UNCHANGED << up, asked, served >>,
         hPhase' \in {"rxdata", "exec"} => hPhase' = hPhase /\ hReq' = hReq
  PROVE  OnceInv'
  BY DEF OnceInv, IntactOnce, InOrder, Later, PendingInOrder

\* A step that sends a unit that is no function code.
LEMMA OnceNoCode ==
  ASSUME TypeOK, OnceInv, NEW u \in Units, u.kind # "code", up' = Append(up, u),
         UNCHANGED << hPhase, hReq, asked, served >>
  PROVE  OnceInv'
<1>1. /\ Len(up') = Len(up) + 1 /\ Len(up) \in Nat
      /\ \A i \in 1..Len(up) : up'[i] = up[i]
      /\ up'[Len(up) + 1] = u
  BY AppendProperties DEF TypeOK
<1>2. \A i \in 1..Len(up') : up'[i].kind = "code" => i \in 1..Len(up) /\ up'[i] = up[i]
  BY <1>1
<1>3. InOrder(up)'
  <2>1. \A i \in 1..Len(up) : \A j \in 1..(i - 1) : j \in 1..Len(up)
    BY <1>1
  <2> QED
    BY <1>1, <1>2, <2>1 DEF OnceInv, InOrder
<1>4. \A m : Later(up, m) => Later(up', m)
  BY <1>2 DEF Later
<1> QED
  BY <1>3, <1>4 DEF OnceInv, IntactOnce, Later, PendingInOrder

LEMMA OnceHost == TypeOK /\ TypeOK' /\ OnceInv /\ HostStep => OnceInv'
<1> SUFFICES ASSUME TypeOK, TypeOK', OnceInv, HostStep PROVE OnceInv'
  OBVIOUS
<1>0. up \in Seq(Units) /\ up' \in Seq(Units)
  BY DEF TypeOK
<1>1. CASE PollNo
  BY <1>1, OnceSame DEF PollNo
<1>2. CASE PollF4
  BY <1>2, OnceSame DEF PollF4
<1>3. CASE HearPong
  <2>1. LeftOf(up', up, 1)
    BY <1>0, <1>3, ReadLeaves DEF HearPong
  <2>2. hPhase' \in {"getfunc", "wait", "poll"}
    BY <1>3 DEF HearPong
  <2> QED
    BY <1>0, <1>3, <2>1, <2>2, OnceTaken DEF HearPong
<1>4. CASE GiveUp
  BY <1>4, OnceSame DEF GiveUp
<1>5. CASE GetFunc
  <2>1. LeftOf(up', up, 1) /\ up # << >> /\ UNCHANGED << asked, served >>
    BY <1>0, <1>5, ReadLeaves DEF GetFunc
  <2>2. hReq'.intact => Head(up).kind = "code" /\ hReq'.call = Head(up).call
                        /\ hReq'.func = Head(up).func
    <3>1. PICK f \in Codes : /\ Understood(Head(up), f)
                              /\ hReq' = [func |-> f, call |-> Head(up).call,
                                          intact |-> Head(up).kind = "code"]
      BY <1>5 DEF GetFunc
    <3>2. /\ hReq'.func = f /\ hReq'.call = Head(up).call
          /\ hReq'.intact = (Head(up).kind = "code")
      BY <3>1, Zenon
    <3>3. Head(up).kind = "code" => f = Head(up).func
      BY <3>1 DEF Understood, DataKinds, ChunkKinds
    <3> QED
      BY <3>2, <3>3, Zenon
  <2>3. ASSUME hReq'.intact
        PROVE  /\ hReq'.call \in 1..Len(asked') /\ hReq'.func = asked'[hReq'.call]
               /\ Later(up', hReq'.call)
               /\ \A i \in 1..Len(served') :
                    served'[i].intact => served'[i].call < hReq'.call
    <3>1. up[1] = Head(up) /\ 1 \in 1..Len(up)
      BY <1>0, <2>1
    <3>2. Later(up', Head(up).call)
      BY <1>0, <2>1, <2>2, <2>3, LeftInOrder DEF OnceInv
    <3>3. \A i \in 1..Len(served) : served[i].intact => served[i].call < Head(up).call
      BY <2>2, <2>3, <3>1 DEF OnceInv, Later
    <3> QED
      BY <2>1, <2>2, <2>3, <3>1, <3>2, <3>3 DEF OnceInv, InOrder
  <2>4. InOrder(up') /\ \A m : Later(up, m) => Later(up', m)
    BY <1>0, <2>1, LeftInOrder DEF OnceInv
  <2> QED
    BY <2>1, <2>3, <2>4 DEF OnceInv, IntactOnce, InOrder, Later, PendingInOrder
<1>6. CASE RxUnit
  <2>1. up # << >> /\ Tail(up) \in OneByteRead(up)
    BY <1>6 DEF RxUnit, OneByteRead
  <2>2. Took(Tail(up), Tail(hWant)) /\ UNCHANGED << asked, served >>
    BY <1>6 DEF RxUnit
  <2>3. /\ hPhase = "rxdata" /\ hReq'.call = hReq.call /\ hReq'.func = hReq.func
        /\ hReq'.intact => hReq.intact
    BY <1>6 DEF RxUnit, TypeOK, Requests
  <2> QED
    BY <1>0, <2>1, <2>2, <2>3, TookLeaves, OnceTaken
<1>7. CASE RxGarbled
  <2>1. PICK rest \in OneByteRead(up), want \in {hWant, Tail(hWant)} : Took(rest, want)
    BY <1>7 DEF RxGarbled
  <2>2. up # << >> /\ UNCHANGED << asked, served >> /\ hPhase = "rxdata"
    BY <1>7 DEF RxGarbled
  <2>3. hReq'.intact = FALSE
    BY <1>7 DEF RxGarbled, TypeOK, Requests
  <2> QED
    BY <1>0, <2>1, <2>2, <2>3, TookLeaves, OnceTaken
<1>8. CASE Exec
  <2>1. /\ served' = Append(served, hReq) /\ UNCHANGED << up, asked >>
        /\ hPhase = "exec" /\ hPhase' \in {"emit", "dead"}
    BY <1>8 DEF Exec
  <2>2. /\ Len(served') = Len(served) + 1 /\ Len(served) \in Nat
        /\ \A i \in 1..Len(served) : served'[i] = served[i]
        /\ served'[Len(served) + 1] = hReq
    <3>1. served \in Seq(Requests) /\ hReq \in Requests
      BY DEF TypeOK
    <3> QED
      BY <2>1, <3>1, AppendProperties
  <2>3. \A i \in 1..Len(served') : i \in 1..Len(served) \/ i = Len(served) + 1
    BY <2>2
  <2>4. IntactOnce'
    <3>1. SUFFICES ASSUME NEW i \in 1..Len(served'), served'[i].intact
                   PROVE  /\ served'[i].call \in 1..Len(asked)
                          /\ served'[i].func = asked[served'[i].call]
                          /\ \A j \in 1..(i - 1) : served'[j].intact =>
                               served'[j].call < served'[i].call
      BY <2>1 DEF IntactOnce
    <3>2. CASE i \in 1..Len(served)
      <4>1. \A j \in 1..(i - 1) : j \in 1..Len(served)
        BY <2>2, <3>2
      <4> QED
        BY <2>2, <3>1, <3>2, <4>1 DEF OnceInv, IntactOnce
    <3>3. CASE i = Len(served) + 1
      <4>1. \A j \in 1..(i - 1) : j \in 1..Len(served)
        BY <2>2, <3>3
      <4> QED
        BY <2>1, <2>2, <3>1, <3>3, <4>1 DEF OnceInv, PendingInOrder
    <3> QED
      BY <2>3, <3>2, <3>3
  <2>5. \A i \in 1..Len(served') : served'[i].intact => Later(up, served'[i].call)
    BY <2>1, <2>2, <2>3 DEF OnceInv, PendingInOrder
  <2> QED
    BY <2>1, <2>4, <2>5 DEF OnceInv, PendingInOrder, InOrder, Later
<1>9. CASE EmitUnit
  BY <1>9, OnceSame DEF EmitUnit
<1>10. CASE EmitEnd
  BY <1>10, OnceSame DEF EmitEnd
<1> QED
  BY <1>1, <1>2, <1>3, <1>4, <1>5, <1>6, <1>7, <1>8, <1>9, <1>10 DEF HostStep

LEMMA OnceStation == TypeOK /\ TypeOK' /\ OnceInv /\ StationStep => OnceInv'
<1> SUFFICES ASSUME TypeOK, TypeOK', OnceInv, StationStep PROVE OnceInv'
  OBVIOUS
<1>1. CASE DrainUnit
  BY <1>1, OnceSame DEF DrainUnit, hVars
<1>2. CASE DrainStop
  BY <1>2, OnceSame DEF DrainStop, hVars
<1>3. CASE HearNo
  BY <1>3, OnceSame DEF HearNo, hVars
<1>4. CASE HearF4
  BY <1>4, OnceSame DEF HearF4, hVars
<1>5. CASE SendPong
  <2>1. LET u == Unit("pong", 0) IN u.kind # "code" /\ u \in Units /\ up' = Append(up, u)
    BY <1>5, UnitTypes DEF SendPong, Unit, Kinds
  <2> QED
    BY <1>5, <2>1, OnceNoCode DEF SendPong, hVars
<1>6. CASE SendCode
  <2> DEFINE n == Len(asked) + 1
             u == CodeUnit(wFunc, n)
  <2>1. /\ up' = Append(up, u) /\ asked' = Append(asked, wFunc)
        /\ UNCHANGED << hPhase, hReq, served >>
    BY <1>6 DEF SendCode, hVars
  <2>2. wFunc \in Funcs /\ wFunc \in Codes
    BY <1>6, LinkAssumption DEF SendCode, TypeOK
  <2>3. n \in Nat /\ Len(asked) \in Nat
    <3>1. asked \in Seq(Funcs)
      BY DEF TypeOK
    <3> QED
      BY <3>1
  <2>4. u.kind = "code" /\ u.func = wFunc /\ u.call = n /\ u \in Units
    BY <2>2, <2>3, UnitTypes DEF CodeUnit
  <2>5. /\ Len(asked') = n /\ asked'[n] = wFunc
        /\ \A c \in 1..Len(asked) : c \in 1..Len(asked') /\ asked'[c] = asked[c]
    <3>1. asked \in Seq(Funcs)
      BY DEF TypeOK
    <3> QED
      BY <2>1, <2>2, <2>3, <3>1, AppendProperties
  <2>6. /\ Len(up') = Len(up) + 1 /\ Len(up) \in Nat
        /\ \A i \in 1..Len(up) : up'[i] = up[i]
        /\ up'[Len(up) + 1] = u
    <3>1. up \in Seq(Units) /\ u \in Units /\ up' = Append(up, u)
      BY <2>1, <2>4 DEF TypeOK
    <3> HIDE DEF u
    <3> QED
      BY <3>1, AppendProperties
  <2> HIDE DEF n, u
  <2>7. InOrder(up)'
    <3>1. SUFFICES ASSUME NEW i \in 1..Len(up'), up'[i].kind = "code"
                   PROVE  /\ up'[i].call \in 1..Len(asked')
                          /\ up'[i].func = asked'[up'[i].call]
                          /\ \A j \in 1..(i - 1) :
                               up'[j].kind = "code" => up'[j].call < up'[i].call
      BY DEF InOrder
    <3>2. CASE i \in 1..Len(up)
      <4>1. \A j \in 1..(i - 1) : j \in 1..Len(up)
        BY <2>6, <3>2
      <4> QED
        BY <2>5, <2>6, <3>1, <3>2, <4>1 DEF OnceInv, InOrder
    <3>3. CASE i = Len(up) + 1
      <4>1. \A j \in 1..(i - 1) : j \in 1..Len(up)
        BY <2>6, <3>3
      <4>2. \A j \in 1..Len(up) : up[j].kind = "code" => up[j].call < n
        BY <2>3, <2>5 DEF OnceInv, InOrder, n
      <4>3. n \in 1..Len(asked')
        BY <2>3, <2>5 DEF n
      <4> QED
        BY <2>4, <2>5, <2>6, <3>3, <4>1, <4>2, <4>3
    <3> QED
      BY <2>6, <3>2, <3>3
  <2>8. \A c \in 1..Len(asked) : Later(up, c) => Later(up', c)
    <3>1. \A c \in 1..Len(asked) : c < n
      BY <2>3 DEF n
    <3> QED
      BY <2>4, <2>6, <3>1 DEF Later
  <2>9. IntactOnce'
    BY <2>1, <2>5 DEF OnceInv, IntactOnce
  <2>10. \A i \in 1..Len(served') : served'[i].intact => Later(up', served'[i].call)
    BY <2>1, <2>8 DEF OnceInv, IntactOnce
  <2>11. PendingInOrder'
    BY <2>1, <2>5, <2>8 DEF OnceInv, PendingInOrder, Later
  <2> QED
    BY <2>7, <2>9, <2>10, <2>11 DEF OnceInv, Later
<1>7. CASE SendUnit
  <2> DEFINE u == Unit(Head(wTx), Len(asked))
  <2>1. /\ up' = Append(up, u)
        /\ UNCHANGED << hPhase, hReq, asked, served >>
    BY <1>7 DEF SendUnit, hVars
  <2>2. Head(wTx) \in Payload /\ Len(asked) \in Nat
    BY <1>7 DEF SendUnit, TypeOK
  <2>3. u \in Units /\ u.kind # "code"
    BY <2>2, UnitTypes DEF Unit, Kinds, Payload, DataKinds, ChunkKinds
  <2> QED
    BY <2>1, <2>3, OnceNoCode
<1>8. CASE RecvUnit
  BY <1>8, OnceSame DEF RecvUnit, hVars
<1>9. CASE RecvGarbled
  BY <1>9, OnceSame DEF RecvGarbled, hVars
<1>10. CASE RecvLost
  BY <1>10, OnceSame DEF RecvLost, hVars
<1>11. CASE Return
  BY <1>11, OnceSame DEF Return, hVars
<1> QED
  BY <1>1, <1>2, <1>3, <1>4, <1>5, <1>6, <1>7, <1>8, <1>9, <1>10, <1>11
     DEF StationStep

LEMMA OnceUser == TypeOK /\ TypeOK' /\ OnceInv /\ UserStep => OnceInv'
<1> SUFFICES ASSUME TypeOK, TypeOK', OnceInv, UserStep PROVE OnceInv'
  OBVIOUS
<1>1. CASE Restart
  <2>1. /\ up' = << >> /\ hPhase' = "poll"
        /\ UNCHANGED << asked, served >>
    BY <1>1 DEF Restart
  <2> QED
    BY <2>1 DEF OnceInv, IntactOnce, InOrder, Later, PendingInOrder
<1>2. CASE Escape
  BY <1>2, OnceSame DEF Escape, hVars
<1>3. ASSUME NEW f \in Funcs, Call(f)
      PROVE  OnceInv'
  BY <1>3, OnceSame DEF Call, hVars
<1> QED
  BY <1>1, <1>2, <1>3 DEF UserStep

\* However the two sides get out of step, a request that reached the host
\* unmixed is one that a program made, is executed once, and never after a
\* later one: for every set of functions, agreeing or not, every size of the
\* FIFO, and every number of calls and restarts.
THEOREM ExecutedIntactOnce == Spec => []IntactOnce
<1>1. Init => TypeOK /\ OnceInv
  BY TypeInit, OnceInit
<1>2. TypeOK /\ OnceInv /\ [Next]_vars => (TypeOK /\ OnceInv)'
  <2> SUFFICES ASSUME TypeOK, OnceInv, [Next]_vars PROVE TypeOK' /\ OnceInv'
    OBVIOUS
  <2>1. TypeOK'
    BY TypeStep
  <2>2. ASSUME UNCHANGED vars
        PROVE  OnceInv'
    BY <2>2, OnceSame DEF vars
  <2> QED
    BY <2>1, <2>2, OnceHost, OnceStation, OnceUser DEF Next
<1>3. OnceInv => IntactOnce
  BY DEF OnceInv
<1> QED
  BY <1>1, <1>2, <1>3, PTL DEF Spec
=============================================================================
