------------------------ MODULE SpyLinkSafetyProofs ------------------------
(***************************************************************************)
(* Proofs about SpyLinkSafety: as long as the host loses patience only     *)
(* with a quiet line, host and workstation keep in step, for every set of  *)
(* functions whose formats agree and every size of the FIFO.               *)
(***************************************************************************)
EXTENDS SpyLinkSafety, SpyLinkProofs

\* What the agreement of the formats gives for one function.
LEMMA AgreedFormats ==
  ASSUME NEW f \in Funcs
  PROVE  /\ f \in Codes /\ f # "FXX"
         /\ Sent[f] = Expected[f] /\ Expected[f] \in Seq(Payload)
         /\ Wanted[f] \in Seq(Payload) /\ Reply[f] \in Seq(Payload)
         /\ \/ Reply[f] = Wanted[f]
            \/ /\ Wanted[f] = << >>
               /\ \A i \in 1..Len(Reply[f]) : Reply[f][i] = "one"
         /\ f \in FileFuncs \union {"F12"} => Wanted[f] # << >>
<1>1. f \in Codes
  BY LinkAssumption
<1>2. f # "FXX" /\ Sent[f] = Expected[f]
  BY FuncsAgree DEF Agrees
<1>3. /\ Expected[f] \in Seq(Payload)
      /\ Wanted[f] \in Seq(Payload) /\ Reply[f] \in Seq(Payload)
  BY <1>1, FormatTypes
<1>4. DOMAIN Reply[f] = 1..Len(Reply[f])
  BY <1>3
<1>5. \/ Reply[f] = Wanted[f]
      \/ Wanted[f] = << >> /\ \A i \in 1..Len(Reply[f]) : Reply[f][i] = "one"
  BY <1>4, FuncsAgree DEF Agrees
<1>6. ASSUME f \in FileFuncs \union {"F12"}
      PROVE  Wanted[f] # << >>
  <2>1. FCB \o BYTE # << >> /\ DMA \o FCB \o BYTE # << >> /\ BYTE # << >>
        /\ DMA \o BYTE # << >>
        /\ WORD \o DMA \o FCB \o BYTE # << >>
    BY DEF FCB, DMA, BYTE, WORD
  <2> QED
    BY <1>1, <1>6, <2>1 DEF FileFuncs, Wanted
<1> QED
  BY <1>1, <1>2, <1>3, <1>5, <1>6

LEMMA TypedLengths ==
  ASSUME TypeOK
  PROVE  /\ Len(up) \in Nat /\ Len(dn) \in Nat /\ Len(hTx) \in Nat
         /\ Len(hWant) \in Nat /\ Len(wTx) \in Nat /\ Len(wWant) \in Nat
         /\ Len(asked) \in Nat /\ Len(served) \in Nat
  BY DEF TypeOK

\* A unit that arrives is the last one, or lost.
LEMMA Arrived ==
  ASSUME NEW ch \in Seq(Units), NEW u \in Units
  PROVE  /\ Len(Arrive(ch, u)) \in Nat /\ Len(ch) \in Nat
         /\ Len(ch) <= Len(Arrive(ch, u))
         /\ Len(ch) < FifoSize => Arrive(ch, u) = Append(ch, u)
         /\ \A i \in 1..Len(ch) : Arrive(ch, u)[i] = ch[i]
         /\ \A i \in 1..Len(Arrive(ch, u)) :
              i \in 1..Len(ch) \/ (i = Len(Arrive(ch, u)) /\ Arrive(ch, u)[i] = u)
<1>1. Len(ch) \in Nat
  OBVIOUS
<1>2. CASE Arrive(ch, u) = ch
  BY <1>1, <1>2 DEF Arrive
<1>3. CASE Arrive(ch, u) = Append(ch, u)
  BY <1>1, <1>3, AppendProperties
<1> QED
  BY <1>2, <1>3 DEF Arrive

\* What a resting workstation finds in the FIFO is read whole.
LEMMA RestReads ==
  ASSUME TypeOK, Together, wPhase \in Resting, dn # << >>, NEW rest \in OneByteRead(dn)
  PROVE  rest = Tail(dn) /\ Head(dn) = dn[1] /\ Head(dn).kind \in {"no", "f4", "one"}
<1>1. Head(dn) = dn[1] /\ 1 \in 1..Len(dn)
  BY DEF TypeOK
<1>2. Head(dn).kind \in {"no", "f4", "one"}
  BY <1>1 DEF Together, AtRest
<1> QED
  BY <1>1, <1>2 DEF OneByteRead

-----------------------------------------------------------------------------
(* Requests and replies on their way.                                      *)

LEMMA ArgumentsSkip ==
  ASSUME NEW want \in Seq(Payload), NEW ch \in Seq(Units), NEW tx \in Seq(Payload), NEW c \in Nat,
         NEW k \in Nat \ {0}, Arguments(k, want, ch, tx, c)
  PROVE  ch # << >> /\ Arguments(k - 1, want, Tail(ch), tx, c)
<1>1. ch # << >> /\ Len(ch) \in Nat /\ Len(tx) \in Nat /\ Len(want) \in Nat
  BY DEF Arguments
<1>2. Len(Tail(ch)) = Len(ch) - 1 /\ \A i \in 1..Len(Tail(ch)) : Tail(ch)[i] = ch[i + 1]
  BY <1>1, HeadTailProperties
<1>3. ASSUME NEW i \in 1..Len(want)
      PROVE  IF (k - 1) + i <= Len(Tail(ch)) THEN Tail(ch)[(k - 1) + i] = Unit(want[i], c)
             ELSE tx[((k - 1) + i) - Len(Tail(ch))] = want[i]
  <2>1. IF k + i <= Len(ch) THEN ch[k + i] = Unit(want[i], c)
        ELSE tx[(k + i) - Len(ch)] = want[i]
    BY DEF Arguments
  <2>2. ((k - 1) + i) + 1 = k + i /\ (k - 1) + i >= 1
        /\ ((k - 1) + i) - Len(Tail(ch)) = (k + i) - Len(ch)
    BY <1>1, <1>2
  <2> QED
    BY <1>1, <1>2, <2>1, <2>2
<1>4. k - 1 <= Len(Tail(ch)) /\ Len(Tail(ch)) + Len(tx) = (k - 1) + Len(want)
  BY <1>1, <1>2 DEF Arguments
<1> QED
  BY <1>1, <1>3, <1>4 DEF Arguments

LEMMA AllToSend ==
  ASSUME NEW want \in Seq(Payload), NEW ch, NEW c, NEW k \in Nat, Len(ch) = k
  PROVE  Arguments(k, want, ch, want, c)
<1>1. Len(want) \in Nat
  OBVIOUS
<1>2. \A i \in 1..Len(want) : ~(k + i <= k) /\ (k + i) - k = i
  BY <1>1
<1> QED
  BY <1>1, <1>2 DEF Arguments

LEMMA ArgumentsTake ==
  ASSUME NEW want \in Seq(Payload), NEW ch \in Seq(Units), NEW tx \in Seq(Payload), NEW c \in Nat,
         Arguments(0, want, ch, tx, c), want # << >>, ch # << >>
  PROVE  /\ Head(ch) = Unit(Head(want), c)
         /\ Arguments(0, Tail(want), Tail(ch), tx, c)
<1>1. /\ Len(ch) \in Nat \ {0} /\ Len(tx) \in Nat /\ Len(want) \in Nat \ {0}
      /\ Head(ch) = ch[1] /\ Head(want) = want[1]
  OBVIOUS
<1>2. Len(Tail(ch)) = Len(ch) - 1 /\ \A i \in 1..Len(Tail(ch)) : Tail(ch)[i] = ch[i + 1]
  BY HeadTailProperties
<1>3. /\ Len(Tail(want)) = Len(want) - 1
      /\ \A i \in 1..Len(Tail(want)) : Tail(want)[i] = want[i + 1]
  BY HeadTailProperties
<1>4. Head(ch) = Unit(Head(want), c)
  BY <1>1 DEF Arguments
<1>5. ASSUME NEW i \in 1..Len(Tail(want))
      PROVE  IF 0 + i <= Len(Tail(ch)) THEN Tail(ch)[0 + i] = Unit(Tail(want)[i], c)
             ELSE tx[(0 + i) - Len(Tail(ch))] = Tail(want)[i]
  <2>1. i + 1 \in 1..Len(want) /\ Tail(want)[i] = want[i + 1]
    BY <1>1, <1>3
  <2>2. IF i + 1 <= Len(ch) THEN ch[i + 1] = Unit(want[i + 1], c)
        ELSE tx[(i + 1) - Len(ch)] = want[i + 1]
    BY <1>1, <2>1 DEF Arguments
  <2> QED
    BY <1>1, <1>2, <2>1, <2>2
<1> QED
  BY <1>1, <1>2, <1>3, <1>4, <1>5 DEF Arguments

LEMMA ArgumentsSend ==
  ASSUME NEW want \in Seq(Payload), NEW ch \in Seq(Units), NEW tx \in Seq(Payload), NEW c \in Nat,
         NEW k \in Nat, Arguments(k, want, ch, tx, c), tx # << >>
  PROVE  Arguments(k, want, Append(ch, Unit(Head(tx), c)), Tail(tx), c)
<1> DEFINE u == Unit(Head(tx), c)
           ch2 == Append(ch, u)
           tx2 == Tail(tx)
<1>1. Len(ch) \in Nat /\ Len(tx) \in Nat \ {0} /\ Len(want) \in Nat /\ Head(tx) = tx[1]
  OBVIOUS
<1>2. u \in Units
  <2>1. Head(tx) \in Kinds
    BY DEF Kinds
  <2> QED
    BY <2>1, UnitTypes
<1> HIDE DEF u
<1>3. /\ Len(ch2) = Len(ch) + 1 /\ ch2[Len(ch) + 1] = u
      /\ \A i \in 1..Len(ch) : ch2[i] = ch[i]
  BY <1>2, AppendProperties
<1>4. Len(tx2) = Len(tx) - 1 /\ \A i \in 1..Len(tx2) : tx2[i] = tx[i + 1]
  BY HeadTailProperties
<1> HIDE DEF ch2, tx2
<1>5. ASSUME NEW i \in 1..Len(want)
      PROVE  /\ k + i <= Len(ch) + 1 => ch2[k + i] = Unit(want[i], c)
             /\ k + i > Len(ch) + 1 => tx2[(k + i) - (Len(ch) + 1)] = want[i]
  <2>1. /\ k + i <= Len(ch) => ch[k + i] = Unit(want[i], c)
        /\ k + i > Len(ch) => tx[(k + i) - Len(ch)] = want[i]
    BY <1>1 DEF Arguments
  <2>2. CASE k + i <= Len(ch)
    BY <1>1, <1>3, <2>1, <2>2
  <2>3. CASE k + i = Len(ch) + 1
    <3>1. want[i] = tx[1]
      BY <1>1, <2>1, <2>3
    <3> QED
      BY <1>1, <1>3, <2>3, <3>1 DEF u
  <2>4. CASE k + i > Len(ch) + 1
    <3>1. k + i <= Len(ch) + Len(tx)
      BY <1>1 DEF Arguments
    <3>2. (k + i) - (Len(ch) + 1) \in 1..Len(tx2)
      BY <1>1, <1>4, <2>4, <3>1
    <3>3. tx2[(k + i) - (Len(ch) + 1)] = tx[((k + i) - (Len(ch) + 1)) + 1]
      BY <1>4, <3>2
    <3>4. ((k + i) - (Len(ch) + 1)) + 1 = (k + i) - Len(ch)
      BY <1>1
    <3>5. tx[(k + i) - Len(ch)] = want[i]
      BY <1>1, <2>1, <2>4
    <3> QED
      BY <1>1, <2>4, <3>3, <3>4, <3>5
  <2>5. k + i <= Len(ch) \/ k + i = Len(ch) + 1 \/ k + i > Len(ch) + 1
    BY <1>1
  <2> QED
    BY <2>2, <2>3, <2>4, <2>5
<1>6. /\ k <= Len(ch2)
      /\ Len(ch2) + Len(tx2) = k + Len(want)
  BY <1>1, <1>3, <1>4 DEF Arguments
<1>7. ASSUME NEW i \in 1..Len(want)
      PROVE  IF k + i <= Len(ch2) THEN ch2[k + i] = Unit(want[i], c)
             ELSE tx2[(k + i) - Len(ch2)] = want[i]
  BY <1>1, <1>3, <1>5
<1> QED
  BY <1>6, <1>7 DEF Arguments, u, ch2, tx2

LEMMA ComingTake ==
  ASSUME NEW want \in Seq(Payload), NEW ch \in Seq(Units), NEW tx \in Seq(Units), NEW c \in Nat,
         NEW skip, Coming(want, ch, tx, c, skip), want # << >>, ch # << >>
  PROVE  /\ Head(ch) = Unit(Head(want), c)
         /\ Coming(Tail(want), Tail(ch), tx, c, skip)
<1>1. /\ Len(ch) \in Nat \ {0} /\ Len(tx) \in Nat /\ Len(want) \in Nat \ {0}
      /\ Head(ch) = ch[1] /\ Head(want) = want[1]
  OBVIOUS
<1>2. Len(Tail(ch)) = Len(ch) - 1 /\ \A i \in 1..Len(Tail(ch)) : Tail(ch)[i] = ch[i + 1]
  BY HeadTailProperties
<1>3. /\ Len(Tail(want)) = Len(want) - 1
      /\ \A i \in 1..Len(Tail(want)) : Tail(want)[i] = want[i + 1]
  BY HeadTailProperties
<1>4. Head(ch) = Unit(Head(want), c)
  BY <1>1 DEF Coming
<1>5. ASSUME NEW i \in 1..(Len(Tail(ch)) + Len(tx))
      PROVE  LET u == IF i <= Len(Tail(ch)) THEN Tail(ch)[i] ELSE tx[i - Len(Tail(ch))] IN
               IF i <= Len(Tail(want)) THEN u = Unit(Tail(want)[i], c) ELSE u.kind \in skip
  <2>1. i + 1 \in 1..(Len(ch) + Len(tx))
    BY <1>1, <1>2
  <2>2. LET u == IF i + 1 <= Len(ch) THEN ch[i + 1] ELSE tx[(i + 1) - Len(ch)] IN
          IF i + 1 <= Len(want) THEN u = Unit(want[i + 1], c) ELSE u.kind \in skip
    BY <2>1 DEF Coming
  <2>3. i <= Len(Tail(ch)) => Tail(ch)[i] = ch[i + 1]
    BY <1>1, <1>2
  <2>4. i <= Len(Tail(want)) => Tail(want)[i] = want[i + 1]
    BY <1>1, <1>3
  <2> QED
    BY <1>1, <1>2, <1>3, <2>2, <2>3, <2>4
<1> QED
  BY <1>1, <1>2, <1>3, <1>4, <1>5 DEF Coming

LEMMA ComingEmit ==
  ASSUME NEW want \in Seq(Payload), NEW ch \in Seq(Units), NEW tx \in Seq(Units), NEW c \in Nat,
         NEW skip, Coming(want, ch, tx, c, skip), tx # << >>
  PROVE  Coming(want, Append(ch, Head(tx)), Tail(tx), c, skip)
<1>1. Len(ch) \in Nat /\ Len(tx) \in Nat \ {0} /\ Len(want) \in Nat /\ Head(tx) = tx[1]
  OBVIOUS
<1>2. Head(tx) \in Units
  OBVIOUS
<1>3. /\ Len(Append(ch, Head(tx))) = Len(ch) + 1
      /\ Append(ch, Head(tx))[Len(ch) + 1] = tx[1]
      /\ \A i \in 1..Len(ch) : Append(ch, Head(tx))[i] = ch[i]
  BY <1>1, <1>2, AppendProperties
<1>4. Len(Tail(tx)) = Len(tx) - 1 /\ \A i \in 1..Len(Tail(tx)) : Tail(tx)[i] = tx[i + 1]
  BY HeadTailProperties
<1>5. ASSUME NEW i \in 1..(Len(ch) + Len(tx))
      PROVE  (IF i <= Len(ch) + 1 THEN Append(ch, Head(tx))[i]
                ELSE Tail(tx)[i - (Len(ch) + 1)])
               = (IF i <= Len(ch) THEN ch[i] ELSE tx[i - Len(ch)])
  <2>1. CASE i <= Len(ch)
    BY <1>1, <1>3, <2>1
  <2>2. CASE i = Len(ch) + 1
    BY <1>1, <1>3, <2>2
  <2>3. CASE i > Len(ch) + 1
    <3>1. i - (Len(ch) + 1) \in 1..Len(Tail(tx))
      BY <1>1, <1>4, <2>3
    <3>2. (i - (Len(ch) + 1)) + 1 = i - Len(ch)
      BY <1>1
    <3> QED
      BY <1>1, <1>4, <2>3, <3>1, <3>2
  <2> QED
    BY <1>1, <2>1, <2>2, <2>3
<1>6. Len(ch) + Len(tx) = Len(Append(ch, Head(tx))) + Len(Tail(tx))
  BY <1>1, <1>3, <1>4
<1> QED
  BY <1>1, <1>3, <1>5, <1>6 DEF Coming

LEMMA TogetherInit == Init => Together
  BY DEF Init, Together, ServedInOrder, AtRest, FreshPoll, Answering, Requesting,
         Replying, Serving, AllServed, Polling, Resting, Listening

-----------------------------------------------------------------------------
(* The host polls.                                                         *)

LEMMA PollArrives ==
  ASSUME TypeOK, TypeOK', Together, hPhase \in {"poll", "pollF4"}, hPhase' \in Polling,
         NEW u \in PollUnits, dn' = Arrive(dn, u),
         IF hPhase = "poll" THEN u.kind = "no" ELSE u.kind = "f4" /\ hPhase' = "wait",
         UNCHANGED << hReq, hWant, hTx, wVars, up, asked, served >>
  PROVE  Together'
<1>0. /\ u \in Units /\ u.kind \in {"no", "f4"} /\ dn \in Seq(Units)
      /\ wPhase' = wPhase /\ wTx' = wTx /\ wWant' = wWant /\ wFunc' = wFunc
  BY UnitTypes DEF PollUnits, Unit, Kinds, TypeOK, wVars
<1>1. ~Serving
  BY DEF Serving
<1>2. wPhase \in Resting \union {"call"} => up = << >> /\ AllServed
  BY <1>1 DEF Together, AtRest, Replying, Polling
<1>3. wPhase \notin {"pong", "drain2", "sendcode", "lost"}
  BY DEF Together, Answering
<1>4. wPhase \in Resting \union {"call"}
  BY <1>3 DEF TypeOK, Resting
<1>5. ~Serving'
  BY <1>2, <1>4 DEF Serving, Polling
<1>6. /\ Len(dn') \in Nat /\ Len(dn) \in Nat /\ Len(dn) <= Len(dn')
      /\ \A i \in 1..Len(dn) : dn'[i] = dn[i]
      /\ \A i \in 1..Len(dn') : i \in 1..Len(dn) \/ (i = Len(dn') /\ dn'[i] = u)
  BY <1>0, Arrived
<1>7. AtRest'
  <2>1. SUFFICES ASSUME wPhase \in Resting
                 PROVE  /\ \A i \in 1..Len(dn') : dn'[i].kind \in {"no", "f4", "one"}
                        /\ \A i \in 1..Len(hTx) : hTx[i].kind = "one"
                        /\ up = << >> /\ AllServed /\ hPhase' # "dead"
    BY <1>0, <1>5 DEF AtRest, AllServed
  <2> QED
    BY <1>0, <1>1, <1>6, <2>1 DEF Together, AtRest, Polling
<1>8. FreshPoll'
  <2>1. SUFFICES ASSUME wPhase \in {"listen", "match"}, NEW i \in 1..Len(dn'),
                        dn'[i].kind = "f4"
                 PROVE  i = Len(dn') /\ hPhase' = "wait"
    BY <1>0 DEF FreshPoll
  <2>2. i \notin 1..Len(dn)
    BY <1>6, <2>1 DEF Together, FreshPoll
  <2> QED
    BY <1>6, <2>1, <2>2
<1>9. Replying'
  <2>1. SUFFICES ASSUME wPhase = "call"
                 PROVE  /\ asked # << >> /\ wFunc = latest
                        /\ up = << >> /\ wTx = << >> /\ AllServed
                        /\ Coming(wWant, dn', << >>, current, {"one", "no", "f4"})
    BY <1>0, <1>5 DEF Replying, AllServed, latest, current, Polling
  <2>2. /\ asked # << >> /\ wFunc = latest
        /\ up = << >> /\ wTx = << >> /\ AllServed
        /\ Coming(wWant, dn, << >>, current, {"one", "no", "f4"})
    BY <1>1, <2>1 DEF Together, Replying, Polling
  <2>3. Len(<< >>) = 0
    OBVIOUS
  <2>4. /\ Len(wWant) <= Len(dn) /\ Len(wWant) \in Nat
        /\ \A i \in 1..Len(dn) : IF i <= Len(wWant) THEN dn[i] = Unit(wWant[i], current)
                                 ELSE dn[i].kind \in {"one", "no", "f4"}
    BY <1>6, <2>2, <2>3, TypedLengths DEF Coming
  <2>5. /\ Len(wWant) <= Len(dn')
        /\ \A i \in 1..Len(dn') : IF i <= Len(wWant) THEN dn'[i] = Unit(wWant[i], current)
                                  ELSE dn'[i].kind \in {"one", "no", "f4"}
    BY <1>0, <1>6, <2>4
  <2> QED
    BY <1>6, <2>2, <2>3, <2>5 DEF Coming
<1> QED
  BY <1>0, <1>3, <1>5, <1>7, <1>8, <1>9
     DEF Together, ServedInOrder, Answering, Requesting, Polling

-----------------------------------------------------------------------------
(* The host receives and executes a request.                               *)

LEMMA StationPhases ==
  ASSUME TypeOK, Together
  PROVE  wPhase \in Resting \union {"call", "pong", "drain2", "sendcode"}
  BY DEF TypeOK, Together, Resting

LEMMA LatestTypes ==
  ASSUME TypeOK, asked # << >>
  PROVE  latest \in Funcs /\ current \in Nat \ {0}
<1>1. asked \in Seq(Funcs)
  BY DEF TypeOK
<1> QED
  BY <1>1 DEF latest, current

LEMMA HearPongTogether ==
  ASSUME TypeOK, TypeOK', Together, HearPong
  PROVE  Together'
<1>1. /\ hPhase = "wait" /\ up # << >> /\ up \in Seq(Units)
      /\ UNCHANGED << hReq, hWant, hTx, wVars, dn, asked, served >>
  BY DEF HearPong, TypeOK
<1>2. Serving /\ wPhase # "pong"
  BY <1>1 DEF Serving, Together, Answering
<1>3. wPhase \in {"drain2", "sendcode"} =>
        up = << Unit("pong", 0) >> /\ dn = << >> /\ AllServed
  BY <1>1 DEF Together, Answering
<1>4. wPhase \in Resting \union {"call"} =>
        /\ asked # << >> /\ Arguments(2, Expected[latest], up, wTx, current)
        /\ up[1] = Unit("pong", 0) /\ up[2] = CodeUnit(latest, current)
        /\ current = Len(served) + 1
  BY <1>1, <1>2 DEF Together, Requesting, Resting, Listening
<1>5. wPhase \in Resting \union {"call", "drain2", "sendcode"}
  BY <1>2, StationPhases
<1>6. Head(up) = Unit("pong", 0)
  <2>1. Head(up) = up[1]
    BY <1>1
  <2> QED
    BY <1>3, <1>4, <1>5, <2>1
<1>7. up' = Tail(up) /\ hPhase' = "getfunc"
  BY <1>1, <1>6 DEF HearPong, OneByteRead, Unit
<1>8. Serving'
  BY <1>7 DEF Serving
<1>9. CASE wPhase \in {"drain2", "sendcode"}
  <2>1. up' = << >>
    BY <1>3, <1>7, <1>9
  <2> QED
    BY <1>1, <1>3, <1>7, <1>8, <1>9, <2>1
       DEF Together, ServedInOrder, AllServed, AtRest, FreshPoll, Answering, Requesting,
           Replying, Resting, Listening, wVars
<1>10. CASE wPhase \in Resting \union {"call"}
  <2>1. Expected[latest] \in Seq(Payload) /\ wTx \in Seq(Payload) /\ current \in Nat
    BY <1>4, <1>10, LatestTypes, AgreedFormats DEF TypeOK
  <2>2. Arguments(1, Expected[latest], up', wTx, current)
    <3>1. Arguments(2 - 1, Expected[latest], Tail(up), wTx, current)
      BY <1>1, <1>4, <1>10, <2>1, ArgumentsSkip
    <3> QED
      BY <1>7, <3>1
  <2>3. up'[1] = CodeUnit(latest, current)
    <3>1. Len(up) >= 2
      BY <1>1, <1>4, <1>10 DEF Arguments
    <3>2. 1 \in 1..Len(Tail(up)) /\ Tail(up)[1] = up[1 + 1]
      BY <1>1, <3>1, HeadTailProperties
    <3> QED
      BY <1>4, <1>7, <1>10, <3>2
  <2>4. Requesting'
    BY <1>1, <1>4, <1>7, <1>10, <2>2, <2>3 DEF Requesting, latest, current, wVars
  <2>5. AtRest'
    BY <1>1, <1>2, <1>7, <1>8 DEF Together, AtRest, latest, wVars
  <2>6. FreshPoll'
    BY <1>1, <1>2, <1>7 DEF Together, AtRest, FreshPoll, Resting, Listening, wVars
  <2>7. Replying'
    BY <1>1, <1>2, <1>7, <1>8 DEF Together, Replying, latest, wVars, Polling
  <2>8. Answering'
    BY <1>1, <1>10 DEF Answering, Resting, Listening, wVars
  <2> QED
    BY <1>1, <1>7, <2>4, <2>5, <2>6, <2>7, <2>8 DEF Together, ServedInOrder, wVars
<1> QED
  BY <1>5, <1>9, <1>10

LEMMA GiveUpTogether ==
  ASSUME TypeOK, TypeOK', Together, GiveUp, ~broken'
  PROVE  Together'
<1>1. /\ hPhase \in {"wait", "getfunc"} /\ hPhase' = "poll" /\ Quiet
      /\ UNCHANGED << hReq, hWant, hTx, wVars, up, dn, asked, served >>
  BY DEF GiveUp
<1>2. up = << >> /\ wPhase \in Resting /\ (wPhase \in Listening => dn = << >>)
  BY <1>1 DEF Quiet, Resting, Listening
<1>3. hPhase = "wait"
  <2>1. SUFFICES ASSUME hPhase = "getfunc" PROVE FALSE
    BY <1>1
  <2>2. Arguments(1, Expected[latest], up, wTx, current)
    BY <1>2, <2>1 DEF Together, Requesting, Serving, Resting, Listening
  <2> QED
    BY <1>2, <2>2 DEF Arguments
<1>4. ~Serving /\ ~Serving'
  BY <1>1, <1>2, <1>3 DEF Serving
<1> QED
  BY <1>1, <1>2, <1>3, <1>4
     DEF Together, ServedInOrder, AtRest, AllServed, FreshPoll, Answering, Requesting,
         Replying, Resting, Listening, wVars

LEMMA GetFuncTogether ==
  ASSUME TypeOK, TypeOK', Together, GetFunc
  PROVE  Together'
<1>1. /\ hPhase = "getfunc" /\ up # << >> /\ up \in Seq(Units)
      /\ UNCHANGED << hTx, wVars, dn, asked, served >>
  BY DEF GetFunc, TypeOK
<1>2. Serving /\ wPhase \notin {"pong", "drain2", "sendcode"}
  BY <1>1 DEF Serving, Together, Answering
<1>3. /\ asked # << >> /\ Arguments(1, Expected[latest], up, wTx, current)
      /\ up[1] = CodeUnit(latest, current) /\ current = Len(served) + 1
  BY <1>1, <1>2 DEF Together, Requesting
<1>4. /\ latest \in Funcs /\ current \in Nat
      /\ Expected[latest] \in Seq(Payload) /\ wTx \in Seq(Payload)
  BY <1>3, LatestTypes, AgreedFormats DEF TypeOK
<1>5. Head(up) = CodeUnit(latest, current)
  BY <1>1, <1>3
<1>6. /\ up' = Tail(up) /\ hWant' = Expected[latest]
      /\ hReq' = [func |-> latest, call |-> current, intact |-> TRUE]
      /\ hPhase' = IF Expected[latest] = << >> THEN "exec" ELSE "rxdata"
  <2>1. PICK f \in Codes : /\ Understood(Head(up), f)
                            /\ hReq' = [func |-> f, call |-> Head(up).call,
                                        intact |-> Head(up).kind = "code"]
                            /\ hWant' = Expected[f]
                            /\ hPhase' = IF Expected[f] = << >> THEN "exec" ELSE "rxdata"
    BY DEF GetFunc
  <2>2. /\ Head(up).kind = "code" /\ Head(up).func = latest /\ Head(up).call = current
    BY <1>5 DEF CodeUnit
  <2>3. f = latest
    BY <2>1, <2>2 DEF Understood, DataKinds, ChunkKinds
  <2>4. up' = Tail(up)
    BY <2>2 DEF GetFunc, OneByteRead
  <2> QED
    BY <2>1, <2>2, <2>3, <2>4
<1>7. Arguments(0, Expected[latest], up', wTx, current)
  <2>1. Arguments(1 - 1, Expected[latest], Tail(up), wTx, current)
    BY <1>1, <1>3, <1>4, ArgumentsSkip
  <2> QED
    BY <1>6, <2>1
<1>8. Serving' /\ hPhase' \in {"exec", "rxdata"}
  BY <1>6 DEF Serving
<1>9. Requesting'
  <2>1. ASSUME Expected[latest] = << >>
        PROVE  up' = << >> /\ wTx = << >>
    <3>1. up' \in Seq(Units) /\ wTx \in Seq(Payload)
      BY <1>4 DEF TypeOK
    <3>2. Len(up') + Len(wTx) = 0 + Len(Expected[latest])
      BY <1>7 DEF Arguments
    <3>3. Len(Expected[latest]) = 0
      BY <2>1
    <3>4. Len(up') \in Nat /\ Len(wTx) \in Nat
      BY <3>1
    <3>5. Len(up') = 0 /\ Len(wTx) = 0
      BY <3>2, <3>3, <3>4
    <3>6. up' = << >>
      BY <3>1, <3>5, EmptySeq
    <3>7. wTx = << >>
      BY <3>1, <3>5, EmptySeq
    <3> QED
      BY <3>6, <3>7
  <2> QED
    BY <1>1, <1>2, <1>3, <1>6, <1>7, <1>8, <2>1
       DEF Requesting, latest, current, wVars
<1>10. AtRest'
  BY <1>1, <1>2, <1>8 DEF Together, AtRest, latest, wVars
<1>11. FreshPoll'
  BY <1>1, <1>2 DEF Together, AtRest, FreshPoll, Resting, Listening, wVars
<1>12. Replying'
  BY <1>1, <1>2, <1>8 DEF Together, Replying, latest, wVars, Polling
<1> QED
  BY <1>1, <1>2, <1>8, <1>9, <1>10, <1>11, <1>12
     DEF Together, ServedInOrder, Answering, wVars

\* What the host takes as an item is that item, of the current call.
LEMMA NextItem ==
  ASSUME TypeOK, Together, hPhase = "rxdata", up # << >>
  PROVE  /\ Head(up) = Unit(Head(hWant), current)
         /\ Arguments(0, Tail(hWant), Tail(up), wTx, current)
         /\ hReq = [func |-> latest, call |-> current, intact |-> TRUE]
<1>1. Serving /\ wPhase \notin {"pong", "drain2", "sendcode"}
  BY DEF Serving, Together, Answering
<1>2. /\ asked # << >> /\ Arguments(0, hWant, up, wTx, current)
      /\ hReq = [func |-> latest, call |-> current, intact |-> TRUE]
  BY <1>1 DEF Together, Requesting
<1>3. /\ current \in Nat /\ hWant \in Seq(Payload) /\ hWant # << >>
      /\ up \in Seq(Units) /\ wTx \in Seq(Payload)
  BY <1>2, LatestTypes DEF TypeOK
<1> QED
  BY <1>2, <1>3, ArgumentsTake

LEMMA RxUnitTogether ==
  ASSUME TypeOK, TypeOK', Together, RxUnit
  PROVE  Together'
<1>1. /\ hPhase = "rxdata" /\ up # << >> /\ up \in Seq(Units) /\ Tail(up) \in Seq(Units)
      /\ UNCHANGED << hTx, wVars, dn, asked, served >>
  BY DEF RxUnit, TypeOK
<1>2. Serving /\ wPhase \notin {"pong", "drain2", "sendcode"}
  BY <1>1 DEF Serving, Together, Answering
<1>3. asked # << >> /\ current = Len(served) + 1
  BY <1>1, <1>2 DEF Together, Requesting
<1>4. /\ Head(up) = Unit(Head(hWant), current)
      /\ Arguments(0, Tail(hWant), Tail(up), wTx, current)
      /\ hReq = [func |-> latest, call |-> current, intact |-> TRUE]
  BY <1>1, NextItem
<1>5. hReq' = hReq
  <2>1. hReq.intact = TRUE /\ Head(up).call = hReq.call
    BY <1>4 DEF Unit
  <2>2. hReq' = [hReq EXCEPT !.intact = TRUE]
    BY <2>1 DEF RxUnit
  <2>3. hReq \in Requests
    BY DEF TypeOK
  <2> QED
    BY <2>1, <2>2, <2>3 DEF Requests
<1>6. Took(Tail(up), Tail(hWant)) /\ hWant' = Tail(hWant)
  BY DEF RxUnit, Took
<1>7. Serving' /\ hPhase' \in {"exec", "rxdata"}
  BY <1>6 DEF Serving, Took
<1>8. CASE Tail(hWant) = << >>
  <2>1. Tail(up) = << >> /\ wTx = << >>
    <3>1. wTx \in Seq(Payload)
      BY DEF TypeOK
    <3> QED
      BY <1>1, <1>4, <1>8, <3>1 DEF Arguments
  <2>2. up' = << >> /\ hPhase' = "exec"
    <3>1. up' \in Suffixes(<< >>) /\ hPhase' = "exec"
      BY <1>6, <1>8, <2>1 DEF Took
    <3>2. \A r \in Suffixes(<< >>) : r = << >>
      BY SubSeqEmpty DEF Suffixes
    <3> QED
      BY <3>1, <3>2
  <2> QED
    BY <1>1, <1>2, <1>3, <1>4, <1>5, <1>7, <2>1, <2>2
       DEF Requesting, Together, ServedInOrder, AtRest, FreshPoll, Answering, Replying,
           Resting, Listening, Polling, latest, current, wVars
<1>9. CASE Tail(hWant) # << >>
  <2>1. up' = Tail(up) /\ hPhase' = "rxdata"
    BY <1>6, <1>9 DEF Took
  <2>2. Requesting'
    BY <1>1, <1>2, <1>3, <1>4, <1>5, <1>6, <1>7, <2>1 DEF Requesting, latest, current, wVars
  <2> QED
    BY <1>1, <1>2, <1>7, <2>1, <2>2
       DEF Together, ServedInOrder, AtRest, FreshPoll, Answering, Replying,
           Resting, Listening, Polling, latest, wVars
<1> QED
  BY <1>8, <1>9

\* No item is mistaken for another.
LEMMA NotRxGarbled ==
  ASSUME TypeOK, Together
  PROVE  ~RxGarbled
<1> SUFFICES ASSUME RxGarbled PROVE FALSE
  OBVIOUS
<1>1. Head(up) = Unit(Head(hWant), current) /\ Head(up).kind # Head(hWant)
  BY NextItem DEF RxGarbled
<1> QED
  BY <1>1 DEF Unit

LEMMA ExecTogether ==
  ASSUME TypeOK, TypeOK', Together, Exec
  PROVE  Together'
<1>1. /\ hPhase = "exec" /\ served' = Append(served, hReq)
      /\ UNCHANGED << hReq, hWant, wVars, up, dn, asked >>
  BY DEF Exec
<1>2. Serving /\ wPhase \notin {"pong", "drain2", "sendcode", "lost"}
  BY <1>1 DEF Serving, Together, Answering
<1>3. /\ asked # << >> /\ up = << >> /\ wTx = << >>
      /\ hReq = [func |-> latest, call |-> current, intact |-> TRUE]
      /\ current = Len(served) + 1
  BY <1>1, <1>2 DEF Together, Requesting
<1>4. latest \in Funcs /\ current \in Nat /\ hReq.func = latest /\ hReq.call = current
  BY <1>3, LatestTypes
<1>5. /\ latest # "FXX"
      /\ Reply[latest] \in Seq(Payload) /\ Wanted[latest] \in Seq(Payload)
      /\ \/ Reply[latest] = Wanted[latest]
         \/ /\ Wanted[latest] = << >>
            /\ \A i \in 1..Len(Reply[latest]) : Reply[latest][i] = "one"
      /\ latest \in FileFuncs \union {"F12"} => Wanted[latest] # << >>
  BY <1>4, AgreedFormats
<1>6. \/ hPhase' = "emit" /\ hTx' = UnitsOf(Reply[latest], current)
      \/ hPhase' = "dead" /\ hTx' = << >> /\ Wanted[latest] # << >>
  BY <1>4, <1>5 DEF Exec, MayKill
<1>7. /\ Len(served') = current /\ Len(served) \in Nat
      /\ \A i \in 1..current : i \in 1..Len(served) \/ i = current
      /\ \A i \in 1..Len(served) : served'[i] = served[i]
      /\ served'[current] = [func |-> latest, call |-> current, intact |-> TRUE]
  <2>1. hReq \in Requests /\ served \in Seq(Requests)
    BY DEF TypeOK
  <2> QED
    BY <1>1, <1>3, <2>1, AppendProperties
<1>8. ServedInOrder'
  BY <1>1, <1>7 DEF Together, ServedInOrder, latest, current
<1>9. AllServed'
  BY <1>1, <1>7 DEF AllServed, current
<1>10. wPhase = "call" => dn = << >> /\ wWant = Wanted[latest] /\ wFunc = latest
  BY <1>1, <1>2 DEF Together, Replying
<1>11. wPhase \in Resting =>
         Wanted[latest] = << >> /\ \A i \in 1..Len(dn) : dn[i].kind = "one"
  BY <1>1, <1>2 DEF Together, AtRest
<1>12. CASE hPhase' = "dead"
  <2>1. wPhase = "call" /\ ~Serving'
    BY <1>2, <1>6, <1>11, <1>12, StationPhases DEF Serving
  <2> QED
    BY <1>1, <1>3, <1>6, <1>8, <1>9, <1>10, <1>12, <2>1
       DEF Together, AtRest, FreshPoll, Answering, Requesting, Replying, Resting,
           Listening, Polling, latest, wVars
<1>13. CASE hPhase' = "emit"
  <2>1. hTx' = UnitsOf(Reply[latest], current) /\ Serving'
    BY <1>6, <1>13 DEF Serving
  <2>2. /\ Len(hTx') = Len(Reply[latest])
        /\ \A i \in 1..Len(hTx') : hTx'[i] = Unit(Reply[latest][i], current)
    BY <1>5, <2>1 DEF UnitsOf
  <2>3. Wanted[latest] = << >> => \A i \in 1..Len(hTx') : hTx'[i].kind = "one"
    <3>1. SUFFICES ASSUME Wanted[latest] = << >>, NEW i \in 1..Len(hTx')
                   PROVE  hTx'[i].kind = "one"
      OBVIOUS
    <3>2. hTx'[i] = Unit(Reply[latest][i], current) /\ i \in 1..Len(Reply[latest])
      BY <2>2
    <3>3. Reply[latest][i] = "one"
      BY <1>5, <3>1, <3>2
    <3> QED
      BY <3>2, <3>3 DEF Unit
  <2>4. wPhase = "call" => Coming(wWant, dn, hTx', current, {"one"})
    <3>1. SUFFICES ASSUME wPhase = "call"
                   PROVE  Coming(Wanted[latest], << >>, hTx', current, {"one"})
      BY <1>10
    <3>2. CASE Reply[latest] = Wanted[latest]
      BY <1>5, <2>2, <3>2 DEF Coming
    <3>3. CASE Wanted[latest] = << >>
      BY <1>5, <2>2, <2>3, <3>3 DEF Coming
    <3> QED
      BY <1>5, <3>2, <3>3
  <2>5. AtRest'
    BY <1>1, <1>11, <1>13, <2>1, <2>3 DEF AtRest, wVars
  <2>6. FreshPoll'
    BY <1>1, <1>11 DEF FreshPoll, Resting, Listening, wVars
  <2>7. Requesting'
    BY <1>1, <1>2, <1>3, <1>7, <1>13 DEF Requesting, latest, current, wVars
  <2>8. Replying'
    BY <1>1, <1>3, <1>10, <1>13, <2>1, <2>4 DEF Replying, latest, current, wVars, Polling
  <2> QED
    BY <1>1, <1>2, <1>8, <1>13, <2>5, <2>6, <2>7, <2>8 DEF Together, Answering, wVars
<1> QED
  BY <1>6, <1>12, <1>13

-----------------------------------------------------------------------------
(* The host replies, and is restarted.                                     *)

LEMMA EmitUnitTogether ==
  ASSUME TypeOK, TypeOK', Together, EmitUnit
  PROVE  Together'
<1> DEFINE u == Head(hTx)
<1>1. /\ hPhase = "emit" /\ hPhase' = "emit" /\ hTx # << >> /\ hTx \in Seq(Units)
      /\ dn \in Seq(Units) /\ u \in Units /\ u = hTx[1] /\ hTx' = Tail(hTx)
      /\ dn' = Arrive(dn, u) /\ (wPhase = "idle" \/ Len(dn) < FifoSize)
      /\ UNCHANGED << hReq, hWant, wVars, up, asked, served >>
  BY DEF EmitUnit, TypeOK
<1> HIDE DEF u
<1>2. Serving /\ Serving' /\ wPhase \notin {"pong", "drain2", "sendcode", "lost"}
  BY <1>1 DEF Serving, Together, Answering
<1>3. /\ Len(dn') \in Nat /\ Len(dn) \in Nat
      /\ Len(dn) < FifoSize => dn' = Append(dn, u)
      /\ \A i \in 1..Len(dn) : dn'[i] = dn[i]
      /\ \A i \in 1..Len(dn') : i \in 1..Len(dn) \/ dn'[i] = u
  <2>1. dn \in Seq(Units) /\ u \in Units /\ dn' = Arrive(dn, u)
    BY <1>1
  <2> QED
    BY ONLY <2>1, Arrived
<1>4. /\ Len(hTx) \in Nat \ {0} /\ Len(hTx') = Len(hTx) - 1
      /\ \A i \in 1..Len(hTx') : hTx'[i] = hTx[i + 1]
  BY <1>1, HeadTailProperties
<1>5. wPhase \in Resting =>
        /\ \A i \in 1..Len(dn') : dn'[i].kind = "one"
        /\ \A i \in 1..Len(hTx') : hTx'[i].kind = "one"
  <2>1. SUFFICES ASSUME wPhase \in Resting
                 PROVE  /\ \A i \in 1..Len(dn') : dn'[i].kind = "one"
                        /\ \A i \in 1..Len(hTx') : hTx'[i].kind = "one"
    OBVIOUS
  <2>2. /\ \A i \in 1..Len(dn) : dn[i].kind = "one"
        /\ \A i \in 1..Len(hTx) : hTx[i].kind = "one"
    BY <1>2, <2>1 DEF Together, AtRest
  <2>3. u.kind = "one"
    BY <1>1, <1>4, <2>2
  <2>4. \A i \in 1..Len(hTx') : i + 1 \in 1..Len(hTx)
    BY <1>4
  <2> QED
    BY <1>3, <1>4, <2>2, <2>3, <2>4
<1>6. wPhase = "call" => Coming(wWant, dn', hTx', current, {"one"})
  <2>1. SUFFICES ASSUME wPhase = "call"
                 PROVE  Coming(wWant, dn', hTx', current, {"one"})
    OBVIOUS
  <2>2. asked # << >> /\ Coming(wWant, dn, hTx, current, {"one"})
    BY <1>1, <2>1 DEF Together, Replying
  <2>3. current \in Nat /\ wWant \in Seq(Payload)
    BY <2>2, LatestTypes DEF TypeOK
  <2>4. dn' = Append(dn, Head(hTx)) /\ hTx' = Tail(hTx)
    BY <1>1, <1>3, <2>1 DEF u
  <2> QED
    BY <1>1, <2>2, <2>3, <2>4, ComingEmit
<1>7. AtRest'
  BY <1>1, <1>2, <1>5 DEF AtRest, wVars
<1>8. FreshPoll'
  BY <1>1, <1>5 DEF FreshPoll, Resting, Listening, wVars
<1>9. Requesting'
  BY <1>1, <1>2 DEF Together, Requesting, latest, current, wVars
<1>10. Replying'
  BY <1>1, <1>2, <1>6 DEF Together, Replying, latest, current, wVars, Polling
<1> QED
  BY <1>1, <1>2, <1>7, <1>8, <1>9, <1>10 DEF Together, ServedInOrder, Answering, wVars

LEMMA EmitEndTogether ==
  ASSUME TypeOK, TypeOK', Together, EmitEnd
  PROVE  Together'
<1>1. /\ hPhase = "emit" /\ hPhase' = "poll" /\ hTx = << >>
      /\ UNCHANGED << hReq, hWant, hTx, wVars, up, dn, asked, served >>
  BY DEF EmitEnd
<1>2. Serving /\ ~Serving' /\ wPhase \notin {"pong", "drain2", "sendcode", "lost"}
  BY <1>1 DEF Serving, Together, Answering
<1>3. up = << >> /\ wTx = << >> /\ AllServed
  BY <1>1, <1>2, TypedLengths DEF Together, Requesting, AllServed, current
<1>4. wPhase = "call" => Coming(wWant, dn, << >>, current, {"one", "no", "f4"})
  BY <1>1, TypedLengths DEF Together, Replying, Coming
<1>5. AtRest'
  BY <1>1, <1>2, <1>3 DEF Together, AtRest, AllServed, wVars
<1>6. FreshPoll'
  BY <1>1, <1>2 DEF Together, AtRest, FreshPoll, Resting, Listening, wVars
<1>7. Replying'
  BY <1>1, <1>2, <1>3, <1>4 DEF Together, Replying, AllServed, latest, current, wVars, Polling
<1> QED
  BY <1>1, <1>2, <1>5, <1>6, <1>7 DEF Together, ServedInOrder, Answering, Requesting, wVars

LEMMA RestartTogether ==
  ASSUME TypeOK, TypeOK', Together, Restart, ~broken'
  PROVE  Together'
<1>1. /\ HarmlessRestart /\ hPhase' = "poll" /\ hTx' = << >> /\ up' = << >>
      /\ UNCHANGED << wVars, dn, asked, served >>
  BY DEF Restart
<1>2. /\ wPhase \in Resting /\ (wPhase \in Listening => dn = << >>)
      /\ up = << >> /\ hPhase \notin {"getfunc", "rxdata", "exec"}
  BY <1>1 DEF HarmlessRestart, Quiet, Resting, Listening
<1>3. AllServed
  <2>1. CASE hPhase = "emit"
    BY <1>2, <2>1, TypedLengths
       DEF Together, Requesting, Serving, AllServed, current, Resting, Listening
  <2>2. CASE hPhase # "emit"
    <3>1. ~Serving
      BY <1>2, <2>2 DEF Serving
    <3> QED
      BY <1>2, <3>1 DEF Together, AtRest
  <2> QED
    BY <2>1, <2>2
<1>4. ~Serving'
  BY <1>1 DEF Serving
<1>5. AtRest'
  <2>1. \A i \in 1..Len(hTx') : hTx'[i].kind = "one"
    BY <1>1
  <2> QED
    BY <1>1, <1>2, <1>3, <1>4, <2>1 DEF Together, AtRest, AllServed, wVars
<1> QED
  BY <1>1, <1>2, <1>4, <1>5
     DEF Together, ServedInOrder, FreshPoll, Answering, Requesting, Replying, Resting,
         Listening, wVars

-----------------------------------------------------------------------------
(* The workstation rests, listens and answers.                             *)

\* A resting workstation that skips what is at the head of the FIFO, or
\* nothing, and goes on resting.
LEMMA RestTogether ==
  ASSUME TypeOK, TypeOK', Together, wPhase \in Resting, wPhase' \in Resting,
         \/ dn' = dn
         \/ dn # << >> /\ dn' = Tail(dn),
         wPhase' \in {"listen", "match"} => dn' = << >> \/ wPhase \in {"listen", "match"},
         UNCHANGED << hVars, wTx, wWant, up, asked, served >>
  PROVE  Together'
<1>1. /\ \A i \in 1..Len(dn') : \E j \in 1..Len(dn) :
           dn'[i] = dn[j] /\ Len(dn) - j = Len(dn') - i
      /\ Len(dn) \in Nat /\ Len(dn') \in Nat
  <2>1. Len(dn) \in Nat /\ Len(dn') \in Nat
    BY DEF TypeOK
  <2>2. CASE dn' = dn
    BY <2>1, <2>2
  <2>3. CASE dn # << >> /\ dn' = Tail(dn)
    <3>1. /\ Len(dn') = Len(dn) - 1 /\ \A i \in 1..Len(dn') : dn'[i] = dn[i + 1]
      BY <2>3, HeadTailProperties DEF TypeOK
    <3>2. ASSUME NEW i \in 1..Len(dn')
          PROVE  i + 1 \in 1..Len(dn) /\ dn'[i] = dn[i + 1]
                 /\ Len(dn) - (i + 1) = Len(dn') - i
      BY <2>1, <3>1
    <3> QED
      BY <2>1, <3>2
  <2> QED
    BY <2>2, <2>3
<1>2. Serving' <=> Serving
  BY DEF Serving, hVars
<1>3. AtRest'
  BY <1>1, <1>2 DEF Together, AtRest, AllServed, latest, hVars
<1>4. FreshPoll'
  <2>1. SUFFICES ASSUME wPhase' \in {"listen", "match"}, NEW i \in 1..Len(dn'),
                        dn'[i].kind = "f4"
                 PROVE  i = Len(dn') /\ hPhase = "wait"
    BY DEF FreshPoll, hVars
  <2>2. wPhase \in {"listen", "match"}
    <3>1. dn' # << >>
      BY <1>1, <2>1
    <3> QED
      BY <2>1, <3>1
  <2>3. PICK j \in 1..Len(dn) : dn'[i] = dn[j] /\ Len(dn) - j = Len(dn') - i
    BY <1>1
  <2>4. j = Len(dn) /\ hPhase = "wait"
    BY <2>1, <2>2, <2>3 DEF Together, FreshPoll
  <2> QED
    BY <1>1, <2>3, <2>4
<1>5. Requesting'
  BY <1>2 DEF Together, Requesting, Resting, Listening, latest, current, hVars
<1> QED
  BY <1>2, <1>3, <1>4, <1>5
     DEF Together, ServedInOrder, Answering, Replying, Resting, Listening, hVars

LEMMA CallTogether ==
  ASSUME TypeOK, TypeOK', Together, NEW f \in Funcs, Call(f)
  PROVE  Together'
  BY RestTogether DEF Call, Resting, Listening

LEMMA EscapeTogether ==
  ASSUME TypeOK, TypeOK', Together, Escape
  PROVE  Together'
  BY RestTogether DEF Escape, Resting, Listening

LEMMA DrainUnitTogether ==
  ASSUME TypeOK, TypeOK', Together, DrainUnit
  PROVE  Together'
<1>1. wPhase = "drain" /\ dn # << >>
  BY DEF DrainUnit, Together, Answering
<1>2. dn' = Tail(dn) /\ ~MayBeZero(Head(dn))
  BY <1>1, RestReads DEF DrainUnit, Resting, Listening, MayBeZero, DataKinds, ChunkKinds
<1>3. wPhase' = "drain"
  BY <1>1, <1>2 DEF DrainUnit
<1> QED
  BY <1>1, <1>2, <1>3, RestTogether DEF DrainUnit, Resting, Listening

LEMMA DrainStopTogether ==
  ASSUME TypeOK, TypeOK', Together, DrainStop
  PROVE  Together'
<1>1. CASE wPhase = "drain"
  BY <1>1, RestTogether DEF DrainStop, Resting, Listening
<1>2. CASE wPhase = "drain2"
  <2>1. /\ wPhase' = "sendcode" /\ dn = << >>
        /\ UNCHANGED << hVars, wFunc, wTx, wWant, up, dn, asked, served >>
    BY <1>2 DEF DrainStop
  <2> QED
    BY <1>2, <2>1 DEF Together, ServedInOrder, AtRest, FreshPoll, Answering, AllServed,
         Requesting, Replying, Resting, Listening, Serving, hVars
<1> QED
  BY <1>1, <1>2 DEF DrainStop

LEMMA HearNoTogether ==
  ASSUME TypeOK, TypeOK', Together, HearNo
  PROVE  Together'
<1>1. wPhase = "listen" /\ dn # << >> /\ wPhase' \in {"match", "listen"}
  BY DEF HearNo
<1>2. dn' = Tail(dn)
  BY <1>1, RestReads DEF HearNo, Resting, Listening
<1> QED
  BY <1>1, <1>2, RestTogether DEF HearNo, Resting, Listening

LEMMA HearF4Together ==
  ASSUME TypeOK, TypeOK', Together, HearF4
  PROVE  Together'
<1>1. wPhase = "match" /\ dn # << >> /\ wPhase' \in {"pong", "listen"}
      /\ UNCHANGED << hVars, wFunc, wTx, wWant, up, asked, served >>
  BY DEF HearF4
<1>2. /\ dn' = Tail(dn) /\ Head(dn) = dn[1]
      /\ Head(dn).kind \in {"no", "f4", "one"}
  BY <1>1, RestReads DEF HearF4, Resting, Listening
<1>3. CASE wPhase' = "listen"
  BY <1>1, <1>2, <1>3, RestTogether DEF Resting, Listening
<1>4. CASE wPhase' = "pong"
  <2>1. dn[1].kind = "f4" /\ 1 \in 1..Len(dn)
    BY <1>1, <1>2, <1>4 DEF HearF4, MayBeF4, DataKinds, ChunkKinds, TypeOK
  <2>2. Len(dn) = 1 /\ hPhase = "wait"
    BY <1>1, <2>1 DEF Together, FreshPoll
  <2>3. dn' = << >>
    <3>1. dn \in Seq(Units)
      BY DEF TypeOK
    <3>2. Tail(dn) \in Seq(Units) /\ Len(Tail(dn)) = 0
      BY <1>1, <2>2, <3>1, HeadTailProperties
    <3> QED
      BY <1>2, <3>2, EmptySeq
  <2>4. ~Serving
    BY <1>1, <2>1 DEF Together, AtRest, Resting, Listening
  <2>5. up = << >> /\ AllServed
    BY <1>1, <2>4 DEF Together, AtRest, Resting, Listening
  <2>6. ~Serving'
    BY <1>1, <2>2, <2>5 DEF Serving, hVars
  <2> QED
    BY <1>1, <1>4, <2>2, <2>3, <2>5, <2>6
       DEF Together, ServedInOrder, AtRest, FreshPoll, Answering, AllServed,
         Requesting, Replying, Resting, Listening, hVars
<1> QED
  BY <1>1, <1>3, <1>4

LEMMA SendPongTogether ==
  ASSUME TypeOK, TypeOK', Together, SendPong
  PROVE  Together'
<1>1. /\ wPhase = "pong" /\ wPhase' = "drain2" /\ up' = Append(up, Unit("pong", 0))
      /\ UNCHANGED << hVars, wFunc, wTx, wWant, dn, asked, served >>
  BY DEF SendPong
<1>2. hPhase = "wait" /\ up = << >> /\ dn = << >> /\ AllServed
  BY <1>1 DEF Together, Answering
<1>3. up' = << Unit("pong", 0) >>
  BY <1>1, <1>2
<1> QED
  BY <1>1, <1>2, <1>3
     DEF Together, ServedInOrder, AtRest, FreshPoll, Answering, AllServed,
         Requesting, Replying, Resting, Listening, hVars

-----------------------------------------------------------------------------
(* The workstation sends a request and takes the reply.                    *)

LEMMA FirstAppended ==
  ASSUME NEW e
  PROVE  Len(Append(<< >>, e)) = 1 /\ Append(<< >>, e)[1] = e
<1>1. << >> \in Seq({e}) /\ Len(<< >>) = 0
  BY EmptySeq
<1> DEFINE s == << >>
<1>2. s \in Seq({e}) /\ Len(s) = 0
  BY <1>1
<1> HIDE DEF s
<1>3. Len(Append(s, e)) = Len(s) + 1 /\ Append(s, e)[Len(s) + 1] = e
  BY <1>2, AppendProperties
<1>4. Len(Append(s, e)) = 1 /\ Append(s, e)[1] = e
  BY <1>2, <1>3
<1> QED
  BY <1>4 DEF s

LEMMA SendCodeTogether ==
  ASSUME TypeOK, TypeOK', Together, SendCode
  PROVE  Together'
<1>1. /\ wPhase = "sendcode" /\ wPhase' = "call"
      /\ up' = Append(up, CodeUnit(wFunc, Len(asked) + 1))
      /\ asked' = Append(asked, wFunc) /\ wFunc \in Funcs
      /\ wTx' = Sent[wFunc] /\ wWant' = Wanted[wFunc]
      /\ UNCHANGED << hVars, wFunc, dn, served >>
  BY DEF SendCode, TypeOK
<1>2. /\ dn = << >> /\ AllServed
      /\ \/ hPhase = "wait" /\ up = << Unit("pong", 0) >>
         \/ hPhase = "getfunc" /\ up = << >>
  BY <1>1 DEF Together, Answering
<1>3. /\ asked' # << >> /\ current' = Len(asked) + 1 /\ latest' = wFunc
      /\ \A i \in 1..Len(asked) : asked'[i] = asked[i]
  <2>1. asked \in Seq(Funcs) /\ Len(asked) \in Nat
    BY DEF TypeOK
  <2>2. /\ asked' # << >> /\ Len(asked') = Len(asked) + 1
        /\ asked'[Len(asked) + 1] = wFunc
        /\ \A i \in 1..Len(asked) : asked'[i] = asked[i]
    BY <1>1, <2>1, AppendProperties
  <2> QED
    BY <2>2 DEF current, latest
<1>4. /\ Sent[wFunc] = Expected[wFunc] /\ Expected[wFunc] \in Seq(Payload)
  BY <1>1, AgreedFormats
<1>5. /\ Len(up') = Len(up) + 1 /\ Len(up) \in Nat /\ up' # << >>
       /\ \A i \in 1..Len(up) : up'[i] = up[i]
       /\ up'[Len(up) + 1] = CodeUnit(wFunc, Len(asked) + 1)
  <2>1. wFunc \in Codes /\ Len(asked) + 1 \in Nat
    BY <1>1, AgreedFormats, TypedLengths
  <2>2. CodeUnit(wFunc, Len(asked) + 1) \in Units /\ up \in Seq(Units)
    BY <2>1, UnitTypes DEF TypeOK
  <2> QED
    BY <1>1, <2>2, AppendProperties
<1>6. Serving'
  BY <1>1, <1>2, <1>5 DEF Serving, hVars
<1>7. current' = Len(served) + 1
  BY <1>2, <1>3 DEF AllServed
<1>8. ServedInOrder'
  BY <1>1, <1>2, <1>3 DEF Together, ServedInOrder, AllServed
<1>9. Requesting'
  <2>1. CASE hPhase = "wait"
    <3>1. Len(up) = 1 /\ 1 \in 1..Len(up) /\ up[1] = Unit("pong", 0)
      BY <1>2, <2>1
    <3>2. Len(up') = 2 /\ up'[1] = Unit("pong", 0) /\ up'[2] = CodeUnit(latest', current')
      BY <1>3, <1>5, <3>1
    <3>3. Arguments(2, Expected[wFunc], up', wTx', current')
      BY <1>1, <1>4, <3>2, AllToSend
    <3> QED
      BY <1>1, <1>3, <1>7, <2>1, <3>2, <3>3 DEF Requesting, hVars
  <2>2. CASE hPhase = "getfunc"
    <3>1. Len(up) = 0 /\ Len(up) + 1 = 1
      BY <1>2, <2>2
    <3>2. Len(up') = 1 /\ up'[1] = CodeUnit(wFunc, Len(asked) + 1)
      <4>1. up' = Append(<< >>, CodeUnit(wFunc, Len(asked) + 1))
        BY <1>1, <1>2, <2>2
      <4> QED
        BY <4>1, FirstAppended
    <3>3. CodeUnit(wFunc, Len(asked) + 1) = CodeUnit(latest', current')
      BY <1>3
    <3>4. Arguments(1, Expected[wFunc], up', wTx', current')
      BY <1>1, <1>4, <3>2, AllToSend
    <3> QED
      BY <1>1, <1>3, <1>7, <2>2, <3>2, <3>3, <3>4 DEF Requesting, hVars
  <2> QED
    BY <1>2, <2>1, <2>2
<1>10. Replying'
  BY <1>1, <1>2, <1>3, <1>6 DEF Replying, Polling, hVars
<1> QED
  BY <1>1, <1>2, <1>8, <1>9, <1>10
     DEF Together, AtRest, FreshPoll, Answering, Resting, Listening, hVars

LEMMA SendUnitTogether ==
  ASSUME TypeOK, TypeOK', Together, SendUnit
  PROVE  Together'
<1>1. /\ wPhase = "call" /\ wTx # << >> /\ wTx' = Tail(wTx)
      /\ up' = Append(up, Unit(Head(wTx), current))
      /\ UNCHANGED << hVars, wPhase, wFunc, wWant, dn, asked, served >>
      /\ up \in Seq(Units) /\ wTx \in Seq(Payload)
  BY DEF SendUnit, TypeOK, current
<1>2. /\ asked # << >> /\ latest \in Funcs /\ current \in Nat
      /\ Expected[latest] \in Seq(Payload) /\ hWant \in Seq(Payload)
  BY <1>1, LatestTypes, AgreedFormats DEF Together, Replying, TypeOK
<1>3. Serving
  BY <1>1, <1>2 DEF Together, Replying, Serving, TypeOK, Polling
<1>4. hPhase \in {"wait", "getfunc", "rxdata"}
  BY <1>1, <1>3 DEF Together, Requesting, Serving
<1>5. Unit(Head(wTx), current) \in Units
  <2>1. Head(wTx) \in Kinds
    BY <1>1 DEF Kinds
  <2> QED
    BY <1>2, <2>1, UnitTypes
<1>6. /\ Len(up') = Len(up) + 1 /\ Len(up) \in Nat
      /\ \A i \in 1..Len(up) : up'[i] = up[i]
  BY <1>1, <1>5, AppendProperties
<1>7. Serving'
  BY <1>3, <1>4, <1>6, <1>1 DEF Serving, hVars
<1>8. \A want \in Seq(Payload), k \in Nat :
        Arguments(k, want, up, wTx, current) => Arguments(k, want, up', wTx', current)
  BY <1>1, <1>2, ArgumentsSend
<1>9. Requesting'
  <2>1. hPhase = "wait" => /\ Arguments(2, Expected[latest], up', wTx', current)
                           /\ up'[1] = Unit("pong", 0)
                           /\ up'[2] = CodeUnit(latest, current)
    <3>1. SUFFICES ASSUME hPhase = "wait"
                   PROVE  /\ Arguments(2, Expected[latest], up', wTx', current)
                          /\ up'[1] = Unit("pong", 0)
                          /\ up'[2] = CodeUnit(latest, current)
      OBVIOUS
    <3>2. /\ Arguments(2, Expected[latest], up, wTx, current)
          /\ up[1] = Unit("pong", 0) /\ up[2] = CodeUnit(latest, current)
      BY <1>1, <1>3, <3>1 DEF Together, Requesting
    <3>3. 1 \in 1..Len(up) /\ 2 \in 1..Len(up)
      BY <1>6, <3>2 DEF Arguments
    <3> QED
      BY <1>2, <1>6, <1>8, <3>2, <3>3
  <2>2. hPhase = "getfunc" => /\ Arguments(1, Expected[latest], up', wTx', current)
                              /\ up'[1] = CodeUnit(latest, current)
    <3>1. SUFFICES ASSUME hPhase = "getfunc"
                   PROVE  /\ Arguments(1, Expected[latest], up', wTx', current)
                          /\ up'[1] = CodeUnit(latest, current)
      OBVIOUS
    <3>2. /\ Arguments(1, Expected[latest], up, wTx, current)
          /\ up[1] = CodeUnit(latest, current)
      BY <1>1, <1>3, <3>1 DEF Together, Requesting
    <3>3. 1 \in 1..Len(up)
      BY <1>6, <3>2 DEF Arguments
    <3> QED
      BY <1>2, <1>6, <1>8, <3>2, <3>3
  <2>3. hPhase = "rxdata" => Arguments(0, hWant, up', wTx', current)
    BY <1>1, <1>2, <1>3, <1>8 DEF Together, Requesting
  <2> QED
    BY <1>1, <1>3, <1>4, <2>1, <2>2, <2>3
       DEF Together, Requesting, latest, current, hVars
<1>10. Replying'
  BY <1>1, <1>3, <1>4, <1>7 DEF Together, Replying, latest, current, hVars, Polling
<1> QED
  BY <1>1, <1>9, <1>10
     DEF Together, ServedInOrder, AtRest, FreshPoll, Answering, Resting, Listening, hVars

\* A workstation with bytes to read finds the reply it waits for.
LEMMA NextReply ==
  ASSUME TypeOK, Together, wPhase = "call", dn # << >>
  PROVE  /\ hPhase = "emit" \/ (hPhase \in Polling /\ ~Serving)
         /\ asked # << >> /\ current \in Nat
         /\ hPhase = "emit" => Coming(wWant, dn, hTx, current, {"one"})
         /\ hPhase # "emit" => Coming(wWant, dn, << >>, current, {"one", "no", "f4"})
         /\ wWant # << >> => Head(dn) = Unit(Head(wWant), current)
<1>1. asked # << >> /\ current \in Nat
  BY LatestTypes DEF Together, Replying
<1>2. hPhase = "emit" \/ (hPhase \in Polling /\ ~Serving)
  BY DEF Together, Replying, Serving, TypeOK, Polling
<1>3. /\ hPhase = "emit" => Coming(wWant, dn, hTx, current, {"one"})
      /\ hPhase # "emit" => Coming(wWant, dn, << >>, current, {"one", "no", "f4"})
  BY <1>2 DEF Together, Replying
<1>4. wWant # << >> => Head(dn) = Unit(Head(wWant), current)
  <2>1. wWant \in Seq(Payload) /\ dn \in Seq(Units) /\ hTx \in Seq(Units) /\ << >> \in Seq(Units)
    BY DEF TypeOK
  <2>2. CASE hPhase = "emit"
    BY <1>1, <1>3, <2>1, <2>2, ComingTake
  <2>3. CASE hPhase # "emit"
    <3> DEFINE skip == {"one", "no", "f4"}
    <3>1. Coming(wWant, dn, << >>, current, skip)
      BY <1>3, <2>3
    <3> HIDE DEF skip
    <3> QED
      BY <1>1, <2>1, <3>1, ComingTake
  <2> QED
    BY <2>2, <2>3
<1> QED
  BY <1>1, <1>2, <1>3, <1>4

LEMMA RecvUnitTogether ==
  ASSUME TypeOK, TypeOK', Together, RecvUnit
  PROVE  Together'
<1>1. /\ wPhase = "call" /\ wWant # << >> /\ dn # << >> /\ wTx = << >>
      /\ dn' = Tail(dn) /\ wWant' = Tail(wWant)
      /\ UNCHANGED << hVars, wPhase, wFunc, wTx, up, asked, served >>
      /\ dn \in Seq(Units) /\ hTx \in Seq(Units) /\ wWant \in Seq(Payload)
  BY DEF RecvUnit, TypeOK
<1>2. /\ hPhase = "emit" \/ (hPhase \in Polling /\ ~Serving)
      /\ asked # << >> /\ current \in Nat
      /\ hPhase = "emit" => Coming(wWant, dn, hTx, current, {"one"})
      /\ hPhase # "emit" => Coming(wWant, dn, << >>, current, {"one", "no", "f4"})
  BY <1>1, NextReply
<1>3. /\ hPhase = "emit" => Coming(wWant', dn', hTx, current, {"one"})
      /\ hPhase # "emit" => Coming(wWant', dn', << >>, current, {"one", "no", "f4"})
  <2>1. << >> \in Seq(Units)
    OBVIOUS
  <2>2. CASE hPhase = "emit"
    BY <1>1, <1>2, <2>2, ComingTake
  <2>3. CASE hPhase # "emit"
    BY <1>1, <1>2, <2>1, <2>3, ComingTake
  <2> QED
    BY <2>2, <2>3
<1>4. Serving' <=> Serving
  BY <1>1 DEF Serving, hVars
<1>5. Replying'
  BY <1>1, <1>2, <1>3, <1>4
     DEF Together, Replying, AllServed, latest, current, hVars, Polling
<1>6. Requesting'
  BY <1>1, <1>4 DEF Together, Requesting, latest, current, hVars
<1> QED
  BY <1>1, <1>5, <1>6
     DEF Together, ServedInOrder, AtRest, FreshPoll, Answering, Resting, Listening, hVars

\* No reply is mistaken for another.
LEMMA NotRecvGarbled ==
  ASSUME TypeOK, Together
  PROVE  ~RecvGarbled /\ ~RecvLost
<1>1. ~RecvLost
  BY DEF RecvLost, Together
<1>2. ASSUME RecvGarbled PROVE FALSE
  <2>1. Head(dn) = Unit(Head(wWant), current) /\ Head(dn).kind # Head(wWant)
    BY <1>2, NextReply DEF RecvGarbled
  <2> QED
    BY <2>1 DEF Unit
<1> QED
  BY <1>1, <1>2

LEMMA ReturnTogether ==
  ASSUME TypeOK, TypeOK', Together, Return
  PROVE  Together'
<1>1. /\ wPhase = "call" /\ wPhase' = "idle" /\ wTx = << >> /\ wWant = << >>
      /\ UNCHANGED << hVars, wTx, wWant, up, dn, asked, served >>
  BY DEF Return
<1>2. Serving' <=> Serving
  BY <1>1 DEF Serving, hVars
<1>3. hPhase # "dead"
  BY <1>1 DEF Together, Replying
<1>4. Len(wWant) = 0 /\ Len(dn) \in Nat /\ Len(hTx) \in Nat
  BY <1>1, TypedLengths
<1>5. CASE hPhase = "emit"
  <2>1. Coming(wWant, dn, hTx, current, {"one"}) /\ Serving
    BY <1>1, <1>5 DEF Together, Replying, Serving
  <2>2. \A i \in 1..(Len(dn) + Len(hTx)) :
          (IF i <= Len(dn) THEN dn[i] ELSE hTx[i - Len(dn)]).kind = "one"
    BY <1>4, <2>1 DEF Coming
  <2>3. \A i \in 1..Len(dn) : dn[i].kind = "one"
    BY <1>4, <2>2
  <2>4. ASSUME NEW i \in 1..Len(hTx)
        PROVE  hTx[i].kind = "one"
    <3>1. Len(dn) + i \in 1..(Len(dn) + Len(hTx)) /\ ~(Len(dn) + i <= Len(dn))
          /\ (Len(dn) + i) - Len(dn) = i
      BY <1>4
    <3> QED
      BY <2>2, <3>1
  <2>5. AtRest'
    BY <1>1, <1>2, <1>5, <2>1, <2>3, <2>4 DEF AtRest, hVars
  <2> QED
    BY <1>1, <1>2, <2>5
       DEF Together, ServedInOrder, FreshPoll, Answering, Requesting, Replying,
           latest, current, hVars
<1>6. CASE hPhase # "emit" /\ Serving
  <2>1. dn = << >> /\ Wanted[latest] = << >> /\ hTx = << >>
    BY <1>1, <1>6 DEF Together, Replying
  <2>2. AtRest'
    BY <1>1, <1>2, <1>3, <1>6, <2>1 DEF AtRest, latest, hVars
  <2> QED
    BY <1>1, <1>2, <2>2
       DEF Together, ServedInOrder, FreshPoll, Answering, Requesting, Replying,
           latest, current, hVars
<1>7. CASE ~Serving
  <2>1. hPhase \in Polling
    BY <1>3, <1>7 DEF Serving, TypeOK
  <2>2. up = << >> /\ AllServed /\ hTx = << >> /\ hPhase # "emit"
        /\ Coming(wWant, dn, << >>, current, {"one", "no", "f4"})
    BY <1>1, <1>7, <2>1 DEF Together, Replying, Polling
  <2>3. \A i \in 1..Len(dn) : dn[i].kind \in {"one", "no", "f4"}
    BY <1>4, <2>2 DEF Coming
  <2>4. AtRest'
    BY <1>1, <1>2, <1>3, <1>7, <2>2, <2>3 DEF AtRest, AllServed, hVars
  <2> QED
    BY <1>1, <1>2, <1>7, <2>4
       DEF Together, ServedInOrder, FreshPoll, Answering, Requesting, Replying, hVars
<1> QED
  BY <1>5, <1>6, <1>7

-----------------------------------------------------------------------------
(* The invariant and what follows from it.                                 *)

LEMMA TogetherStep ==
  ASSUME TypeOK, TypeOK', Together, ~broken', [Next]_vars
  PROVE  Together'
<1>1. ASSUME HostStep PROVE Together'
  <2>1. ASSUME PollNo PROVE Together'
    <3>1. Unit("no", 0) \in PollUnits /\ Unit("no", 0).kind = "no"
      BY DEF PollUnits, Unit
    <3> QED
      BY <2>1, <3>1, PollArrives DEF PollNo, Polling
  <2>2. ASSUME PollF4 PROVE Together'
    <3>1. Unit("f4", 0) \in PollUnits /\ Unit("f4", 0).kind = "f4"
      BY DEF PollUnits, Unit
    <3> QED
      BY <2>2, <3>1, PollArrives DEF PollF4, Polling
  <2> QED
    BY <1>1, <2>1, <2>2, HearPongTogether, GiveUpTogether, GetFuncTogether,
       RxUnitTogether, NotRxGarbled, ExecTogether, EmitUnitTogether, EmitEndTogether
       DEF HostStep
<1>2. ASSUME StationStep PROVE Together'
  BY <1>2, DrainUnitTogether, DrainStopTogether, HearNoTogether, HearF4Together,
     SendPongTogether, SendCodeTogether, SendUnitTogether, RecvUnitTogether,
     NotRecvGarbled, ReturnTogether
     DEF StationStep
<1>3. ASSUME UserStep PROVE Together'
  BY <1>3, RestartTogether, EscapeTogether, CallTogether DEF UserStep
<1>4. ASSUME UNCHANGED vars PROVE Together'
  BY <1>4 DEF vars, Together, ServedInOrder, AtRest, FreshPoll, Answering, Requesting,
     Replying, Serving, AllServed, latest, current
<1> QED
  BY <1>1, <1>2, <1>3, <1>4 DEF Next

\* Once the host has given up on a line that was not quiet, nothing more is
\* claimed.
LEMMA BrokenStays == ASSUME TypeOK, [Next]_vars, ~broken' PROVE ~broken
<1>1. ASSUME HostStep PROVE ~broken
  BY <1>1 DEF HostStep, PollNo, PollF4, HearPong, GiveUp, GetFunc, RxUnit, RxGarbled,
     Exec, EmitUnit, EmitEnd
<1>2. ASSUME StationStep PROVE ~broken
  BY <1>2 DEF StationStep, DrainUnit, DrainStop, HearNo, HearF4, SendPong, SendCode,
     SendUnit, RecvUnit, RecvGarbled, RecvLost, Return
<1>3. ASSUME UserStep PROVE ~broken
  BY <1>3 DEF UserStep, Restart, Escape, Call
<1>4. ASSUME UNCHANGED vars PROVE ~broken
  BY <1>4 DEF vars
<1> QED
  BY <1>1, <1>2, <1>3, <1>4 DEF Next

\* Host and workstation keep in step until the host gives up on a line that
\* is not quiet: through every interleaving of polls, calls, ESC, overflows of
\* the FIFO, replies that nobody takes and restarts of the host.
THEOREM StayInStep == Spec => []InStep
<1>1. Init => InStep
  BY TogetherInit DEF InStep
<1>2. TypeOK /\ TypeOK' /\ InStep /\ [Next]_vars => InStep'
  BY TogetherStep, BrokenStays DEF InStep
<1> QED
  BY <1>1, <1>2, TypeCorrect, PTL DEF Spec

LEMMA InStepGives ==
  ASSUME TypeOK, InStep
  PROVE  /\ ExactlyOnce /\ RequestFraming /\ OwnReply
         /\ AnsweredBeforePolling /\ PongAnswersPoll
<1> SUFFICES ASSUME ~broken
             PROVE  /\ ExactlyOnce /\ RequestFraming /\ OwnReply
                    /\ AnsweredBeforePolling /\ PongAnswersPoll
  BY DEF ExactlyOnce, RequestFraming, OwnReply, AnsweredBeforePolling, PongAnswersPoll
<1>1. Together
  BY DEF InStep
<1>2. ExactlyOnce
  <2>1. Len(served) <= Len(asked)
    <3>1. CASE wPhase \in {"pong", "drain2", "sendcode"}
      BY <1>1, <3>1, TypedLengths DEF Together, Answering, AllServed
    <3>2. CASE Serving /\ wPhase \notin {"pong", "drain2", "sendcode"}
      BY <1>1, <3>2, TypedLengths DEF Together, Requesting, current
    <3>3. CASE ~Serving /\ hPhase # "dead" /\ wPhase \in Resting \union {"call"}
      BY <1>1, <3>3, TypedLengths
         DEF Together, AtRest, Replying, AllServed, Serving, TypeOK, Polling
    <3>4. CASE hPhase = "dead" /\ wPhase \in Resting \union {"call"}
      BY <1>1, <3>4, TypedLengths DEF Together, AtRest, Replying, AllServed
    <3> QED
      BY <1>1, <3>1, <3>2, <3>3, <3>4, StationPhases DEF Resting, Listening
  <2> QED
    BY <1>1, <2>1 DEF Together, ServedInOrder, ExactlyOnce
<1>3. RequestFraming
  <2>1. ASSUME hPhase = "getfunc", up # << >>
        PROVE  Head(up).kind = "code"
    <3>1. Serving /\ wPhase \notin {"pong", "drain2", "sendcode"}
      BY <1>1, <2>1 DEF Serving, Together, Answering
    <3>2. up[1] = CodeUnit(latest, current) /\ Head(up) = up[1]
      BY <1>1, <2>1, <3>1 DEF Together, Requesting, TypeOK
    <3> QED
      BY <3>2 DEF CodeUnit
  <2>2. ASSUME hPhase = "rxdata", up # << >>
        PROVE  Head(up).kind = Head(hWant) /\ Head(up).call = hReq.call
    BY <1>1, <2>2, NextItem DEF Unit
  <2> QED
    BY <2>1, <2>2 DEF RequestFraming
<1>4. OwnReply
  BY <1>1, NextReply DEF OwnReply, Unit, current
<1>5. AnsweredBeforePolling
  <2>1. ASSUME hPhase \in {"poll", "pollF4"}, wPhase = "call"
        PROVE  wTx = << >> /\ Len(wWant) <= Len(dn)
    <3>1. ~Serving
      BY <2>1 DEF Serving
    <3>2. wTx = << >> /\ Coming(wWant, dn, << >>, current, {"one", "no", "f4"})
      BY <1>1, <2>1, <3>1 DEF Together, Replying, Polling
    <3> QED
      BY <3>2, TypedLengths DEF Coming
  <2> QED
    BY <2>1 DEF AnsweredBeforePolling
<1>6. PongAnswersPoll
  BY <1>1 DEF PongAnswersPoll, Together, Answering
<1> QED
  BY <1>2, <1>3, <1>4, <1>5, <1>6

\* Every call is executed at most once, in the order of the calls, as the
\* function and with the arguments it was made with.
THEOREM CallsExactlyOnce == Spec => []ExactlyOnce
  BY StayInStep, TypeCorrect, InStepGives, PTL

\* What the host takes for a function code or an argument is one, of the
\* request it is receiving.
THEOREM RequestsFramed == Spec => []RequestFraming
  BY StayInStep, TypeCorrect, InStepGives, PTL

\* What a disk call takes for its reply is the host's reply to that call.
THEOREM RepliesOwn == Spec => []OwnReply
  BY StayInStep, TypeCorrect, InStepGives, PTL

\* The host polls again only when the reply is on its way.
THEOREM RepliesBeforePolls == Spec => []AnsweredBeforePolling
  BY StayInStep, TypeCorrect, InStepGives, PTL

\* The workstation answers the poll that the host waits on, never an old one.
THEOREM PollsAnswered == Spec => []PongAnswersPoll
  BY StayInStep, TypeCorrect, InStepGives, PTL

\* A call that returns has been executed, if it wants a reply.
LEMMA ReturnServed ==
  ASSUME TypeOK, Together, Return
  PROVE  Wanted[wFunc] = << >> \/ AllServed
<1> SUFFICES ASSUME Wanted[wFunc] # << >> PROVE AllServed
  OBVIOUS
<1>1. wPhase = "call" /\ wWant = << >>
  BY DEF Return
<1>2. wFunc = latest
  BY <1>1 DEF Together, Replying
<1>3. hPhase = "emit" \/ ~Serving
  BY <1>1, <1>2 DEF Together, Replying
<1>4. CASE hPhase = "emit"
  BY <1>1, <1>4, TypedLengths DEF Together, Requesting, Serving, AllServed, current
<1>5. CASE ~Serving
  BY <1>1, <1>5 DEF Together, Replying, Serving, TypeOK, Polling
<1> QED
  BY <1>3, <1>4, <1>5

\* A disk call that wants a reply returns only when it has been executed.
THEOREM ReturnsExecuted == Spec => ReturnAfterExec
<1> DEFINE Step == ~broken /\ wPhase = "call" /\ wPhase' = "idle" /\ Wanted[wFunc] # << >>
                     => Len(served) = Len(asked)
<1>1. TypeOK /\ InStep /\ [Next]_vars => Step
  <2> SUFFICES ASSUME TypeOK, InStep, [Next]_vars,
                      ~broken, wPhase = "call", wPhase' = "idle", Wanted[wFunc] # << >>
               PROVE  AllServed
    BY DEF AllServed
  <2>1. Return
    <3>1. ~HostStep /\ ~UserStep
      BY DEF HostStep, PollNo, PollF4, HearPong, GiveUp, GetFunc, RxUnit, RxGarbled, Exec,
         EmitUnit, EmitEnd, UserStep, Restart, Escape, Call, wVars
    <3>2. ~UNCHANGED vars
      BY DEF vars
    <3>3. StationStep => Return
      BY DEF StationStep, DrainUnit, DrainStop, HearNo, HearF4, SendPong, SendCode,
         SendUnit, RecvUnit, RecvGarbled, RecvLost
    <3> QED
      BY <3>1, <3>2, <3>3 DEF Next
  <2> QED
    BY <2>1, ReturnServed DEF InStep
<1> QED
  BY <1>1, StayInStep, TypeCorrect, PTL DEF Spec, ReturnAfterExec

\* When host or workstation waits, the other one has what it waits for or is
\* about to send it, unless the host has died.
THEOREM NoneWaitsInVain == Spec => []NobodyWaitsInVain
<1>1. TypeOK /\ InStep => NobodyWaitsInVain
  <2> SUFFICES ASSUME TypeOK, InStep, ~broken PROVE NobodyWaitsInVain
    BY DEF NobodyWaitsInVain
  <2>1. Together
    BY DEF InStep
  <2>2. ASSUME hPhase = "getfunc", up = << >>
        PROVE  wPhase \in {"drain2", "sendcode"}
    <3>1. ASSUME wPhase \notin {"pong", "drain2", "sendcode"} PROVE FALSE
      BY <2>1, <2>2, <3>1, LatestTypes, AgreedFormats, TypedLengths
         DEF Together, Requesting, Serving, Arguments
    <3> QED
      BY <2>1, <2>2, <3>1 DEF Together, Answering
  <2>3. ASSUME hPhase = "rxdata", up = << >>
        PROVE  wPhase = "call" /\ wTx # << >>
    <3>1. wPhase \notin {"pong", "drain2", "sendcode"}
      BY <2>1, <2>3 DEF Together, Answering
    <3>2. Arguments(0, hWant, up, wTx, current)
      BY <2>1, <2>3, <3>1 DEF Together, Requesting, Serving
    <3>3. hWant # << >> /\ hWant \in Seq(Payload) /\ wTx \in Seq(Payload)
      BY <2>3 DEF TypeOK
    <3>4. wTx # << >>
      BY <2>3, <3>2, <3>3 DEF Arguments
    <3> QED
      BY <2>1, <3>4 DEF Together
  <2>4. ASSUME wPhase = "call", wTx = << >>, wWant # << >>, dn = << >>, hPhase # "dead"
        PROVE  Serving /\ (hPhase = "emit" => hTx # << >>)
    <3>1. wWant \in Seq(Payload) /\ Len(wWant) # 0
      BY <2>4 DEF TypeOK
    <3>2. Serving
      <4> SUFFICES ASSUME ~Serving PROVE FALSE
        OBVIOUS
      <4>1. hPhase \in Polling
        BY <2>4 DEF Serving, TypeOK
      <4>2. Coming(wWant, dn, << >>, current, {"one", "no", "f4"})
        BY <2>1, <2>4, <4>1 DEF Together, Replying
      <4> QED
        BY <2>4, <3>1, <4>2 DEF Coming
    <3>3. ASSUME hPhase = "emit", hTx = << >> PROVE FALSE
      <4>1. Coming(wWant, dn, hTx, current, {"one"})
        BY <2>1, <2>4, <3>3 DEF Together, Replying
      <4> QED
        BY <2>4, <3>1, <3>3, <4>1 DEF Coming
    <3> QED
      BY <3>2, <3>3
  <2> QED
    BY <2>2, <2>3, <2>4 DEF NobodyWaitsInVain
<1> QED
  BY <1>1, StayInStep, TypeCorrect, PTL

-----------------------------------------------------------------------------
(* The promise of RemoteCall.                                              *)

\* Steps that move nothing a program can see.
LEMMA Invisible ==
  ASSUME UNCHANGED << wFunc, asked, served >>, clientOf' = clientOf,
         hPhase' = "dead" <=> hPhase = "dead"
  PROVE  UNCHANGED Promise!vars
BY DEF Promise!vars, servedFuncs

\* Executing a request is executing the call submitted last.
LEMMA ExecPromised ==
  ASSUME TypeOK, Together, Exec
  PROVE  Promise!Execute
<1>1. hPhase = "exec" /\ served' = Append(served, hReq)
      /\ UNCHANGED << wPhase, wFunc, asked >>
  BY DEF Exec, wVars
<1>2. wPhase \notin {"pong", "drain2", "sendcode"}
  BY <1>1 DEF Together, Answering
<1>3. /\ asked # << >> /\ hReq = [func |-> latest, call |-> current, intact |-> TRUE]
      /\ current = Len(served) + 1
  BY <1>1, <1>2 DEF Together, Requesting, Serving
<1>4. served \in Seq(Requests) /\ hReq \in Requests
  BY DEF TypeOK
<1>5. PICK n \in Nat : n = Len(served)
  BY <1>4
<1>6. /\ Len(served') = n + 1 /\ served'[n + 1] = hReq
      /\ \A i \in 1..n : served'[i] = served[i]
  BY <1>1, <1>4, <1>5
<1>7. hReq.func = asked[n + 1] /\ Len(asked) = n + 1
  BY <1>3, <1>5 DEF latest, current
<1>8. Len(servedFuncs) = n
  BY <1>5 DEF servedFuncs
<1>9. servedFuncs' = Append(servedFuncs, asked[Len(servedFuncs) + 1])
  <2> DEFINE old == [i \in 1..n |-> served[i].func]
             new == [i \in 1..(n + 1) |-> served'[i].func]
  <2>1. servedFuncs = old /\ servedFuncs' = new
    BY <1>5, <1>6 DEF servedFuncs
  <2>2. Len(old) = n
    OBVIOUS
  <2>3. new = Append(old, asked[n + 1])
    BY <1>6, <1>7
  <2> QED
    BY <2>1, <2>2, <2>3
<1>10. clientOf' = clientOf
  BY <1>1 DEF clientOf
<1>11. latest \in Funcs /\ latest # "FXX" /\ hReq.func = latest
  BY <1>3, LatestTypes, AgreedFormats
<1>12. hPhase # "dead"
       /\ (hPhase' = "dead" => latest = "F12" \/ (Missing /\ latest \in FileFuncs))
  BY <1>1, <1>11 DEF Exec, MayKill
<1>13. latest = asked[Len(servedFuncs) + 1]
  BY <1>5, <1>7, <1>8 DEF latest
<1> DEFINE Deadly == { f \in Funcs : f = "F12" \/ (Missing /\ f \in FileFuncs) }
<1>14. (hPhase' # "dead") \in IF latest \in Deadly THEN BOOLEAN ELSE {TRUE}
  <2>1. CASE latest \in Deadly
    BY <2>1
  <2>2. CASE latest \notin Deadly
    <3>1. (hPhase' # "dead") = TRUE
      BY <1>11, <1>12, <2>2
    <3> QED
      BY <2>2, <3>1
  <2> QED
    BY <2>1, <2>2
<1>15. /\ hPhase # "dead" /\ Len(servedFuncs) < Len(asked)
       /\ servedFuncs' = Append(servedFuncs, latest)
       /\ UNCHANGED << clientOf, wFunc, asked >>
  BY <1>1, <1>5, <1>7, <1>8, <1>9, <1>10, <1>12, <1>13
<1> QED
  BY <1>13, <1>14, <1>15, Zenon DEF Promise!Execute

\* Every step of the link before the host loses patience is one that the
\* promise allows, or cannot be seen.
LEMMA PromisedStep ==
  ASSUME TypeOK, InStep, ~broken', [Next]_vars
  PROVE  [Promise!Next]_(Promise!vars)
<1>1. Together
  BY BrokenStays DEF InStep
<1>2. Len(servedFuncs) = Len(served)
  BY TypedLengths DEF servedFuncs
<1>3. CASE HostStep
  <2>1. CASE Exec
    BY <1>1, <2>1, ExecPromised DEF Promise!Next
  <2>2. CASE ~Exec
    <3>1. /\ UNCHANGED << wPhase, wFunc, asked, served >>
          /\ hPhase # "dead" /\ hPhase' # "dead"
      BY <1>3, <2>2 DEF Took, HostStep, PollNo, PollF4, HearPong, GiveUp, GetFunc, RxUnit,
         RxGarbled, EmitUnit, EmitEnd, wVars
    <3> QED
      BY <3>1, Invisible DEF clientOf
  <2> QED
    BY <2>1, <2>2
<1>4. CASE SendCode
  <2>1. wPhase = "sendcode" /\ wPhase' = "call" /\ asked' = Append(asked, wFunc)
        /\ UNCHANGED << wFunc, served >>
    BY <1>4 DEF SendCode
  <2>2. Len(servedFuncs) = Len(asked)
    BY <1>1, <1>2, <2>1 DEF Together, Answering, AllServed
  <2>3. clientOf = "calling" /\ clientOf' = "waiting" /\ servedFuncs' = servedFuncs
    BY <2>1 DEF clientOf, servedFuncs
  <2>4. hPhase # "dead" /\ hPhase' = hPhase
    BY <1>1, <1>4, <2>1 DEF Together, Answering, SendCode, hVars
  <2> QED
    BY <2>1, <2>2, <2>3, <2>4 DEF Promise!Submit, Promise!Next
<1>5. CASE Return
  <2>1. /\ wPhase = "call" /\ wPhase' = "idle" /\ wFunc' = "none"
        /\ UNCHANGED << asked, served >>
    BY <1>5 DEF Return
  <2>2. Wanted[wFunc] = << >> \/ (hPhase # "dead" /\ Len(servedFuncs) = Len(asked))
    <3>1. Wanted[wFunc] = << >> \/ Len(served) = Len(asked)
      BY <1>1, <1>5, ReturnServed DEF AllServed
    <3>2. hPhase # "dead"
      BY <1>1, <1>5 DEF Return, Together, Replying
    <3> QED
      BY <1>2, <3>1, <3>2
  <2>3. wFunc \in Funcs
    BY <2>1 DEF TypeOK
  <2>4. clientOf = "waiting" /\ clientOf' = "running" /\ servedFuncs' = servedFuncs
        /\ hPhase' = hPhase
    BY <1>5, <2>1 DEF clientOf, servedFuncs, Return, hVars
  <2> QED
    BY <2>1, <2>2, <2>3, <2>4 DEF Promise!Return, Promise!Next
<1>6. CASE StationStep /\ ~SendCode /\ ~Return
  <2>1. UNCHANGED << hPhase, wFunc, asked, served >>
    BY <1>6 DEF StationStep, DrainUnit, DrainStop, HearNo, HearF4, SendPong, SendUnit,
       RecvUnit, RecvGarbled, RecvLost, hVars
  <2>2. \/ wPhase' = wPhase
        \/ /\ wPhase \in {"drain", "drain2", "listen", "match", "pong"}
           /\ wPhase' \in {"listen", "sendcode", "match", "pong", "drain2"}
        \/ wPhase \in {"call", "lost"} /\ wPhase' \in {"call", "lost"}
    BY <1>6 DEF StationStep, DrainUnit, DrainStop, HearNo, HearF4, SendPong, SendUnit,
       RecvUnit, RecvGarbled, RecvLost
  <2>3. clientOf' = clientOf
    BY <2>2 DEF clientOf
  <2> QED
    BY <2>1, <2>3, Invisible
<1>7. CASE Restart
  <2>1. UNCHANGED << wPhase, wFunc, asked, served >> /\ hPhase' = "poll"
    BY <1>7 DEF Restart, wVars
  <2>2. wPhase \in Resting
    BY <1>7 DEF Restart, HarmlessRestart, Quiet, Resting
  <2>3. hPhase # "dead"
    BY <1>1, <2>2 DEF Together, AtRest
  <2> QED
    BY <2>1, <2>3, Invisible DEF clientOf
<1>8. CASE Escape
  <2>1. /\ wPhase = "listen" /\ wPhase' = "idle" /\ wFunc' = "none"
        /\ UNCHANGED << hPhase, asked, served >>
    BY <1>8 DEF Escape, hVars
  <2>2. clientOf = "calling" /\ clientOf' = "running" /\ servedFuncs' = servedFuncs
    BY <2>1 DEF clientOf, servedFuncs
  <2> QED
    BY <2>1, <2>2 DEF Promise!Abandon, Promise!Next
<1>9. ASSUME NEW f \in Funcs, Call(f) PROVE Promise!Next
  <2>1. /\ wPhase = "idle" /\ wPhase' = "drain" /\ wFunc' = f
        /\ Len(asked) < MaxCalls /\ UNCHANGED << hPhase, asked, served >>
    BY <1>9 DEF Call, hVars
  <2>2. clientOf = "running" /\ clientOf' = "calling" /\ servedFuncs' = servedFuncs
    BY <2>1 DEF clientOf, servedFuncs
  <2>3. Promise!Call(f)
    BY <2>1, <2>2 DEF Promise!Call
  <2> QED
    BY <2>3 DEF Promise!Next
<1>10. CASE UNCHANGED vars
  <2>1. UNCHANGED << hPhase, wPhase, wFunc, asked, served >>
    BY <1>10 DEF vars
  <2> QED
    BY <2>1, Invisible DEF clientOf
<1> QED
  BY <1>3, <1>4, <1>5, <1>6, <1>7, <1>8, <1>9, <1>10 DEF Next, UserStep

LEMMA PromisedInit == Init => Promise!Init
<1> SUFFICES ASSUME Init PROVE Promise!Init
  OBVIOUS
<1>1. clientOf = "running" /\ wFunc = "none" /\ asked = << >> /\ served = << >>
      /\ hPhase # "dead"
  BY DEF Init, clientOf
<1>2. servedFuncs = << >>
  BY <1>1 DEF servedFuncs
<1> QED
  BY <1>1, <1>2 DEF Promise!Init

\* Until the host gives up on a line that is not quiet, or is started again in the
\* middle of a call, whatever host, line, workstation and users do is what
\* RemoteCall allows.
THEOREM PromiseUntilBroken ==
  Spec => Promise!Init /\ [][~broken' => Promise!Next]_(Promise!vars)
<1>1. TypeOK /\ InStep /\ [Next]_vars => [~broken' => Promise!Next]_(Promise!vars)
  BY PromisedStep
<1> QED
  BY <1>1, PromisedInit, StayInStep, TypeCorrect, PTL DEF Spec

\* With a host that loses patience only with a quiet line, the link implements
\* RemoteCall.
THEOREM LinkImplementsPromise == Timely => (Spec => Promise!Spec)
<1> SUFFICES ASSUME Timely PROVE Spec => Promise!Spec
  OBVIOUS
<1>1. Init => ~broken
  BY DEF Init
<1>2. ~broken /\ [Next]_vars => ~broken'
  <2> SUFFICES ASSUME ~broken, [Next]_vars PROVE ~broken'
    OBVIOUS
  <2>1. CASE HostStep
    BY <2>1 DEF HostStep, PollNo, PollF4, HearPong, GiveUp, GetFunc, RxUnit, RxGarbled,
       Exec, EmitUnit, EmitEnd
  <2>2. CASE StationStep
    BY <2>2 DEF StationStep, DrainUnit, DrainStop, HearNo, HearF4, SendPong, SendCode,
       SendUnit, RecvUnit, RecvGarbled, RecvLost, Return
  <2>3. CASE UserStep
    BY <2>3 DEF UserStep, Restart, Escape, Call
  <2>4. CASE UNCHANGED vars
    BY <2>4 DEF vars
  <2> QED
    BY <2>1, <2>2, <2>3, <2>4 DEF Next
<1>3. Spec => []~broken
  BY <1>1, <1>2, PTL DEF Spec
<1>4. TypeOK /\ InStep /\ ~broken /\ [Next]_vars => [Promise!Next]_(Promise!vars)
  BY <1>2, PromisedStep
<1> QED
  BY <1>3, <1>4, PromisedInit, StayInStep, TypeCorrect, PTL DEF Spec, Promise!Spec
=============================================================================
