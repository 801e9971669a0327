--------------------------- MODULE NetBdosProofs ---------------------------
(***************************************************************************)
(* Proofs about NetBdos, for any numbers that programs call, any size of   *)
(* the keyboard buffer, and any number of keys and presses.                *)
(***************************************************************************)
EXTENDS NetBdos, SequenceTheorems, TLAPS

-----------------------------------------------------------------------------
(* Lemmas about sequences.                                                 *)

LEMMA TailIs ==
  ASSUME NEW S, NEW s \in Seq(S), s # << >>
  PROVE  /\ Len(s) \in Nat \ {0} /\ Head(s) = s[1] /\ Head(s) \in S
         /\ Tail(s) \in Seq(S) /\ Len(Tail(s)) = Len(s) - 1
         /\ \A i \in 1..Len(Tail(s)) : Tail(s)[i] = s[i + 1]
<1>1. Len(s) \in Nat \ {0} /\ s[1] \in S /\ Head(s) = s[1]
  BY EmptySeq, ElementOfSeq, HeadTailProperties
<1>2. Tail(s) \in Seq(S) /\ Len(Tail(s)) = Len(s) - 1
  BY HeadTailProperties
<1>3. \A i \in 1..Len(Tail(s)) : Tail(s)[i] = s[i + 1]
  BY <1>1, <1>2, HeadTailProperties
<1> QED
  BY <1>1, <1>2, <1>3

LEMMA AppendIs ==
  ASSUME NEW S, NEW s \in Seq(S), NEW x \in S
  PROVE  /\ Append(s, x) \in Seq(S) /\ Len(s) \in Nat
         /\ Len(Append(s, x)) = Len(s) + 1
         /\ \A i \in 1..Len(s) : Append(s, x)[i] = s[i]
         /\ Append(s, x)[Len(s) + 1] = x
BY AppendProperties, LenProperties

LEMMA OneIs ==
  ASSUME NEW S, NEW s \in Seq(S), s # << >>, Len(s) <= 1
  PROVE  Len(s) = 1 /\ s[1] \in S /\ s = << s[1] >>
<1>1. Len(s) \in Nat \ {0}
  BY EmptySeq
<1>2. Len(s) = 1
  BY <1>1
<1>3. s[1] \in S
  BY <1>2, ElementOfSeq
<1> QED
  BY <1>2, <1>3

LEMMA Wider ==
  ASSUME NEW S, NEW T, S \subseteq T, NEW s \in Seq(S)
  PROVE  s \in Seq(T)
BY SeqMonotonic

LEMMA RestIs ==
  ASSUME NEW S, NEW s \in Seq(S), NEW n \in Nat, n <= Len(s)
  PROVE  LET r == SubSeq(s, n + 1, Len(s))
         IN /\ r \in Seq(S) /\ Len(r) = Len(s) - n
            /\ \A i \in 1..Len(r) : i + n \in 1..Len(s) /\ r[i] = s[i + n]
<1> DEFINE r == SubSeq(s, n + 1, Len(s))
<1>1. Len(s) \in Nat
  BY LenProperties
<1>2. Len(r) = Len(s) - n
  BY <1>1, SubSeqProperties
<1>3. \A i \in 1..Len(r) : i + n \in 1..Len(s) /\ r[i] = s[i + n]
  BY <1>1, <1>2, SubSeqProperties
<1>4. r \in Seq(S)
  BY <1>1, SubSeqProperties
<1> QED
  BY <1>2, <1>3, <1>4

-----------------------------------------------------------------------------
(* Types.                                                                  *)

LEMMA TypeInit == Init => TypeOK
<1> SUFFICES ASSUME Init PROVE TypeOK
  OBVIOUS
<1>1. typed = 0 /\ buffer = << >> /\ latch = << >> /\ taken = << >> /\ again = {}
  BY DEF Init
<1>2. buffer \in Seq(1..typed) /\ latch \in Seq(0..typed) /\ taken \in Seq(1..typed)
  BY <1>1, EmptySeq
<1>3. Len(buffer) <= BufferMax /\ Len(latch) <= 1
  BY <1>1, NetBdosAssumption
<1>4. /\ acc \in BOOLEAN /\ caps \in BOOLEAN /\ lamp \in BOOLEAN
      /\ stopDown \in BOOLEAN /\ escDown \in BOOLEAN
  BY Zenon DEF Init
<1>5. phase \in Phases /\ stale \in {"no", "waiting", "raced", "escaped"}
      /\ told \in {"none", "latch", "buffer"}
  BY DEF Init, Phases
<1>6. /\ fn \in Numbers \union {0} /\ put \in 0..BufferMax /\ typed \in 0..MaxKeys
      /\ again \subseteq 0..typed /\ presses \in 0..MaxPresses /\ dropped \in 0..presses
      /\ escAt \in 0..typed
  BY NetBdosAssumption DEF Init
<1> QED
  BY <1>2, <1>3, <1>4, <1>5, <1>6 DEF TypeOK

\* What CONST leaves in the look-ahead and in the keyboard buffer.
LEMMA ConstTypes ==
  ASSUME TypeOK, NEW nz \in BOOLEAN, Const(nz)
  PROVE  /\ latch' \in Seq(0..typed) /\ Len(latch') <= 1
         /\ buffer' \in Seq(1..typed) /\ Len(buffer') <= BufferMax
<1> USE DEF TypeOK
<1>1. CASE stopDown
  <2>1. latch' = << Stop >> /\ buffer' = << >>
    BY <1>1 DEF Const
  <2>2. Stop \in 0..typed
    BY DEF Stop
  <2> QED
    BY <2>1, <2>2, EmptySeq, NetBdosAssumption
<1>2. CASE ~stopDown /\ latch = << >> /\ buffer # << >>
  <2>1. latch' = << Head(buffer) >> /\ buffer' = Tail(buffer)
    BY <1>2 DEF Const
  <2>2. Head(buffer) \in 0..typed
    BY <1>2, TailIs
  <2>3. buffer' \in Seq(1..typed) /\ Len(buffer') <= BufferMax
    BY <1>2, <2>1, TailIs, NetBdosAssumption
  <2> QED
    BY <2>1, <2>2, <2>3
<1>3. CASE ~stopDown /\ ~(latch = << >> /\ buffer # << >>)
  BY <1>3 DEF Const
<1> QED
  BY <1>1, <1>2, <1>3

\* What CONIN leaves, and what it gives to the program.
LEMMA TakeTypes ==
  ASSUME TypeOK, Take
  PROVE  /\ latch' \in Seq(0..typed) /\ Len(latch') <= 1
         /\ buffer' \in Seq(1..typed) /\ Len(buffer') <= BufferMax
         /\ taken' \in Seq(1..typed)
<1> USE DEF TypeOK
<1>1. CASE latch # << >>
  <2>1. taken' = taken \o Keys(latch) /\ latch' = << >> /\ buffer' = buffer
    BY <1>1 DEF Take
  <2>2. Keys(latch) \in Seq(1..typed)
    <3>1. CASE latch = << Stop >>
      BY <3>1, EmptySeq DEF Keys
    <3>2. CASE latch # << Stop >>
      <4>1. latch \in Seq(0..typed) /\ Len(latch) <= 1
        OBVIOUS
      <4>2. latch[1] \in 0..typed /\ latch = << latch[1] >>
        BY <1>1, <4>1, OneIs
      <4>3. latch[1] \in 1..typed
        BY <3>2, <4>2 DEF Stop
      <4> QED
        BY <3>2, <4>2, <4>3 DEF Keys
    <3> QED
      BY <3>1, <3>2
  <2> QED
    BY <2>1, <2>2, ConcatProperties, EmptySeq
<1>2. CASE latch = << >>
  <2>1. buffer # << >> /\ taken' = Append(taken, Head(buffer)) /\ buffer' = Tail(buffer) /\ latch' = latch
    BY <1>2 DEF Take
  <2> QED
    BY <2>1, TailIs, AppendIs, NetBdosAssumption
<1> QED
  BY <1>1, <1>2

LEMMA Func6Types == TypeOK /\ Func6 => TypeOK'
<1> SUFFICES ASSUME TypeOK, Func6 PROVE TypeOK'
  OBVIOUS
<1>1. /\ UNCHANGED << phase, fn, acc, caps, lamp, presses, dropped, stale, put, typed,
                      stopDown, escDown, escAt >>
      /\ told' = "none"
  BY DEF Func6, thread, lampVars, user
<1>2. PICK nz \in BOOLEAN :
        \/ /\ stopDown /\ nz
           /\ buffer' = << >> /\ latch' = << >> /\ UNCHANGED << taken, again >>
        \/ /\ ~stopDown /\ nz /\ Take /\ UNCHANGED again
        \/ /\ ~stopDown /\ ~nz /\ latch = << >> /\ Const(nz)
           /\ taken' = taken \o latch'
           /\ again' = again \union { latch'[i] : i \in DOMAIN latch' }
  BY DEF Func6
<1>3. /\ latch' \in Seq(0..typed) /\ Len(latch') <= 1
      /\ buffer' \in Seq(1..typed) /\ Len(buffer') <= BufferMax
      /\ taken' \in Seq(1..typed) /\ again' \subseteq 0..typed
  <2>1. CASE buffer' = << >> /\ latch' = << >> /\ UNCHANGED << taken, again >>
    BY <2>1, EmptySeq, NetBdosAssumption DEF TypeOK
  <2>2. CASE Take /\ UNCHANGED again
    BY <2>2, TakeTypes DEF TypeOK
  <2>3. CASE /\ ~stopDown /\ ~nz /\ latch = << >> /\ Const(nz)
             /\ taken' = taken \o latch'
             /\ again' = again \union { latch'[i] : i \in DOMAIN latch' }
    <3>1. CASE buffer = << >>
      <4>1. latch' = << >> /\ buffer' = buffer
        BY <2>3, <3>1 DEF Const
      <4>2. taken' = taken /\ { latch'[i] : i \in DOMAIN latch' } = {}
        BY <2>3, <4>1, ConcatEmptySeq DEF TypeOK
      <4> QED
        BY <2>3, <4>1, <4>2, EmptySeq DEF TypeOK
    <3>2. CASE buffer # << >>
      <4>1. latch' = << Head(buffer) >> /\ buffer' = Tail(buffer)
        BY <2>3, <3>2 DEF Const
      <4>2. Head(buffer) \in 1..typed /\ typed \in Nat
        BY <3>2, TailIs DEF TypeOK
      <4>3. latch' \in Seq(1..typed) /\ { latch'[i] : i \in DOMAIN latch' } \subseteq 0..typed
        BY <4>1, <4>2
      <4>4. taken' \in Seq(1..typed)
        BY <2>3, <4>3, ConcatProperties DEF TypeOK
      <4> QED
        BY <2>3, <4>3, <4>4, ConstTypes DEF TypeOK
    <3> QED
      BY <3>1, <3>2
  <2> QED
    BY <1>2, <2>1, <2>2, <2>3
<1> QED
  BY <1>1, <1>3 DEF TypeOK

LEMMA TypeStep == TypeOK /\ [Next]_vars => TypeOK'
<1> SUFFICES ASSUME TypeOK, [Next]_vars PROVE TypeOK'
  OBVIOUS
<1> USE NetBdosAssumption DEF thread, lampVars, keyVars, user, seen
<1>1. ASSUME TypeKey PROVE TypeOK'
  <2>1. typed' = typed + 1 /\ typed' \in 0..MaxKeys /\ typed \in Nat
    BY <1>1 DEF TypeKey, TypeOK
  <2>2. buffer \in Seq(1..typed') /\ taken \in Seq(1..typed') /\ latch \in Seq(0..typed')
    BY <2>1, Wider DEF TypeOK
  <2>3. buffer' \in Seq(1..typed') /\ Len(buffer') <= BufferMax
    <3>1. CASE Len(buffer) < BufferMax
      <4>1. buffer' = Append(buffer, typed') /\ typed' \in 1..typed'
        BY <1>1, <2>1, <3>1 DEF TypeKey
      <4> QED
        BY <2>2, <3>1, <4>1, AppendIs
    <3>2. CASE ~(Len(buffer) < BufferMax)
      BY <1>1, <2>2, <3>2 DEF TypeKey, TypeOK
    <3> QED
      BY <3>1, <3>2
  <2>4. escDown' \in BOOLEAN
    BY <1>1, Zenon DEF TypeKey, TypeOK
  <2> QED
    BY <1>1, <2>1, <2>2, <2>3, <2>4 DEF TypeKey, TypeOK
<1>2. ASSUME HoldStop \/ LetEscGo PROVE TypeOK'
  <2>1. stopDown' \in BOOLEAN /\ escDown' \in BOOLEAN
    BY <1>2, Zenon DEF TypeOK, HoldStop, LetEscGo
  <2>2. UNCHANGED << thread, lampVars, keyVars, put, seen, escAt >>
    BY <1>2, Zenon DEF HoldStop, LetEscGo
  <2> QED
    BY <2>1, <2>2 DEF TypeOK
<1>3. ASSUME PressCaps PROVE TypeOK'
  BY <1>3 DEF TypeOK, PressCaps
<1>4. ASSUME Enter PROVE TypeOK'
  BY <1>4 DEF TypeOK, Enter, Phases, Copying
<1>5. ASSUME ConstStatus PROVE TypeOK'
  BY <1>5, ConstTypes DEF TypeOK, ConstStatus
<1>6. ASSUME FuncB PROVE TypeOK'
  BY <1>6 DEF TypeOK, FuncB
<1>7. ASSUME Func6 PROVE TypeOK'
  BY <1>7, Func6Types
<1>8. ASSUME ConIn PROVE TypeOK'
  BY <1>8, TakeTypes DEF TypeOK, ConIn, Phases
<1>9. ASSUME SpinEnds \/ Polled \/ EscSeen PROVE TypeOK'
  <2>1. phase' \in Phases
    BY <1>9 DEF SpinEnds, Polled, EscSeen, Phases
  <2>2. UNCHANGED << fn, acc, lampVars, keyVars, put, user, seen, escAt >>
    BY <1>9 DEF SpinEnds, Polled, EscSeen
  <2> QED
    BY <2>1, <2>2 DEF TypeOK
<1>10. ASSUME Run \/ StoreCaps \/ OutLamp PROVE TypeOK'
  <2>1. phase' \in Phases /\ stale' \in {"no", "waiting", "raced", "escaped"}
    BY <1>10 DEF TypeOK, Run, StoreCaps, OutLamp, Phases, Copying
  <2>2. acc' \in BOOLEAN /\ caps' \in BOOLEAN /\ lamp' \in BOOLEAN
    BY <1>10, Zenon DEF TypeOK, Run, StoreCaps, OutLamp
  <2>3. UNCHANGED << fn, presses, dropped, keyVars, put, user, seen, escAt >>
    BY <1>10 DEF Run, StoreCaps, OutLamp
  <2> QED
    BY <2>1, <2>2, <2>3 DEF TypeOK
<1>11. ASSUME EscGet PROVE TypeOK'
  <2>1. buffer' \in Seq(1..typed) /\ Len(buffer') <= BufferMax
    BY <1>11, TailIs DEF TypeOK, EscGet
  <2> QED
    BY <1>11, <2>1 DEF TypeOK, EscGet, Phases
<1>12. ASSUME EscPut PROVE TypeOK'
  BY <1>12, LenProperties DEF TypeOK, EscPut, Phases
<1>13. ASSUME EscSet PROVE TypeOK'
  <2>1. Len(buffer) \in Nat /\ put \in Nat /\ \A i \in 1..Len(buffer) : buffer[i] \in 1..typed
    BY LenProperties, ElementOfSeq DEF TypeOK
  <2>2. buffer' = SubSeq(buffer, put + 1, Len(buffer))
    BY <1>13 DEF EscSet
  <2>3. buffer' \in Seq(1..typed) /\ Len(buffer') <= BufferMax
    BY <2>1, <2>2, SubSeqProperties DEF TypeOK
  <2> QED
    BY <1>13, <2>3 DEF TypeOK, EscSet, Phases
<1>14. ASSUME UNCHANGED vars PROVE TypeOK'
  BY <1>14 DEF TypeOK, vars
<1> QED
  BY <1>1, <1>2, <1>3, <1>4, <1>5, <1>6, <1>7, <1>8, <1>9, <1>10, <1>11, <1>12, <1>13, <1>14
  DEF Next, User, Program, Thread

\* TypeOK: every variable keeps its type, and the look-ahead holds one character
\* at most.
THEOREM WorkstationTypes == Spec => []TypeOK
<1>1. TypeOK /\ [Next]_vars => TypeOK'
  BY TypeStep
<1> QED
  BY <1>1, TypeInit, PTL DEF Spec

-----------------------------------------------------------------------------
(* The order of the keys.                                                  *)

\* KeysInOrder, piece by piece: the buffer rises, the look-ahead is before it,
\* and what the programs were given is before both.
Pieces(t, l, b, a) ==
  /\ \A i, j \in 1..Len(b) : i < j => b[i] < b[j]
  /\ \A i \in 1..Len(t), j \in 1..Len(b) : t[i] < b[j]
  /\ \A i, j \in 1..Len(t) : i < j => t[i] < t[j] \/ (t[i] = t[j] /\ t[i] \in a)
  /\ \A k \in 1..Len(l) : l[k] # Stop =>
       /\ \A j \in 1..Len(b) : l[k] < b[j]
       /\ \A i \in 1..Len(t) : t[i] < l[k] \/ (t[i] = l[k] /\ t[i] \in a)
Ordered == Pieces(taken, latch, buffer, again)

LEMMA Ints ==
  ASSUME TypeOK
  PROVE  taken \in Seq(Int) /\ latch \in Seq(Int) /\ buffer \in Seq(Int)
<1>1. 1..typed \subseteq Int /\ 0..typed \subseteq Int
  OBVIOUS
<1> QED
  BY <1>1, Wider DEF TypeOK

LEMMA OneMore ==
  \A a, b, c \in Nat : b <= 1 /\ a < c /\ c <= a + b => c = a + 1 /\ b = 1 /\ c - a = 1
OBVIOUS

LEMMA OrderedKeys == TypeOK /\ Ordered => KeysInOrder
<1> SUFFICES ASSUME TypeOK, Ordered,
                    NEW i \in 1..Len(taken \o latch \o buffer),
                    NEW j \in 1..Len(taken \o latch \o buffer),
                    i < j, (taken \o latch \o buffer)[i] # Stop,
                    (taken \o latch \o buffer)[j] # Stop
             PROVE  LET keys == taken \o latch \o buffer
                    IN keys[i] < keys[j] \/ (keys[i] = keys[j] /\ keys[i] \in again)
  BY DEF KeysInOrder
<1> DEFINE front == taken \o latch
           keys == front \o buffer
<1>1. taken \in Seq(Int) /\ latch \in Seq(Int) /\ buffer \in Seq(Int)
  BY Ints
<1>2. Len(taken) \in Nat /\ Len(latch) \in Nat /\ Len(latch) <= 1 /\ Len(buffer) \in Nat
  <2>1. Len(latch) <= 1
    BY DEF TypeOK
  <2>2. Len(taken) \in Nat /\ Len(latch) \in Nat /\ Len(buffer) \in Nat
    BY <1>1, LenProperties
  <2> QED
    BY <2>1, <2>2
<1>3. /\ front \in Seq(Int) /\ Len(front) = Len(taken) + Len(latch)
      /\ \A k \in 1..Len(front) :
           front[k] = IF k <= Len(taken) THEN taken[k] ELSE latch[k - Len(taken)]
  BY <1>1, ConcatProperties
<1>4. /\ Len(keys) = Len(front) + Len(buffer)
      /\ \A k \in 1..Len(keys) :
           keys[k] = IF k <= Len(front) THEN front[k] ELSE buffer[k - Len(front)]
  BY <1>1, <1>3, ConcatProperties
<1>5. /\ i \in 1..Len(keys) /\ j \in 1..Len(keys) /\ i \in Nat /\ j \in Nat
      /\ i < j /\ keys[i] # Stop /\ keys[j] # Stop
  <2>1. Len(keys) \in Nat /\ i \in 1..Len(keys) /\ j \in 1..Len(keys)
    BY <1>1, <1>3, ConcatProperties, LenProperties
  <2>2. i \in Nat /\ j \in Nat
    BY <2>1
  <2> QED
    BY <2>1, <2>2
<1> SUFFICES keys[i] < keys[j] \/ (keys[i] = keys[j] /\ keys[i] \in again)
  OBVIOUS
<1> HIDE DEF front, keys
<1>6. CASE j <= Len(taken)
  <2>1. keys[i] = taken[i] /\ keys[j] = taken[j] /\ i \in 1..Len(taken) /\ j \in 1..Len(taken)
    BY <1>2, <1>3, <1>4, <1>5, <1>6
  <2> QED
    BY <1>5, <2>1 DEF Ordered, Pieces, keys, front
<1>7. CASE j > Len(taken) /\ j <= Len(front)
  <2>1. j = Len(taken) + 1 /\ Len(latch) = 1
    <3>1. Len(taken) < j /\ j <= Len(taken) + Len(latch)
      BY <1>3, <1>7
    <3> QED
      BY <1>2, <1>5, <3>1, OneMore
  <2>2. keys[j] = latch[1] /\ keys[i] = taken[i] /\ i \in 1..Len(taken)
    BY <1>2, <1>3, <1>4, <1>5, <1>7, <2>1
  <2> QED
    BY <1>5, <2>1, <2>2 DEF Ordered, Pieces, keys, front
<1>8. CASE j > Len(front)
  <2> DEFINE n == j - Len(front)
  <2>1. n \in 1..Len(buffer) /\ keys[j] = buffer[n]
    BY <1>2, <1>3, <1>4, <1>5, <1>8
  <2>2. CASE i <= Len(taken)
    <3>1. keys[i] = taken[i] /\ i \in 1..Len(taken)
      BY <1>2, <1>3, <1>4, <1>5, <2>2
    <3> QED
      BY <2>1, <3>1 DEF Ordered, Pieces, keys, front
  <2>3. CASE i > Len(taken) /\ i <= Len(front)
    <3>1. keys[i] = latch[1] /\ Len(latch) = 1
      <4>1. Len(taken) < i /\ i <= Len(taken) + Len(latch)
        BY <1>3, <2>3
      <4>2. i = Len(taken) + 1 /\ Len(latch) = 1 /\ i - Len(taken) = 1
        BY <1>2, <1>5, <4>1, OneMore
      <4>3. i \in 1..Len(front) /\ keys[i] = front[i]
        BY <1>4, <1>5, <2>3
      <4> QED
        BY <1>2, <1>3, <4>2, <4>3
    <3> QED
      BY <1>5, <2>1, <3>1 DEF Ordered, Pieces, keys, front
  <2>4. CASE i > Len(front)
    <3> DEFINE m == i - Len(front)
    <3>1. m \in 1..Len(buffer) /\ keys[i] = buffer[m] /\ m < n
      BY <1>2, <1>3, <1>4, <1>5, <2>1, <2>4
    <3> QED
      BY <2>1, <3>1 DEF Ordered, Pieces, keys, front
  <2> QED
    BY <1>2, <1>3, <1>5, <2>2, <2>3, <2>4
<1> QED
  BY <1>2, <1>3, <1>5, <1>6, <1>7, <1>8

\* The next key of the keyboard goes to the look-ahead, or to a program.
LEMMA FetchPieces ==
  ASSUME NEW t \in Seq(Int), NEW b \in Seq(Int), NEW a, b # << >>, Pieces(t, << >>, b, a)
  PROVE  /\ Pieces(t, << Head(b) >>, Tail(b), a)
         /\ Pieces(Append(t, Head(b)), << >>, Tail(b), a)
<1> DEFINE h == Head(b)
           r == Tail(b)
           w == Append(t, h)
<1>1. /\ Len(b) \in Nat \ {0} /\ h = b[1] /\ h \in Int
      /\ r \in Seq(Int) /\ Len(r) = Len(b) - 1
      /\ \A i \in 1..Len(r) : r[i] = b[i + 1]
  BY TailIs
<1>2. /\ w \in Seq(Int) /\ Len(t) \in Nat /\ Len(w) = Len(t) + 1
      /\ \A i \in 1..Len(t) : w[i] = t[i]
      /\ w[Len(t) + 1] = h
  BY <1>1, AppendIs
<1> HIDE DEF h, r, w
<1>3. /\ \A i, j \in 1..Len(b) : i < j => b[i] < b[j]
      /\ \A i \in 1..Len(t), j \in 1..Len(b) : t[i] < b[j]
      /\ \A i, j \in 1..Len(t) : i < j => t[i] < t[j] \/ (t[i] = t[j] /\ t[i] \in a)
  BY DEF Pieces
<1>0. 1 \in 1..Len(b) /\ \A i \in 1..Len(r) : i + 1 \in 1..Len(b) /\ 1 < i + 1
  BY <1>1
<1>4. \A i \in 1..Len(r) : h < r[i]
  <2> SUFFICES ASSUME NEW i \in 1..Len(r) PROVE h < r[i]
    OBVIOUS
  <2>1. b[1] < b[i + 1]
    BY <1>0, <1>3
  <2> QED
    BY <1>1, <2>1
<1>5. \A i, j \in 1..Len(r) : i < j => r[i] < r[j]
  <2> SUFFICES ASSUME NEW i \in 1..Len(r), NEW j \in 1..Len(r), i < j PROVE r[i] < r[j]
    OBVIOUS
  <2>1. i + 1 < j + 1 /\ i + 1 \in 1..Len(b) /\ j + 1 \in 1..Len(b)
    BY <1>0, <1>1
  <2> QED
    BY <1>1, <1>3, <2>1
<1>6. \A i \in 1..Len(t) : t[i] < h /\ \A j \in 1..Len(r) : t[i] < r[j]
  <2> SUFFICES ASSUME NEW i \in 1..Len(t)
               PROVE  t[i] < h /\ \A j \in 1..Len(r) : t[i] < r[j]
    OBVIOUS
  <2>1. t[i] < b[1]
    BY <1>0, <1>3
  <2>2. \A j \in 1..Len(r) : t[i] < b[j + 1]
    BY <1>0, <1>3
  <2> QED
    BY <1>1, <2>1, <2>2
<1>7. Pieces(t, << h >>, r, a)
  <2>1. Len(<< h >>) = 1 /\ << h >>[1] = h
    OBVIOUS
  <2> QED
    BY <1>3, <1>4, <1>5, <1>6, <2>1 DEF Pieces
<1>8. Pieces(w, << >>, r, a)
  <2>1. \A i \in 1..Len(w) : i \in 1..Len(t) \/ i = Len(t) + 1
    BY <1>2
  <2>2. \A i \in 1..Len(w), j \in 1..Len(r) : w[i] < r[j]
    BY <1>2, <1>4, <1>6, <2>1
  <2>3. \A i, j \in 1..Len(w) : i < j => w[i] < w[j] \/ (w[i] = w[j] /\ w[i] \in a)
    <3> SUFFICES ASSUME NEW i \in 1..Len(w), NEW j \in 1..Len(w), i < j
                 PROVE  w[i] < w[j] \/ (w[i] = w[j] /\ w[i] \in a)
      OBVIOUS
    <3>1. i \in 1..Len(t)
      BY <1>2
    <3>2. CASE j \in 1..Len(t)
      BY <1>2, <1>3, <3>1, <3>2
    <3>3. CASE j = Len(t) + 1
      BY <1>2, <1>6, <3>1, <3>3
    <3> QED
      BY <2>1, <3>2, <3>3
  <2>4. Len(<< >>) = 0
    BY EmptySeq
  <2> QED
    BY <1>5, <2>2, <2>3, <2>4 DEF Pieces
<1> QED
  BY <1>7, <1>8 DEF h, r, w

\* The look-ahead goes to a program.
LEMMA GivePieces ==
  ASSUME NEW t \in Seq(Int), NEW b \in Seq(Int), NEW a, NEW x \in Int, x # Stop,
         Pieces(t, << x >>, b, a)
  PROVE  Pieces(Append(t, x), << >>, b, a)
<1> DEFINE w == Append(t, x)
<1>1. /\ w \in Seq(Int) /\ Len(t) \in Nat /\ Len(w) = Len(t) + 1
      /\ \A i \in 1..Len(t) : w[i] = t[i]
      /\ w[Len(t) + 1] = x
  BY AppendIs
<1> HIDE DEF w
<1>2. Len(<< x >>) = 1 /\ << x >>[1] = x /\ Len(<< >>) = 0
  OBVIOUS
<1>3. /\ \A i, j \in 1..Len(b) : i < j => b[i] < b[j]
      /\ \A i \in 1..Len(t), j \in 1..Len(b) : t[i] < b[j]
      /\ \A i, j \in 1..Len(t) : i < j => t[i] < t[j] \/ (t[i] = t[j] /\ t[i] \in a)
      /\ \A j \in 1..Len(b) : x < b[j]
      /\ \A i \in 1..Len(t) : t[i] < x \/ (t[i] = x /\ t[i] \in a)
  BY <1>2 DEF Pieces
<1>4. \A i \in 1..Len(w) : i \in 1..Len(t) \/ i = Len(t) + 1
  BY <1>1
<1>5. \A i \in 1..Len(w), j \in 1..Len(b) : w[i] < b[j]
  BY <1>1, <1>3, <1>4
<1>6. \A i, j \in 1..Len(w) : i < j => w[i] < w[j] \/ (w[i] = w[j] /\ w[i] \in a)
  <2> SUFFICES ASSUME NEW i \in 1..Len(w), NEW j \in 1..Len(w), i < j
               PROVE  w[i] < w[j] \/ (w[i] = w[j] /\ w[i] \in a)
    OBVIOUS
  <2>1. i \in 1..Len(t)
    BY <1>1
  <2>2. CASE j \in 1..Len(t)
    BY <1>1, <1>3, <2>1, <2>2
  <2>3. CASE j = Len(t) + 1
    BY <1>1, <1>3, <2>1, <2>3
  <2> QED
    BY <1>4, <2>2, <2>3
<1>7. \A k \in 1..Len(<< >>) : FALSE
  BY <1>2
<1>8. Pieces(w, << >>, b, a)
  BY <1>3, <1>5, <1>6, <1>7, Zenon DEF Pieces
<1> QED
  BY <1>8 DEF w

\* A key goes to a program and stays in the look-ahead.
LEMMA TwicePieces ==
  ASSUME NEW t \in Seq(Int), NEW b \in Seq(Int), NEW a, NEW x \in Int, x # Stop,
         Pieces(t, << x >>, b, a)
  PROVE  Pieces(Append(t, x), << x >>, b, a \union {x})
<1> DEFINE w == Append(t, x)
           c == a \union {x}
<1>1. /\ w \in Seq(Int) /\ Len(t) \in Nat /\ Len(w) = Len(t) + 1
      /\ \A i \in 1..Len(t) : w[i] = t[i]
      /\ w[Len(t) + 1] = x
  BY AppendIs
<1>2. Pieces(w, << >>, b, a)
  BY GivePieces
<1>3. Len(<< x >>) = 1 /\ << x >>[1] = x
  OBVIOUS
<1>4. a \subseteq c /\ x \in c
  OBVIOUS
<1> HIDE DEF w, c
<1>5. \A i \in 1..Len(w) : i \in 1..Len(t) \/ i = Len(t) + 1
  BY <1>1
<1>6. /\ \A j \in 1..Len(b) : x < b[j]
      /\ \A i \in 1..Len(t) : t[i] < x \/ (t[i] = x /\ t[i] \in a)
  BY <1>3 DEF Pieces
<1>7. \A i \in 1..Len(w) : w[i] < x \/ (w[i] = x /\ w[i] \in c)
  BY <1>1, <1>4, <1>5, <1>6
<1>8. \A k \in 1..Len(<< x >>) : k = 1
  BY <1>3
<1>9. \A i, j \in 1..Len(w) : i < j => w[i] < w[j] \/ (w[i] = w[j] /\ w[i] \in c)
  BY <1>2, <1>4 DEF Pieces
<1>10. /\ \A i, j \in 1..Len(b) : i < j => b[i] < b[j]
       /\ \A i \in 1..Len(w), j \in 1..Len(b) : w[i] < b[j]
  BY <1>2 DEF Pieces
<1>11. \A k \in 1..Len(<< x >>) :
          /\ \A j \in 1..Len(b) : << x >>[k] < b[j]
          /\ \A i \in 1..Len(w) : w[i] < << x >>[k] \/ (w[i] = << x >>[k] /\ w[i] \in c)
  BY <1>3, <1>6, <1>7, <1>8
<1>12. Pieces(w, << x >>, b, c)
  BY <1>9, <1>10, <1>11, Zenon DEF Pieces
<1> QED
  BY <1>12 DEF w, c

LEMMA ConstPieces ==
  ASSUME TypeOK, Ordered, NEW nz \in BOOLEAN, Const(nz)
  PROVE  Pieces(taken, latch', buffer', again)
<1>1. CASE stopDown
  <2>1. latch' = << Stop >> /\ buffer' = << >>
    BY <1>1 DEF Const
  <2>2. Len(<< >>) = 0 /\ Len(<< Stop >>) = 1 /\ << Stop >>[1] = Stop
    OBVIOUS
  <2>3. \A k \in 1..Len(<< Stop >>) : << Stop >>[k] = Stop
    BY <2>2
  <2> QED
    BY <2>1, <2>2, <2>3 DEF Ordered, Pieces
<1>2. CASE ~stopDown /\ latch = << >> /\ buffer # << >>
  <2>1. latch' = << Head(buffer) >> /\ buffer' = Tail(buffer)
    BY <1>2 DEF Const
  <2> QED
    BY <1>2, <2>1, Ints, FetchPieces DEF Ordered
<1>3. CASE ~stopDown /\ ~(latch = << >> /\ buffer # << >>)
  BY <1>3 DEF Const, Ordered
<1> QED
  BY <1>1, <1>2, <1>3

LEMMA TakePieces ==
  ASSUME TypeOK, Ordered, Take
  PROVE  Pieces(taken', latch', buffer', again)
<1>1. CASE latch # << >>
  <2>1. taken' = taken \o Keys(latch) /\ latch' = << >> /\ buffer' = buffer
    BY <1>1 DEF Take
  <2>2. latch \in Seq(Int) /\ Len(latch) <= 1
    BY Ints DEF TypeOK
  <2>3. latch[1] \in Int /\ latch = << latch[1] >>
    BY <1>1, <2>2, OneIs
  <2>4. CASE latch = << Stop >>
    <3>1. taken' = taken
      BY <2>1, <2>4, Ints, ConcatEmptySeq DEF Keys
    <3>2. Len(<< >>) = 0
      OBVIOUS
    <3> QED
      BY <2>1, <3>1, <3>2 DEF Ordered, Pieces
  <2>5. CASE latch # << Stop >>
    <3> DEFINE x == latch[1]
    <3>1. x \in Int /\ latch = << x >>
      BY <2>3
    <3> HIDE DEF x
    <3>2. x # Stop
      BY <2>5, <3>1
    <3>3. taken' = Append(taken, x)
      BY <2>1, <2>5, <3>1, Ints, AppendIsConcat DEF Keys
    <3>4. Pieces(taken, << x >>, buffer, again)
      BY <3>1 DEF Ordered
    <3> QED
      BY <2>1, <3>1, <3>2, <3>3, <3>4, Ints, GivePieces
  <2> QED
    BY <2>4, <2>5
<1>2. CASE latch = << >>
  <2>1. buffer # << >> /\ taken' = Append(taken, Head(buffer)) /\ buffer' = Tail(buffer) /\ latch' = latch
    BY <1>2 DEF Take
  <2> QED
    BY <1>2, <2>1, Ints, FetchPieces DEF Ordered
<1> QED
  BY <1>1, <1>2

LEMMA Func6Pieces == TypeOK /\ Ordered /\ Func6 => Ordered'
<1> SUFFICES ASSUME TypeOK, Ordered, Func6 PROVE Ordered'
  OBVIOUS
<1>1. PICK nz \in BOOLEAN :
        \/ /\ stopDown /\ nz
           /\ buffer' = << >> /\ latch' = << >> /\ UNCHANGED << taken, again >>
        \/ /\ ~stopDown /\ nz /\ Take /\ UNCHANGED again
        \/ /\ ~stopDown /\ ~nz /\ latch = << >> /\ Const(nz)
           /\ taken' = taken \o latch'
           /\ again' = again \union { latch'[i] : i \in DOMAIN latch' }
  BY DEF Func6
<1>2. CASE buffer' = << >> /\ latch' = << >> /\ UNCHANGED << taken, again >>
  <2>1. Len(<< >>) = 0
    OBVIOUS
  <2> QED
    BY <1>2, <2>1 DEF Ordered, Pieces
<1>3. CASE Take /\ UNCHANGED again
  BY <1>3, TakePieces DEF Ordered
<1>4. CASE /\ ~stopDown /\ ~nz /\ latch = << >> /\ Const(nz)
           /\ taken' = taken \o latch'
           /\ again' = again \union { latch'[i] : i \in DOMAIN latch' }
  <2>1. CASE buffer = << >>
    <3>1. latch' = << >> /\ buffer' = buffer
      BY <1>4, <2>1 DEF Const
    <3>2. taken' = taken
      BY <1>4, <3>1, Ints, ConcatEmptySeq
    <3>3. again' = again
      BY <1>4, <3>1
    <3> QED
      BY <1>4, <3>1, <3>2, <3>3 DEF Ordered
  <2>2. CASE buffer # << >>
    <3> DEFINE x == Head(buffer)
    <3>1. latch' = << x >>
      BY <1>4, <2>2 DEF Const
    <3>2. x \in 1..typed /\ typed \in Nat
      BY <2>2, TailIs DEF TypeOK
    <3> HIDE DEF x
    <3>3. x \in Int /\ x # Stop
      BY <3>2 DEF Stop
    <3>4. Pieces(taken, << x >>, buffer', again)
      BY <1>4, <3>1, ConstPieces
    <3>5. buffer' \in Seq(Int)
      <4>1. buffer' \in Seq(1..typed) /\ 1..typed \subseteq Int
        BY <1>4, ConstTypes
      <4> QED
        BY <4>1, Wider
    <3>6. taken' = Append(taken, x)
      BY <1>4, <3>1, <3>3, Ints, AppendIsConcat
    <3>7. again' = again \union {x}
      BY <1>4, <3>1
    <3> QED
      BY <3>1, <3>3, <3>4, <3>5, <3>6, <3>7, Ints, TwicePieces DEF Ordered
  <2> QED
    BY <2>1, <2>2
<1> QED
  BY <1>1, <1>2, <1>3, <1>4

\* A key is typed behind all others; a part of the buffer is as good.
LEMMA TypePieces ==
  ASSUME NEW t \in Seq(Int), NEW b \in Seq(Int), NEW l, NEW a, NEW x \in Int,
         \A i \in 1..Len(t) : t[i] < x, \A i \in 1..Len(l) : l[i] < x,
         \A i \in 1..Len(b) : b[i] < x, Pieces(t, l, b, a)
  PROVE  Pieces(t, l, Append(b, x), a)
<1> DEFINE w == Append(b, x)
<1>1. /\ Len(b) \in Nat /\ Len(w) = Len(b) + 1 /\ w[Len(b) + 1] = x
      /\ \A i \in 1..Len(b) : w[i] = b[i]
  BY AppendIs
<1> HIDE DEF w
<1>2. \A i \in 1..Len(w) : i \in 1..Len(b) \/ i = Len(b) + 1
  BY <1>1
<1>3. \A i, j \in 1..Len(w) : i < j => w[i] < w[j]
  <2> SUFFICES ASSUME NEW i \in 1..Len(w), NEW j \in 1..Len(w), i < j PROVE w[i] < w[j]
    OBVIOUS
  <2>1. i \in 1..Len(b)
    BY <1>1
  <2>2. CASE j \in 1..Len(b)
    BY <1>1, <2>1, <2>2 DEF Pieces
  <2>3. CASE j = Len(b) + 1
    BY <1>1, <2>1, <2>3
  <2> QED
    BY <1>2, <2>2, <2>3
<1>4. \A i \in 1..Len(t), j \in 1..Len(w) : t[i] < w[j]
  BY <1>1, <1>2 DEF Pieces
<1>5. \A k \in 1..Len(l), j \in 1..Len(w) : l[k] # Stop => l[k] < w[j]
  BY <1>1, <1>2 DEF Pieces
<1> QED
  BY <1>3, <1>4, <1>5 DEF Pieces, w

LEMMA PartPieces ==
  ASSUME NEW t, NEW b \in Seq(Int), NEW l, NEW a, NEW n \in Nat, NEW r \in Seq(Int),
         Len(r) + n <= Len(b), \A i \in 1..Len(r) : r[i] = b[i + n], Pieces(t, l, b, a)
  PROVE  Pieces(t, l, r, a)
<1>1. Len(b) \in Nat /\ Len(r) \in Nat
  BY LenProperties
<1>2. \A i \in 1..Len(r) : i + n \in 1..Len(b)
  BY <1>1
<1>3. \A i, j \in 1..Len(r) : i < j => r[i] < r[j]
  <2> SUFFICES ASSUME NEW i \in 1..Len(r), NEW j \in 1..Len(r), i < j PROVE r[i] < r[j]
    OBVIOUS
  <2>1. i + n < j + n
    BY <1>1
  <2> QED
    BY <1>2, <2>1 DEF Pieces
<1>4. \A i \in 1..Len(t), j \in 1..Len(r) : t[i] < r[j]
  BY <1>2 DEF Pieces
<1>5. \A k \in 1..Len(l), j \in 1..Len(r) : l[k] # Stop => l[k] < r[j]
  BY <1>2 DEF Pieces
<1> QED
  BY <1>3, <1>4, <1>5 DEF Pieces

\* Between the reading of PUTPNT and the writing of GETPNT keys come behind the
\* place that was read.
EscMark ==
  phase = "escSet" =>
    put <= Len(buffer) /\ \A i \in 1..Len(buffer) : i > put => buffer[i] > escAt
KeyInv == TypeOK /\ Ordered /\ EscMark

LEMMA EscSetRest ==
  ASSUME TypeOK, EscMark, EscSet
  PROVE  /\ buffer' \in Seq(Int) /\ Len(buffer') = Len(buffer) - put
         /\ \A i \in 1..Len(buffer') : i + put \in 1..Len(buffer) /\ buffer'[i] = buffer[i + put]
<1>1. buffer' = SubSeq(buffer, put + 1, Len(buffer)) /\ put <= Len(buffer) /\ put \in Nat
  BY DEF EscSet, EscMark, TypeOK
<1> QED
  BY <1>1, Ints, RestIs

LEMMA KeyStep == KeyInv /\ [Next]_vars => Ordered' /\ EscMark'
<1> SUFFICES ASSUME TypeOK, Ordered, EscMark, [Next]_vars PROVE Ordered' /\ EscMark'
  BY DEF KeyInv
<1> USE DEF thread, lampVars, keyVars, user, seen
<1>1. ASSUME TypeKey PROVE Ordered' /\ EscMark'
  <2>1. /\ typed' = typed + 1 /\ typed \in Nat /\ escAt \in 0..typed
        /\ UNCHANGED << phase, put, taken, latch, again, escAt >>
    BY <1>1 DEF TypeKey, TypeOK
  <2>2. CASE Len(buffer) < BufferMax
    <3>1. buffer' = Append(buffer, typed')
      BY <1>1, <2>2 DEF TypeKey
    <3>2. /\ \A i \in 1..Len(taken) : taken[i] < typed'
          /\ \A i \in 1..Len(latch) : latch[i] < typed'
          /\ \A i \in 1..Len(buffer) : buffer[i] < typed'
      <4>1. /\ \A i \in 1..Len(taken) : taken[i] \in 1..typed
            /\ \A i \in 1..Len(latch) : latch[i] \in 0..typed
            /\ \A i \in 1..Len(buffer) : buffer[i] \in 1..typed
        BY ElementOfSeq DEF TypeOK
      <4> QED
        BY <2>1, <4>1
    <3>3. Ordered'
      <4>0. /\ typed' \in Int /\ taken \in Seq(Int) /\ buffer \in Seq(Int)
            /\ Pieces(taken, latch, buffer, again)
        BY <2>1, Ints DEF Ordered
      <4>1. Pieces(taken, latch, Append(buffer, typed'), again)
        BY <3>2, <4>0, TypePieces
      <4> QED
        BY <2>1, <3>1, <4>1 DEF Ordered
    <3>4. EscMark'
      <4>1. /\ Len(buffer) \in Nat /\ Len(buffer') = Len(buffer) + 1
            /\ buffer'[Len(buffer) + 1] = typed'
            /\ \A i \in 1..Len(buffer) : buffer'[i] = buffer[i]
        BY <2>1, <3>1, Ints, AppendIs
      <4>2. put \in Nat /\ escAt < typed'
        BY <2>1 DEF TypeOK
      <4>3. \A i \in 1..Len(buffer') : i \in 1..Len(buffer) \/ i = Len(buffer) + 1
        BY <4>1
      <4> QED
        BY <2>1, <4>1, <4>2, <4>3 DEF EscMark
    <3> QED
      BY <3>3, <3>4
  <2>3. CASE ~(Len(buffer) < BufferMax)
    <3>1. buffer' = buffer
      BY <1>1, <2>3 DEF TypeKey
    <3> QED
      BY <2>1, <3>1 DEF Ordered, EscMark
  <2> QED
    BY <2>2, <2>3
<1>2. ASSUME ConstStatus PROVE Ordered' /\ EscMark'
  <2>1. PICK nz \in BOOLEAN : Const(nz)
    BY <1>2 DEF ConstStatus
  <2>2. UNCHANGED << taken, again, phase >> /\ phase = "idle"
    BY <1>2 DEF ConstStatus
  <2> QED
    BY <2>1, <2>2, ConstPieces DEF Ordered, EscMark
<1>3. ASSUME Func6 PROVE Ordered' /\ EscMark'
  BY <1>3, Func6Pieces DEF Func6, EscMark
<1>4. ASSUME ConIn PROVE Ordered' /\ EscMark'
  BY <1>4, TakePieces DEF ConIn, Ordered, EscMark
<1>5. ASSUME EscGet PROVE Ordered' /\ EscMark'
  <2>1. buffer # << >> /\ buffer' = Tail(buffer) /\ UNCHANGED << taken, latch, again >>
        /\ phase' = "escPut"
    BY <1>5 DEF EscGet
  <2>2. /\ buffer' \in Seq(Int) /\ Len(buffer') + 1 <= Len(buffer)
        /\ \A i \in 1..Len(buffer') : buffer'[i] = buffer[i + 1]
    BY <2>1, Ints, TailIs
  <2>3. Pieces(taken, latch, buffer', again)
    BY <2>2, Ints, PartPieces DEF Ordered
  <2> QED
    BY <2>1, <2>3 DEF Ordered, EscMark
<1>6. ASSUME EscPut PROVE Ordered' /\ EscMark'
  <2>1. put' = Len(buffer) /\ UNCHANGED << taken, latch, buffer, again >>
    BY <1>6 DEF EscPut
  <2>2. Len(buffer) \in Nat
    BY Ints, LenProperties
  <2> QED
    BY <2>1, <2>2 DEF Ordered, EscMark
<1>7. ASSUME EscSet PROVE Ordered' /\ EscMark'
  <2>1. put \in Nat /\ Len(buffer) \in Nat /\ Len(buffer') + put <= Len(buffer)
    BY EscSetRest, <1>7, Ints, LenProperties DEF TypeOK
  <2>2. Pieces(taken, latch, buffer', again)
    BY <1>7, <2>1, EscSetRest, Ints, PartPieces DEF Ordered
  <2>3. UNCHANGED << taken, latch, again >> /\ phase' = "idle"
    BY <1>7 DEF EscSet
  <2> QED
    BY <2>2, <2>3 DEF Ordered, EscMark
<1>8. ASSUME \/ HoldStop \/ LetEscGo \/ PressCaps \/ Enter \/ FuncB \/ SpinEnds
             \/ StoreCaps \/ OutLamp \/ Run \/ EscSeen \/ Polled \/ UNCHANGED vars
      PROVE  Ordered' /\ EscMark'
  <2>1. UNCHANGED << taken, latch, buffer, again, put, escAt >>
    BY <1>8 DEF HoldStop, LetEscGo, PressCaps, Enter, FuncB, SpinEnds, StoreCaps, OutLamp,
                Run, EscSeen, Polled, vars
  <2>2. phase' = "escSet" => phase = "escSet"
    BY <1>8 DEF HoldStop, LetEscGo, PressCaps, Enter, FuncB, SpinEnds, StoreCaps, OutLamp,
                Run, EscSeen, Polled, vars
  <2> QED
    BY <2>1, <2>2 DEF Ordered, EscMark
<1> QED
  BY <1>1, <1>2, <1>3, <1>4, <1>5, <1>6, <1>7, <1>8 DEF Next, User, Program, Thread

LEMMA KeyInitially == Init => KeyInv
<1> SUFFICES ASSUME Init PROVE KeyInv
  OBVIOUS
<1>1. Len(<< >>) = 0 /\ taken = << >> /\ latch = << >> /\ buffer = << >> /\ phase = "idle"
  BY DEF Init
<1> QED
  BY <1>1, TypeInit DEF KeyInv, Ordered, Pieces, EscMark

LEMMA KeyAlways == Spec => []KeyInv
<1>1. KeyInv /\ [Next]_vars => KeyInv'
  BY KeyStep, TypeStep DEF KeyInv
<1> QED
  BY <1>1, KeyInitially, PTL DEF Spec

\* KeysInOrder: through status calls, reads, STOP and ESC (CONST_unsafe,
\* CONIN_unsafe, Func6) keys reach the programs in the order typed, each once,
\* twice only what function 6 gave out of CONST.
THEOREM KeysNeverSwapped == Spec => []KeysInOrder
<1>1. KeyInv => KeysInOrder
  BY OrderedKeys DEF KeyInv
<1> QED
  BY <1>1, KeyAlways, PTL

LEMMA EscStep == KeyInv /\ EscClears /\ [Next]_vars => EscClears'
<1> SUFFICES ASSUME TypeOK, EscMark, EscClears, [Next]_vars, phase' # "escSet",
                    NEW i \in DOMAIN buffer'
             PROVE  buffer'[i] > escAt'
  BY DEF KeyInv, EscClears
<1> USE DEF thread, lampVars, keyVars, user, seen
<1>0. Len(buffer) \in Nat /\ DOMAIN buffer = 1..Len(buffer) /\ escAt \in Nat
  BY Ints, LenProperties DEF TypeOK
<1>1. CASE TypeKey
  <2>1. /\ typed' = typed + 1 /\ typed \in Nat /\ escAt \in 0..typed
        /\ UNCHANGED << phase, escAt >>
    BY <1>1 DEF TypeKey, TypeOK
  <2>0. \A k \in 1..Len(buffer) : buffer[k] > escAt
    BY <1>0, <2>1 DEF EscClears
  <2>2. CASE Len(buffer) < BufferMax
    <3>1. buffer' = Append(buffer, typed')
      BY <1>1, <2>2 DEF TypeKey
    <3>2. /\ Append(buffer, typed') \in Seq(Int) /\ Len(buffer') = Len(buffer) + 1
          /\ buffer'[Len(buffer) + 1] = typed'
          /\ \A k \in 1..Len(buffer) : buffer'[k] = buffer[k]
      BY <2>1, <3>1, Ints, AppendIs
    <3>3. i \in 1..Len(buffer')
      BY <3>1, <3>2, LenProperties
    <3>4. i \in 1..Len(buffer) \/ i = Len(buffer) + 1
      BY <1>0, <3>2, <3>3
    <3> QED
      BY <2>0, <2>1, <3>2, <3>4
  <2>3. CASE ~(Len(buffer) < BufferMax)
    BY <1>0, <1>1, <2>0, <2>1, <2>3 DEF TypeKey
  <2> QED
    BY <2>2, <2>3
<1>2. ASSUME buffer # << >>, buffer' = Tail(buffer), phase # "escSet", escAt' = escAt
      PROVE  buffer'[i] > escAt'
  <2>1. /\ Tail(buffer) \in Seq(Int) /\ Len(buffer') = Len(buffer) - 1
        /\ \A k \in 1..Len(buffer') : buffer'[k] = buffer[k + 1]
    BY <1>2, Ints, TailIs
  <2>2. i \in 1..Len(buffer')
    BY <1>2, <2>1, LenProperties
  <2>3. i + 1 \in 1..Len(buffer)
    BY <1>0, <2>1, <2>2
  <2> QED
    BY <1>0, <1>2, <2>1, <2>2, <2>3 DEF EscClears
<1>3. ASSUME buffer' = << >> PROVE buffer'[i] > escAt'
  BY <1>3
<1>4. ASSUME buffer' = buffer, phase # "escSet", escAt' = escAt PROVE buffer'[i] > escAt'
  BY <1>4 DEF EscClears
<1>5. CASE ConstStatus
  <2>1. PICK nz \in BOOLEAN : Const(nz)
    BY <1>5 DEF ConstStatus
  <2>2. phase = "idle" /\ escAt' = escAt
    BY <1>5 DEF ConstStatus
  <2> QED
    BY <1>2, <1>3, <1>4, <2>1, <2>2 DEF Const
<1>6. CASE Func6
  BY <1>2, <1>3, <1>4, <1>6 DEF Func6, Const, Take
<1>7. CASE ConIn
  BY <1>2, <1>4, <1>7 DEF ConIn, Take
<1>8. CASE EscGet
  BY <1>2, <1>8 DEF EscGet
<1>9. CASE EscSet
  <2>1. /\ Len(buffer') = Len(buffer) - put /\ buffer' \in Seq(Int)
        /\ \A k \in 1..Len(buffer') : k + put \in 1..Len(buffer) /\ buffer'[k] = buffer[k + put]
    BY <1>9, EscSetRest
  <2>2. i \in 1..Len(buffer') /\ put \in Nat /\ phase = "escSet" /\ escAt' = escAt
    BY <1>9, <2>1, LenProperties DEF EscSet, TypeOK
  <2>3. i + put > put /\ i + put \in 1..Len(buffer)
    BY <1>0, <2>1, <2>2
  <2> QED
    BY <2>1, <2>2, <2>3 DEF EscMark
<1>10. CASE \/ HoldStop \/ LetEscGo \/ PressCaps \/ Enter \/ FuncB \/ SpinEnds
            \/ StoreCaps \/ OutLamp \/ Run \/ EscSeen \/ Polled \/ UNCHANGED vars
  <2>1. buffer' = buffer /\ escAt' = escAt
    BY <1>10 DEF HoldStop, LetEscGo, PressCaps, Enter, FuncB, SpinEnds, StoreCaps, OutLamp,
                 Run, EscSeen, Polled, vars
  <2>2. phase # "escSet"
    BY <1>10 DEF HoldStop, LetEscGo, PressCaps, Enter, FuncB, SpinEnds, StoreCaps, OutLamp,
                 Run, EscSeen, Polled, vars
  <2> QED
    BY <1>4, <2>1, <2>2
<1>11. CASE EscPut
  BY <1>11 DEF EscPut
<1> QED
  BY <1>1, <1>5, <1>6, <1>7, <1>8, <1>9, <1>10, <1>11 DEF Next, User, Program, Thread

\* EscClears: ClearKeyboardBuffer leaves only keys typed after PUTPNT was read.
THEOREM EscEmptiesBuffer == Spec => []EscClears
<1>1. Init => EscClears
  BY DEF Init, EscClears
<1> QED
  BY <1>1, EscStep, KeyAlways, PTL DEF Spec

-----------------------------------------------------------------------------
(* What a status call has told.                                            *)

\* StatusKept at every place: ESC takes a key away only when none was told.
ToldTrue ==
  /\ told = "buffer" => buffer # << >>
  /\ told = "latch" => latch # << >>
  /\ phase \in {"escPut", "escSet"} => told # "buffer"

LEMMA ToldStep == TypeOK /\ ToldTrue /\ [Next]_vars => ToldTrue'
<1> SUFFICES ASSUME TypeOK, ToldTrue, [Next]_vars PROVE ToldTrue'
  OBVIOUS
<1> USE DEF thread, lampVars, keyVars, user, seen
<1>1. CASE TypeKey
  <2>1. buffer' # << >> \/ buffer' = buffer
    <3>1. Append(buffer, typed') # << >>
      <4>1. typed' \in Int
        BY <1>1 DEF TypeKey, TypeOK
      <4> QED
        BY <4>1, Ints, AppendProperties
    <3> QED
      BY <1>1, <3>1 DEF TypeKey
  <2> QED
    BY <1>1, <2>1 DEF TypeKey, ToldTrue
<1>2. CASE ConstStatus
  <2>1. PICK nz \in BOOLEAN : Const(nz) /\ told' = (IF nz THEN "latch" ELSE "none")
    BY <1>2 DEF ConstStatus
  <2>2. phase' = "idle"
    BY <1>2 DEF ConstStatus
  <2>3. \A x : << x >> # << >>
    OBVIOUS
  <2>4. nz => latch' # << >>
    BY <2>1, <2>3, Zenon DEF Const
  <2> QED
    BY <2>1, <2>2, <2>4 DEF ToldTrue
<1>3. CASE FuncB
  BY <1>3 DEF FuncB, ToldTrue
<1>4. CASE Func6
  BY <1>4 DEF Func6, ToldTrue
<1>5. CASE ConIn
  BY <1>5 DEF ConIn, ToldTrue
<1>6. CASE EscGet \/ EscPut
  BY <1>6 DEF EscGet, EscPut, ToldTrue
<1>7. CASE EscSet
  BY <1>7 DEF EscSet, ToldTrue
<1>8. CASE \/ HoldStop \/ LetEscGo \/ PressCaps \/ Enter \/ SpinEnds
           \/ StoreCaps \/ OutLamp \/ Run \/ EscSeen \/ Polled \/ UNCHANGED vars
  <2>1. /\ UNCHANGED << buffer, latch, told >>
        /\ phase' \in {"escPut", "escSet"} => phase \in {"escPut", "escSet"}
    BY <1>8 DEF HoldStop, LetEscGo, PressCaps, Enter, SpinEnds, StoreCaps, OutLamp, Run,
                EscSeen, Polled, vars
  <2> QED
    BY <2>1 DEF ToldTrue
<1> QED
  BY <1>1, <1>2, <1>3, <1>4, <1>5, <1>6, <1>7, <1>8 DEF Next, User, Program, Thread

\* StatusKept: after function 0Bh or CONST has reported a key, the reads that
\* look where the report came from do not wait.
THEOREM StatusTrusted == Spec => []StatusKept
<1>1. Init => ToldTrue
  BY DEF Init, ToldTrue
<1>2. TypeOK /\ ToldTrue => StatusKept
  <2> SUFFICES ASSUME TypeOK, ToldTrue PROVE StatusKept
    OBVIOUS
  <2>1. told \in {"none", "latch", "buffer"}
    BY DEF TypeOK
  <2>2. told # "none" => latch # << >> \/ buffer # << >>
    BY <2>1 DEF ToldTrue
  <2>3. latch \o buffer = << >> => latch = << >> /\ buffer = << >>
    BY Ints, ConcatEqualIffEmpty
  <2>4. told # "none" => latch \o buffer # << >>
    BY <2>2, <2>3
  <2>5. told = "buffer" => buffer # << >>
    BY DEF ToldTrue
  <2> QED
    BY <2>4, <2>5 DEF StatusKept
<1>3. Spec => []TypeOK
  BY WorkstationTypes
<1> QED
  BY <1>1, <1>2, <1>3, ToldStep, PTL DEF Spec

-----------------------------------------------------------------------------
(* The CAPS lamp.                                                          *)

LEMMA Parity == \A n \in Nat : (n % 2 = 1) <=> ~((n + 1) % 2 = 1)
OBVIOUS

LEMMA CapsStep == TypeOK /\ CapsKept /\ [Next]_vars => CapsKept'
<1> SUFFICES ASSUME TypeOK, CapsKept, [Next]_vars PROVE CapsKept'
  OBVIOUS
<1> USE DEF thread, lampVars, keyVars, user, seen
<1>0. presses \in Nat /\ dropped \in Nat /\ presses - dropped \in Nat
  BY DEF TypeOK
<1> DEFINE odd == (presses - dropped) % 2 = 1
<1>1. CASE PressCaps
  <2>1. CASE phase \in {"toggleStore", "restoreStore"}
    <3>1. presses' - dropped' = presses - dropped /\ phase' = phase /\ acc' = acc
      BY <1>0, <1>1, <2>1 DEF PressCaps
    <3> QED
      BY <2>1, <3>1 DEF CapsKept
  <2>2. CASE phase \notin {"toggleStore", "restoreStore"}
    <3>1. presses' - dropped' = (presses - dropped) + 1 /\ phase' = phase /\ caps' = ~caps
      BY <1>0, <1>1, <2>2 DEF PressCaps
    <3>2. odd <=> ~((presses' - dropped') % 2 = 1)
      BY <1>0, <3>1, Parity
    <3>3. caps \in BOOLEAN /\ caps = odd
      BY <2>2 DEF CapsKept, TypeOK
    <3>4. ((presses' - dropped') % 2 = 1) \in BOOLEAN /\ odd \in BOOLEAN
      OBVIOUS
    <3> HIDE DEF odd
    <3>5. caps' = ((presses' - dropped') % 2 = 1)
      BY <3>1, <3>2, <3>3, <3>4, Zenon
    <3> QED
      BY <2>2, <3>1, <3>5 DEF CapsKept
  <2> QED
    BY <2>1, <2>2
<1>2. CASE Enter
  BY <1>2, Zenon DEF Enter, CapsKept
<1>3. CASE StoreCaps
  BY <1>3 DEF StoreCaps, CapsKept
<1>4. CASE Run
  BY <1>4 DEF Run, CapsKept
<1>5. CASE \/ TypeKey \/ HoldStop \/ LetEscGo \/ ConstStatus \/ FuncB \/ Func6
           \/ SpinEnds \/ ConIn \/ OutLamp \/ EscSeen \/ EscGet \/ EscPut \/ EscSet
           \/ Polled \/ UNCHANGED vars
  <2>1. /\ UNCHANGED << caps, acc, presses, dropped >>
        /\ phase \notin {"toggleStore", "restoreStore"} =>
             phase' \notin {"toggleStore", "restoreStore"}
        /\ phase \in {"toggleStore", "restoreStore"} => phase' = phase
    BY <1>5 DEF TypeKey, HoldStop, LetEscGo, ConstStatus, FuncB, Func6, SpinEnds, ConIn,
                OutLamp, EscSeen, EscGet, EscPut, EscSet, Polled, vars
  <2> QED
    BY <2>1 DEF CapsKept
<1> QED
  BY <1>1, <1>2, <1>3, <1>4, <1>5 DEF Next, User, Program, Thread

\* CapsKept: caps_light_on and caps_light_off lose a press of the CAPS key only
\* if it comes between their reading and their writing of CAPST.
THEOREM CapsFollowsKey == Spec => []CapsKept
<1>1. Init => CapsKept
  <2>1. ~((0 - 0) % 2 = 1)
    OBVIOUS
  <2>2. \A b : (b = FALSE) /\ ~((0 - 0) % 2 = 1) => b = ((0 - 0) % 2 = 1)
    OBVIOUS
  <2> QED
    BY <2>1, <2>2, Zenon DEF Init, CapsKept
<1>2. Spec => []TypeOK
  BY WorkstationTypes
<1> QED
  BY <1>1, <1>2, CapsStep, PTL DEF Spec

\* The lamp is right where LampShowsCaps says so, and register A holds CAPST
\* when RestoreCAPS comes to the lamp, unless the key was pressed meanwhile.
LampRight ==
  /\ LampShowsCaps
  /\ phase = "restoreLamp" /\ stale # "raced" => acc = caps

LEMMA LampStep == TypeOK /\ LampRight /\ [Next]_vars => LampRight'
<1> SUFFICES ASSUME TypeOK, LampRight, [Next]_vars PROVE LampRight'
  OBVIOUS
<1> USE DEF thread, lampVars, keyVars, user, seen
<1>1. CASE PressCaps
  BY <1>1, Zenon DEF PressCaps, LampRight, LampShowsCaps
<1>2. CASE Enter
  BY <1>2, Zenon DEF Enter, LampRight, LampShowsCaps
<1>3. CASE StoreCaps
  BY <1>3, Zenon DEF StoreCaps, LampRight, LampShowsCaps
<1>4. CASE OutLamp
  BY <1>4, Zenon DEF OutLamp, LampRight, LampShowsCaps
<1>5. CASE EscSet
  BY <1>5, Zenon DEF EscSet, LampRight, LampShowsCaps
<1>6. CASE \/ TypeKey \/ HoldStop \/ LetEscGo \/ ConstStatus \/ FuncB \/ Func6
           \/ SpinEnds \/ ConIn \/ Run \/ EscSeen \/ EscGet \/ EscPut
           \/ Polled \/ UNCHANGED vars
  <2>1. /\ UNCHANGED << caps, lamp, stale >>
        /\ phase' \in {"idle", "spin", "conin"} => phase \in {"idle", "spin", "conin"}
        /\ phase' = "restoreLamp" => phase = "restoreLamp" /\ acc' = acc
    BY <1>6 DEF TypeKey, HoldStop, LetEscGo, ConstStatus, FuncB, Func6, SpinEnds, ConIn,
                Run, EscSeen, EscGet, EscPut, Polled, vars
  <2> QED
    BY <2>1 DEF LampRight, LampShowsCaps
<1> QED
  BY <1>1, <1>2, <1>3, <1>4, <1>5, <1>6 DEF Next, User, Program, Thread

\* LampShowsCaps: ToggleCAPS and RestoreCAPS leave the lamp as CAPST has it, but
\* for a call left by ESC and a press inside RestoreCAPS.
THEOREM LampTrue == Spec => []LampShowsCaps
<1>1. Init => LampRight
  BY Zenon DEF Init, LampRight, LampShowsCaps
<1>2. LampRight => LampShowsCaps
  BY DEF LampRight
<1>3. Spec => []TypeOK
  BY WorkstationTypes
<1> QED
  BY <1>1, <1>2, <1>3, LampStep, PTL DEF Spec

\* CapsTrue: the CAPS key, CAPST and the lamp agree, but for what CapsKept and
\* LampShowsCaps except.
THEOREM CapsAndLamp == Spec => []CapsTrue
<1>1. CapsKept /\ LampShowsCaps => CapsTrue
  BY DEF CapsTrue
<1> QED
  BY <1>1, CapsFollowsKey, LampTrue, PTL

-----------------------------------------------------------------------------
(* The dispatch.                                                           *)

FnBounded ==
  /\ phase \in {"toggleStore", "toggleLamp", "listen", "run", "astray"} => fn <= TableSize
  /\ phase = "astray" => fn >= TableSize

LEMMA FnStep == TypeOK /\ FnBounded /\ [Next]_vars => FnBounded'
<1> SUFFICES ASSUME TypeOK, FnBounded, [Next]_vars PROVE FnBounded'
  OBVIOUS
<1> USE DEF thread, lampVars, keyVars, user, seen
<1>0. fn \in Nat /\ \A n \in Numbers : n \in Nat
  BY NetBdosAssumption DEF TypeOK
<1>1. CASE Enter
  <2>1. PICK n \in Numbers :
          /\ fn' = n
          /\ \/ phase' \in {"conin", "spin", "idle"}
             \/ Dispatch(n) = "disk" /\ phase' = "toggleStore"
    BY <1>1 DEF Enter
  <2>2. Dispatch(n) = "disk" => n <= 49
    BY <1>0, <2>1 DEF Dispatch
  <2> QED
    BY <2>1, <2>2 DEF FnBounded, TableSize
<1>2. CASE Run
  BY <1>0, <1>2 DEF Run, FnBounded, TableSize
<1>3. CASE StoreCaps \/ OutLamp
  BY <1>3 DEF StoreCaps, OutLamp, FnBounded
<1>4. CASE \/ TypeKey \/ HoldStop \/ LetEscGo \/ PressCaps \/ ConstStatus \/ FuncB \/ Func6
           \/ SpinEnds \/ ConIn \/ EscSeen \/ EscGet \/ EscPut \/ EscSet
           \/ Polled \/ UNCHANGED vars
  <2>1. fn' = fn /\ \/ phase' = phase
                    \/ phase' \in {"idle", "conin", "escGet", "escPut", "escSet"}
                    \/ phase = "listen" /\ phase' = "run"
    BY <1>4 DEF TypeKey, HoldStop, LetEscGo, PressCaps, ConstStatus, FuncB, Func6, SpinEnds,
                ConIn, EscSeen, EscGet, EscPut, EscSet, Polled, vars
  <2> QED
    BY <2>1 DEF FnBounded
<1> QED
  BY <1>1, <1>2, <1>3, <1>4 DEF Next, User, Program, Thread

\* DispatchedInTable: for every set of numbers that programs call, only 31h gets
\* past the range checks and behind DispatchTable.
THEOREM OnlyOneAstray == Spec => []DispatchedInTable
<1>1. Init => FnBounded
  BY DEF Init, FnBounded
<1>2. TypeOK /\ FnBounded => DispatchedInTable
  <2> SUFFICES ASSUME TypeOK, FnBounded, phase = "astray" PROVE fn = 49
    BY DEF DispatchedInTable
  <2>1. fn \in Nat
    BY NetBdosAssumption DEF TypeOK
  <2> QED
    BY <2>1 DEF FnBounded, TableSize
<1>3. Spec => []TypeOK
  BY WorkstationTypes
<1> QED
  BY <1>1, <1>2, <1>3, FnStep, PTL DEF Spec

-----------------------------------------------------------------------------
(* No key is lost.                                                         *)

Kept == Present(taken, latch, buffer) \ {Stop} \subseteq Present(taken', latch', buffer')

LEMMA ConstKeeps ==
  ASSUME TypeOK, ~stopDown, NEW nz \in BOOLEAN, Const(nz)
  PROVE  Present(taken, latch, buffer) \subseteq Present(taken, latch', buffer')
<1>1. CASE latch = << >> /\ buffer # << >>
  <2> DEFINE h == Head(buffer)
             r == Tail(buffer)
  <2>1. latch' = << h >> /\ buffer' = r
    BY <1>1 DEF Const
  <2>2. /\ Len(buffer) \in Nat \ {0} /\ h = buffer[1] /\ r \in Seq(Int)
        /\ Len(r) = Len(buffer) - 1 /\ \A i \in 1..Len(r) : r[i] = buffer[i + 1]
    BY <1>1, Ints, TailIs
  <2>3. DOMAIN r = 1..Len(r) /\ DOMAIN buffer = 1..Len(buffer)
    BY <2>2, Ints, LenProperties
  <2> HIDE DEF h, r
  <2>4. \A i \in DOMAIN buffer : buffer[i] = h \/ \E k \in DOMAIN r : buffer[i] = r[k]
    <3> SUFFICES ASSUME NEW i \in DOMAIN buffer, buffer[i] # h
                 PROVE  \E k \in DOMAIN r : buffer[i] = r[k]
      OBVIOUS
    <3>1. i \in Nat /\ i # 1 /\ i - 1 \in 1..Len(r) /\ (i - 1) + 1 = i
      BY <2>2, <2>3
    <3> QED
      BY <2>2, <2>3, <3>1
  <2>5. DOMAIN << h >> = {1} /\ << h >>[1] = h
    OBVIOUS
  <2> QED
    BY <1>1, <2>1, <2>4, <2>5 DEF Present
<1>2. CASE ~(latch = << >> /\ buffer # << >>)
  BY <1>2 DEF Const
<1> QED
  BY <1>1, <1>2

LEMMA AppendKeeps ==
  ASSUME NEW t \in Seq(Int), NEW x \in Int, NEW w, w = Append(t, x)
  PROVE  { w[i] : i \in DOMAIN w } = { t[i] : i \in DOMAIN t } \union {x}
<1>1. /\ w \in Seq(Int) /\ Len(t) \in Nat /\ Len(w) = Len(t) + 1
      /\ \A i \in 1..Len(t) : w[i] = t[i]
      /\ w[Len(t) + 1] = x
  BY AppendIs
<1>2. DOMAIN w = 1..Len(w) /\ DOMAIN t = 1..Len(t)
  BY <1>1, LenProperties
<1>3. \A i \in DOMAIN w : i \in DOMAIN t \/ i = Len(t) + 1
  BY <1>1, <1>2
<1>4. Len(t) + 1 \in DOMAIN w /\ \A i \in DOMAIN t : i \in DOMAIN w
  BY <1>1, <1>2
<1> QED
  BY <1>1, <1>2, <1>3, <1>4

LEMMA TakeKeeps == ASSUME TypeOK, Take PROVE Kept
<1> USE DEF Kept
<1>1. CASE latch # << >>
  <2>1. taken' = taken \o Keys(latch) /\ latch' = << >> /\ buffer' = buffer
    BY <1>1 DEF Take
  <2>2. latch \in Seq(Int) /\ Len(latch) <= 1
    BY Ints DEF TypeOK
  <2> DEFINE x == latch[1]
  <2>3. x \in Int /\ latch = << x >>
    BY <1>1, <2>2, OneIs
  <2> HIDE DEF x
  <2>4. { latch[i] : i \in DOMAIN latch } = {x}
    BY <2>3
  <2>5. { taken[i] : i \in DOMAIN taken } \union ({x} \ {Stop})
          \subseteq { taken'[i] : i \in DOMAIN taken' }
    <3>1. CASE latch = << Stop >>
      <4>1. taken' = taken
        BY <2>1, <3>1, Ints, ConcatEmptySeq DEF Keys
      <4>2. x = Stop
        BY <2>3, <3>1
      <4> QED
        BY <4>1, <4>2
    <3>2. CASE latch # << Stop >>
      <4>1. taken' = Append(taken, x)
        BY <2>1, <2>3, <3>2, Ints, AppendIsConcat DEF Keys
      <4>2. taken \in Seq(Int) /\ x \in Int
        BY <2>3, Ints
      <4>3. { taken'[i] : i \in DOMAIN taken' } = { taken[i] : i \in DOMAIN taken } \union {x}
        BY <4>1, <4>2, AppendKeeps
      <4> QED
        BY <4>3
    <3> QED
      BY <3>1, <3>2
  <2> QED
    BY <2>1, <2>4, <2>5 DEF Present
<1>2. CASE latch = << >>
  <2> DEFINE h == Head(buffer)
             r == Tail(buffer)
  <2>1. buffer # << >> /\ taken' = Append(taken, h) /\ buffer' = r /\ latch' = latch
    BY <1>2 DEF Take
  <2>2. /\ Len(buffer) \in Nat \ {0} /\ h = buffer[1] /\ h \in Int /\ r \in Seq(Int)
        /\ Len(r) = Len(buffer) - 1 /\ \A i \in 1..Len(r) : r[i] = buffer[i + 1]
    BY <2>1, Ints, TailIs
  <2>3. DOMAIN r = 1..Len(r) /\ DOMAIN buffer = 1..Len(buffer)
    BY <2>2, Ints, LenProperties
  <2> HIDE DEF h, r
  <2>4. \A i \in DOMAIN buffer : buffer[i] = h \/ \E k \in DOMAIN r : buffer[i] = r[k]
    <3> SUFFICES ASSUME NEW i \in DOMAIN buffer, buffer[i] # h
                 PROVE  \E k \in DOMAIN r : buffer[i] = r[k]
      OBVIOUS
    <3>1. i \in Nat /\ i # 1 /\ i - 1 \in 1..Len(r) /\ (i - 1) + 1 = i
      BY <2>2, <2>3
    <3> QED
      BY <2>2, <2>3, <3>1
  <2>5. { taken'[i] : i \in DOMAIN taken' } = { taken[i] : i \in DOMAIN taken } \union {h}
    <3> DEFINE v == Append(taken, h)
    <3>1. taken \in Seq(Int) /\ h \in Int
      BY <2>2, Ints
    <3>2. { v[i] : i \in DOMAIN v } = { taken[i] : i \in DOMAIN taken } \union {h}
      BY <3>1, AppendKeeps
    <3>3. taken' = v
      BY <2>1
    <3> HIDE DEF v
    <3> QED
      BY <3>2, <3>3
  <2> QED
    BY <2>1, <2>4, <2>5 DEF Present
<1> QED
  BY <1>1, <1>2

LEMMA KeptStep ==
  ASSUME TypeOK, [Next]_vars
  PROVE  \/ Kept
         \/ phase = "idle" /\ stopDown
         \/ phase \in {"escGet", "escSet"}
         \/ UNCHANGED vars
<1> USE DEF thread, lampVars, keyVars, user, seen
<1>1. CASE TypeKey
  <2>1. UNCHANGED << taken, latch >> /\ typed' \in Int
    BY <1>1 DEF TypeKey, TypeOK
  <2>2. CASE buffer' = Append(buffer, typed')
    <3> DEFINE k == typed'
    <3>1. buffer \in Seq(Int) /\ k \in Int /\ buffer' = Append(buffer, k)
      BY <2>1, <2>2, Ints
    <3> HIDE DEF k
    <3>2. { buffer'[i] : i \in DOMAIN buffer' } = { buffer[i] : i \in DOMAIN buffer } \union {k}
      BY <3>1, AppendKeeps
    <3> QED
      BY <2>1, <3>2 DEF Kept, Present
  <2>3. CASE buffer' = buffer
    BY <2>1, <2>3 DEF Kept
  <2> QED
    BY <1>1, <2>2, <2>3 DEF TypeKey
<1>2. CASE ConstStatus
  <2>1. PICK nz \in BOOLEAN : Const(nz)
    BY <1>2 DEF ConstStatus
  <2>2. taken' = taken /\ phase = "idle"
    BY <1>2 DEF ConstStatus
  <2>3. ~stopDown => Kept
    BY <2>1, <2>2, ConstKeeps DEF Kept
  <2>4. stopDown \/ ~stopDown
    OBVIOUS
  <2> QED
    BY <2>2, <2>3, <2>4
<1>3. CASE Func6
  <2>1. PICK nz \in BOOLEAN :
          \/ stopDown
          \/ Take
          \/ /\ ~stopDown /\ Const(nz) /\ latch = << >>
             /\ taken' = taken \o latch'
    BY <1>3 DEF Func6
  <2>2. phase = "idle"
    BY <1>3 DEF Func6
  <2>3. CASE ~stopDown /\ Const(nz) /\ latch = << >> /\ taken' = taken \o latch'
    <3>1. latch' \in Seq(Int)
      <4>1. latch' \in Seq(0..typed) /\ 0..typed \subseteq Int
        BY <2>3, ConstTypes
      <4> QED
        BY <4>1, Wider
    <3> DEFINE w == taken \o latch'
    <3>2. /\ w \in Seq(Int) /\ Len(w) = Len(taken) + Len(latch')
          /\ \A i \in 1..Len(taken) + Len(latch') :
               w[i] = IF i <= Len(taken) THEN taken[i] ELSE latch'[i - Len(taken)]
      BY <3>1, Ints, ConcatProperties
    <3>3. /\ DOMAIN w = 1..Len(w) /\ DOMAIN taken = 1..Len(taken)
          /\ Len(taken) \in Nat /\ Len(latch') \in Nat
      BY <3>1, <3>2, Ints, LenProperties
    <3> HIDE DEF w
    <3>4. \A i \in DOMAIN taken : i \in DOMAIN w /\ w[i] = taken[i]
      BY <3>2, <3>3
    <3>5. Present(taken, latch, buffer) \subseteq Present(taken, latch', buffer')
      BY <2>3, ConstKeeps
    <3>6. Present(taken, latch', buffer') \subseteq Present(w, latch', buffer')
      BY <3>4 DEF Present
    <3> QED
      BY <2>3, <3>5, <3>6 DEF Kept, w
  <2> QED
    BY <2>1, <2>2, <2>3, TakeKeeps
<1>4. CASE ConIn
  BY <1>4, TakeKeeps DEF ConIn
<1>5. CASE EscGet \/ EscSet
  BY <1>5 DEF EscGet, EscSet
<1>6. CASE \/ HoldStop \/ LetEscGo \/ PressCaps \/ Enter \/ FuncB \/ SpinEnds
           \/ StoreCaps \/ OutLamp \/ Run \/ EscSeen \/ EscPut \/ Polled \/ UNCHANGED vars
  <2>1. UNCHANGED << taken, latch, buffer >>
    BY <1>6 DEF HoldStop, LetEscGo, PressCaps, Enter, FuncB, SpinEnds, StoreCaps, OutLamp, Run,
                EscSeen, EscPut, Polled, vars
  <2> QED
    BY <2>1 DEF Kept
<1> QED
  BY <1>1, <1>2, <1>3, <1>4, <1>5, <1>6 DEF Next, User, Program, Thread

\* KeysLostOnlyByUser: a key leaves the keyboard buffer and the look-ahead only
\* towards a program, but for STOP at a status call and ESC in a disk call.
THEOREM NoKeyLost == Spec => KeysLostOnlyByUser
<1>1. TypeOK /\ [Next]_vars =>
        [ \/ Present(taken, latch, buffer) \ {Stop} \subseteq Present(taken', latch', buffer')
          \/ phase = "idle" /\ stopDown
          \/ phase \in {"escGet", "escSet"} ]_vars
  BY KeptStep DEF Kept
<1>2. Spec => []TypeOK
  BY WorkstationTypes
<1> QED
  BY <1>1, <1>2, PTL DEF Spec, KeysLostOnlyByUser

-----------------------------------------------------------------------------
(* Reads end.  Fairness is stated with the guards of the thread's actions, *)
(* so that no ENABLED is in the formula.                                   *)

\* The thread has an instruction to execute: what ENABLED <<Thread>>_vars says.
CanRun ==
  \/ phase = "spin" /\ buffer # << >>
  \/ phase = "conin" /\ latch \o buffer # << >>
  \/ phase \in Copying \union {"run", "escPut", "escSet"}
  \/ phase = "listen" /\ escDown
  \/ phase = "escGet" /\ buffer # << >>

\* WF_vars(Thread): again and again the thread runs, or has nothing to do.
ThreadRuns == []<>~CanRun \/ []<><<Thread>>_vars

Spinning == phase = "spin" /\ buffer # << >>
Reading == phase = "conin" /\ buffer # << >>
Emptying == phase = "escGet" /\ buffer # << >>

LEMMA ReadingCanRun ==
  TypeOK /\ (Spinning \/ Reading \/ Emptying \/ phase \in {"escPut", "escSet"}) => CanRun
<1> SUFFICES ASSUME TypeOK, Reading PROVE CanRun
  BY DEF CanRun, Spinning, Emptying
<1>1. latch \in Seq(Int) /\ buffer \in Seq(Int) /\ buffer # << >>
  BY Ints DEF Reading
<1>2. Len(latch \o buffer) = Len(latch) + Len(buffer) /\ Len(latch) \in Nat /\ Len(buffer) \in Nat \ {0}
  BY <1>1, ConcatProperties, EmptySeq, LenProperties
<1>3. latch \o buffer # << >>
  BY <1>2
<1> QED
  BY <1>3 DEF CanRun, Reading

\* Whatever the user does, a read stays where it is and keeps its key.
LEMMA ReadingStays ==
  TypeOK /\ [Next]_vars =>
    /\ Spinning => Spinning' \/ Reading'
    /\ Reading => Reading' \/ phase' = "idle"
    /\ Emptying => Emptying' \/ phase' = "escPut"
    /\ phase = "escPut" => phase' \in {"escPut", "escSet"}
    /\ phase = "escSet" => phase' \in {"escSet", "idle"}
<1> DEFINE Stays ==
      /\ Spinning => Spinning' \/ Reading'
      /\ Reading => Reading' \/ phase' = "idle"
      /\ Emptying => Emptying' \/ phase' = "escPut"
      /\ phase = "escPut" => phase' \in {"escPut", "escSet"}
      /\ phase = "escSet" => phase' \in {"escSet", "idle"}
<1> SUFFICES ASSUME TypeOK, [Next]_vars PROVE Stays
  OBVIOUS
<1> USE DEF Spinning, Reading, Emptying
<1>1. CASE TypeKey
  <2>1. phase' = phase
    BY <1>1 DEF TypeKey, thread
  <2>2. buffer # << >> => buffer' # << >>
    <3> SUFFICES ASSUME buffer # << >> PROVE buffer' # << >>
      OBVIOUS
    <3>1. typed' \in Int
      BY <1>1 DEF TypeKey, TypeOK
    <3>2. Len(Append(buffer, typed')) = Len(buffer) + 1 /\ Len(buffer) \in Nat
      BY <3>1, Ints, AppendIs
    <3>3. Append(buffer, typed') # << >>
      <4>1. Len(Append(buffer, typed')) # 0
        BY <3>2
      <4> QED
        BY <4>1, EmptySeq
    <3> QED
      BY <1>1, <3>3 DEF TypeKey
  <2> QED
    BY <2>1, <2>2
<1>2. CASE HoldStop \/ LetEscGo \/ PressCaps
  BY <1>2 DEF HoldStop, LetEscGo, PressCaps, thread, keyVars
<1>3. CASE Program
  BY <1>3 DEF Program, Enter, ConstStatus, FuncB, Func6
<1>4. CASE Thread
  BY <1>4 DEF Thread, SpinEnds, ConIn, StoreCaps, OutLamp, Run, EscSeen, EscGet, EscPut,
     EscSet, Copying, keyVars
<1>5. CASE Polled
  BY <1>5 DEF Polled
<1>6. CASE UNCHANGED vars
  BY <1>6 DEF vars
<1> QED
  BY <1>1, <1>2, <1>3, <1>4, <1>5, <1>6 DEF Next, User

\* An instruction of the thread brings a read, or the way out by ESC, on.
LEMMA ReadingGoesOn ==
  TypeOK /\ <<Thread>>_vars =>
    /\ Spinning => Reading'
    /\ Reading => phase' = "idle"
    /\ Emptying => phase' = "escPut"
    /\ phase = "escPut" => phase' = "escSet"
    /\ phase = "escSet" => phase' = "idle"
<1> SUFFICES ASSUME TypeOK, Thread
             PROVE  /\ Spinning => Reading'
                    /\ Reading => phase' = "idle"
                    /\ Emptying => phase' = "escPut"
                    /\ phase = "escPut" => phase' = "escSet"
                    /\ phase = "escSet" => phase' = "idle"
  OBVIOUS
<1> QED
  BY DEF Spinning, Reading, Emptying, Thread, SpinEnds, ConIn, StoreCaps, OutLamp, Run,
     EscSeen, EscGet, EscPut, EscSet, Copying, keyVars

\* A read with a key in the buffer returns, and so does the clearing of the buffer
\* after ESC: no wait of the console is longer than the thread's own pace.
THEOREM ReadsEnd == Spec /\ ThreadRuns => ReadReturns
<1> DEFINE Putting == phase = "escPut"
           Setting == phase = "escSet"
           Idle == phase = "idle"
<1>1. /\ TypeOK /\ Spinning => CanRun
      /\ TypeOK /\ [Next]_vars /\ Spinning => Spinning' \/ Reading'
      /\ TypeOK /\ <<Thread>>_vars /\ Spinning => Reading'
  BY ReadingCanRun, ReadingStays, ReadingGoesOn
<1>2. /\ TypeOK /\ Reading => CanRun
      /\ TypeOK /\ [Next]_vars /\ Reading => Reading' \/ Idle'
      /\ TypeOK /\ <<Thread>>_vars /\ Reading => Idle'
  BY ReadingCanRun, ReadingStays, ReadingGoesOn
<1>3. /\ TypeOK /\ Emptying => CanRun
      /\ TypeOK /\ [Next]_vars /\ Emptying => Emptying' \/ Putting'
      /\ TypeOK /\ <<Thread>>_vars /\ Emptying => Putting'
  BY ReadingCanRun, ReadingStays, ReadingGoesOn
<1>4. /\ TypeOK /\ Putting => CanRun
      /\ TypeOK /\ [Next]_vars /\ Putting => Putting' \/ Setting'
      /\ TypeOK /\ <<Thread>>_vars /\ Putting => Setting'
  BY ReadingCanRun, ReadingStays, ReadingGoesOn
<1>5. /\ TypeOK /\ Setting => CanRun
      /\ TypeOK /\ [Next]_vars /\ Setting => Setting' \/ Idle'
      /\ TypeOK /\ <<Thread>>_vars /\ Setting => Idle'
  BY ReadingCanRun, ReadingStays, ReadingGoesOn
<1>6. (phase \in {"spin", "conin", "escGet"} /\ buffer # << >>)
        <=> (Spinning \/ Reading \/ Emptying)
  BY DEF Spinning, Reading, Emptying
<1> HIDE DEF Putting, Setting, Idle
<1>7. Spec /\ ThreadRuns => (Spinning ~> Reading)
  BY <1>1, WorkstationTypes, PTL DEF Spec, ThreadRuns
<1>8. Spec /\ ThreadRuns => (Reading ~> Idle)
  BY <1>2, WorkstationTypes, PTL DEF Spec, ThreadRuns
<1>9. Spec /\ ThreadRuns => (Emptying ~> Putting)
  BY <1>3, WorkstationTypes, PTL DEF Spec, ThreadRuns
<1>10. Spec /\ ThreadRuns => (Putting ~> Setting)
  BY <1>4, WorkstationTypes, PTL DEF Spec, ThreadRuns
<1>11. Spec /\ ThreadRuns => (Setting ~> Idle)
  BY <1>5, WorkstationTypes, PTL DEF Spec, ThreadRuns
<1> QED
  BY <1>6, <1>7, <1>8, <1>9, <1>10, <1>11, PTL DEF ReadReturns, Idle
=============================================================================
