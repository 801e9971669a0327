-------------------------- MODULE LineEditorProofs --------------------------
(***************************************************************************)
(* Proofs about LineEditor, for buffers of any length, any old lines and   *)
(* any keys.                                                               *)
(***************************************************************************)
EXTENDS LineEditor, WellFoundedInduction, SequenceTheorems, TLAPS

-----------------------------------------------------------------------------
(* Induction, over sets of numbers: the library's theorems take operators. *)

LEMMA LeastOfSet ==
  ASSUME NEW T, T \subseteq Nat, T # {}
  PROVE  \E x \in T : \A y \in T : x <= y
<1> DEFINE R == OpToRel(<, Nat)
<1>1. IsWellFoundedOn(R, Nat)
  BY NatLessThanWellFounded
<1>2. \A x, y \in Nat : y < x => << y, x >> \in R
  BY DEF OpToRel
<1> HIDE DEF R
<1>3. PICK x \in T : \A y \in T : << y, x >> \notin R
  BY <1>1, WFMin
<1>4. \A y \in T : ~(y < x)
  BY <1>2, <1>3
<1>5. \A y \in T : x <= y
  <2> TAKE y \in T
  <2>1. x \in Nat /\ y \in Nat /\ ~(y < x)
    BY <1>4
  <2> QED
    BY <2>1
<1> QED
  BY <1>5

LEMMA SetInduction ==
  ASSUME NEW T, 0 \in T, \A n \in Nat : n \in T => n + 1 \in T
  PROVE  Nat \subseteq T
<1> SUFFICES ASSUME Nat \ T # {} PROVE FALSE
  OBVIOUS
<1>1. PICK x \in Nat \ T : \A y \in Nat \ T : x <= y
  BY LeastOfSet
<1>2. x # 0
  OBVIOUS
<1>3. x - 1 \in Nat /\ x = (x - 1) + 1
  BY <1>2
<1>4. x - 1 \in T
  BY <1>1, <1>3
<1> QED
  BY <1>3, <1>4

-----------------------------------------------------------------------------
(* The column behind a line.                                               *)

LEMMA BehindType ==
  ASSUME NEW x \in Chars, NEW c \in Nat
  PROVE  Behind(x, c) \in Nat
<1>1. (c \div Tab + 1) * Tab \in Nat
  <2>1. c \div Tab \in Nat /\ Tab \in Nat
    BY EditorAssumption
  <2>2. \A k, t \in Nat : (k + 1) * t \in Nat
    OBVIOUS
  <2> QED
    BY <2>1, <2>2
<1> QED
  BY <1>1 DEF Behind, Chars

\* f gives the columns behind the first 0, 1, .. n bytes of s.
Columns(f, s, n, c) ==
  f = [i \in 0..n |-> IF i = 0 THEN c ELSE Behind(s[i], f[i - 1])]

LEMMA ColumnsExist ==
  ASSUME NEW s, NEW c
  PROVE  \A n \in Nat : \E f : Columns(f, s, n, c)
<1> DEFINE T == { n \in Nat : \E f : Columns(f, s, n, c) }
<1>1. 0 \in T
  <2> DEFINE f == [i \in 0..0 |-> c]
  <2>1. f = [i \in 0..0 |-> IF i = 0 THEN c ELSE Behind(s[i], f[i - 1])]
    OBVIOUS
  <2> HIDE DEF f
  <2> QED
    BY <2>1 DEF Columns
<1>2. ASSUME NEW n \in Nat, n \in T PROVE n + 1 \in T
  <2>1. PICK f : Columns(f, s, n, c)
    BY <1>2
  <2> DEFINE g == [i \in 0..(n + 1) |-> IF i <= n THEN f[i] ELSE Behind(s[n + 1], f[n])]
  <2>2. \A i \in 0..n : f[i] = IF i = 0 THEN c ELSE Behind(s[i], f[i - 1])
    BY <2>1 DEF Columns
  <2>3. \A i \in 0..n : g[i] = f[i]
    OBVIOUS
  <2>4. g[n + 1] = Behind(s[n + 1], f[n])
    OBVIOUS
  <2>5. DOMAIN g = 0..(n + 1) /\ g = [i \in 0..(n + 1) |-> g[i]]
    OBVIOUS
  <2> HIDE DEF g
  <2>6. ASSUME NEW i \in 0..(n + 1)
        PROVE  g[i] = IF i = 0 THEN c ELSE Behind(s[i], g[i - 1])
    <3>1. CASE i = n + 1
      <4>1. i # 0 /\ i - 1 = n /\ g[i - 1] = f[n]
        BY <2>3, <3>1
      <4> QED
        BY <2>4, <3>1, <4>1
    <3>2. CASE i = 0
      <4>1. g[0] = f[0] /\ f[0] = c
        BY <2>2, <2>3
      <4> QED
        BY <3>2, <4>1
    <3>3. CASE i # 0 /\ i # n + 1
      <4>1. i \in 0..n /\ i - 1 \in 0..n
        BY <3>3
      <4>2. g[i] = f[i] /\ g[i - 1] = f[i - 1]
        BY <2>3, <4>1
      <4>3. f[i] = Behind(s[i], f[i - 1])
        BY <2>2, <3>3, <4>1
      <4> QED
        BY <3>3, <4>2, <4>3
    <3> QED
      BY <3>1, <3>2, <3>3
  <2>7. g = [i \in 0..(n + 1) |-> IF i = 0 THEN c ELSE Behind(s[i], g[i - 1])]
    BY <2>5, <2>6
  <2> QED
    BY <2>7 DEF Columns
<1>3. Nat \subseteq T
  <2> HIDE DEF T
  <2> QED
    BY <1>1, <1>2, SetInduction
<1> QED
  BY <1>3

\* The columns of a line and of a longer one that begins with it are the same.
LEMMA ColumnsUnique ==
  ASSUME NEW s, NEW t, NEW c, NEW f, NEW g, NEW m \in Nat, NEW n \in Nat,
         Columns(f, s, m, c), Columns(g, t, n, c),
         \A i \in 1..m : i <= n => s[i] = t[i]
  PROVE  \A k \in Nat : k <= m /\ k <= n => f[k] = g[k]
<1> DEFINE T == { k \in Nat : k <= m /\ k <= n => f[k] = g[k] }
<1>1. \A i \in 0..m : f[i] = IF i = 0 THEN c ELSE Behind(s[i], f[i - 1])
  BY DEF Columns
<1>2. \A i \in 0..n : g[i] = IF i = 0 THEN c ELSE Behind(t[i], g[i - 1])
  BY DEF Columns
<1>3. 0 \in T
  BY <1>1, <1>2
<1>4. ASSUME NEW k \in Nat, k \in T, k + 1 <= m, k + 1 <= n PROVE f[k + 1] = g[k + 1]
  <2>1. f[k] = g[k] /\ s[k + 1] = t[k + 1]
    BY <1>4
  <2>2. k + 1 \in 0..m /\ k + 1 \in 0..n /\ k + 1 # 0 /\ (k + 1) - 1 = k
    BY <1>4
  <2>3. f[k + 1] = Behind(s[k + 1], f[k]) /\ g[k + 1] = Behind(t[k + 1], g[k])
    BY <1>1, <1>2, <2>2
  <2> QED
    BY <2>1, <2>3
<1>5. Nat \subseteq T
  <2>1. \A k \in Nat : k \in T => k + 1 \in T
    BY <1>4
  <2> HIDE DEF T
  <2> QED
    BY <1>3, <2>1, SetInduction
<1> QED
  BY <1>5

LEMMA ColumnsOf ==
  ASSUME NEW s, NEW n \in Nat, NEW c
  PROVE  \E f : Columns(f, s, n, c) /\ ColumnAfter(s, n, c) = f[n]
<1> DEFINE f == CHOOSE f : Columns(f, s, n, c)
<1>1. Columns(f, s, n, c)
  BY ColumnsExist
<1>2. ColumnAfter(s, n, c) = f[n]
  BY DEF ColumnAfter, Columns
<1> QED
  BY <1>1, <1>2

\* The columns of a line, byte by byte.
LEMMA ColumnStep ==
  ASSUME NEW s, NEW n \in Nat, NEW c
  PROVE  /\ ColumnAfter(s, 0, c) = c
         /\ ColumnAfter(s, n + 1, c) = Behind(s[n + 1], ColumnAfter(s, n, c))
<1>1. ColumnAfter(s, 0, c) = c
  <2>1. PICK f : Columns(f, s, 0, c) /\ ColumnAfter(s, 0, c) = f[0]
    BY ColumnsOf
  <2> QED
    BY <2>1 DEF Columns
<1>2. PICK f : Columns(f, s, n, c) /\ ColumnAfter(s, n, c) = f[n]
  BY ColumnsOf
<1>3. PICK g : Columns(g, s, n + 1, c) /\ ColumnAfter(s, n + 1, c) = g[n + 1]
  BY ColumnsOf
<1>4. f[n] = g[n]
  BY <1>2, <1>3, ColumnsUnique
<1>5. g[n + 1] = Behind(s[n + 1], g[n])
  BY <1>3 DEF Columns
<1> QED
  BY <1>1, <1>2, <1>3, <1>4, <1>5

LEMMA ColumnPrefix ==
  ASSUME NEW s, NEW t, NEW n \in Nat, NEW c, \A i \in 1..n : s[i] = t[i]
  PROVE  ColumnAfter(s, n, c) = ColumnAfter(t, n, c)
<1>1. PICK f : Columns(f, s, n, c) /\ ColumnAfter(s, n, c) = f[n]
  BY ColumnsOf
<1>2. PICK g : Columns(g, t, n, c) /\ ColumnAfter(t, n, c) = g[n]
  BY ColumnsOf
<1> QED
  BY <1>1, <1>2, ColumnsUnique

LEMMA ColumnType ==
  ASSUME NEW s \in Seq(Chars), NEW c \in Nat, NEW n \in Nat, n <= Len(s)
  PROVE  ColumnAfter(s, n, c) \in Nat
<1> DEFINE T == { k \in Nat : k <= Len(s) => ColumnAfter(s, k, c) \in Nat }
<1>1. 0 \in T
  BY ColumnStep
<1>2. ASSUME NEW k \in Nat, k \in T, k + 1 <= Len(s) PROVE ColumnAfter(s, k + 1, c) \in Nat
  <2>1. Len(s) \in Nat
    OBVIOUS
  <2>2. k <= Len(s) /\ k + 1 \in 1..Len(s)
    BY <1>2, <2>1
  <2>3. s[k + 1] \in Chars /\ ColumnAfter(s, k, c) \in Nat
    BY <1>2, <2>2, ElementOfSeq
  <2>4. ColumnAfter(s, k + 1, c) = Behind(s[k + 1], ColumnAfter(s, k, c))
    BY ColumnStep
  <2>5. Behind(s[k + 1], ColumnAfter(s, k, c)) \in Nat
    BY <2>3, BehindType
  <2> QED
    BY <2>4, <2>5
<1>3. Nat \subseteq T
  <2>1. \A k \in Nat : k \in T => k + 1 \in T
    BY <1>2
  <2> HIDE DEF T
  <2> QED
    BY <1>1, <2>1, SetInduction
<1> QED
  BY <1>3

-----------------------------------------------------------------------------
(* Arithmetic of bytes.                                                    *)

LEMMA Divide ==
  ASSUME NEW x \in Int, NEW r \in Nat \ {0}
  PROVE  x \div r \in Int /\ x % r \in 0..(r - 1) /\ x = (x \div r) * r + (x % r)
OBVIOUS

LEMMA OneQuotient ==
  ASSUME NEW r \in Nat \ {0}, NEW q \in Int, NEW k \in Int,
         NEW a \in 0..(r - 1), NEW b \in 0..(r - 1), q * r + a = k * r + b
  PROVE  q = k /\ a = b
<1>1. \A d \in Nat : (d + 1) * r = d * r + r /\ d * r >= 0
  OBVIOUS
<1>2. ~(q < k)
  <2> SUFFICES ASSUME q < k PROVE FALSE
    OBVIOUS
  <2> DEFINE d == k - q - 1
  <2>1. d \in Nat /\ k = q + (d + 1)
    OBVIOUS
  <2>2. k * r = q * r + (d + 1) * r
    BY <2>1
  <2> HIDE DEF d
  <2>3. q * r \in Int /\ d * r \in Int
    BY <2>1
  <2> QED
    BY <1>1, <2>1, <2>2, <2>3
<1>3. ~(k < q)
  <2> SUFFICES ASSUME k < q PROVE FALSE
    OBVIOUS
  <2> DEFINE d == q - k - 1
  <2>1. d \in Nat /\ q = k + (d + 1)
    OBVIOUS
  <2>2. q * r = k * r + (d + 1) * r
    BY <2>1
  <2> HIDE DEF d
  <2>3. k * r \in Int /\ d * r \in Int
    BY <2>1
  <2> QED
    BY <1>1, <2>1, <2>2, <2>3
<1>4. q = k
  BY <1>2, <1>3
<1> QED
  BY <1>4

\* Whole turns do not change a remainder.
LEMMA Turns ==
  ASSUME NEW r \in Nat \ {0}, NEW x \in Int, NEW q \in Int
  PROVE  (x + q * r) % r = x % r /\ (x + q * r) \div r = x \div r + q
<1> DEFINE y == x + q * r
<1>1. y \in Int
  OBVIOUS
<1>2. y = (y \div r) * r + (y % r) /\ y \div r \in Int /\ y % r \in 0..(r - 1)
  BY <1>1, Divide
<1>3. x = (x \div r) * r + (x % r) /\ x \div r \in Int /\ x % r \in 0..(r - 1)
  BY Divide
<1>4. y = (x \div r + q) * r + (x % r)
  <2>1. (x \div r + q) * r = (x \div r) * r + q * r
    BY <1>3
  <2>2. (x \div r) * r \in Int /\ q * r \in Int
    BY <1>3
  <2> QED
    BY <1>3, <2>1, <2>2
<1>5. x \div r + q \in Int
  BY <1>3
<1> HIDE DEF y
<1>6. (y \div r) * r + (y % r) = (x \div r + q) * r + (x % r)
  BY <1>2, <1>4
<1>7. y \div r = x \div r + q /\ y % r = x % r
  <2> DEFINE k == y \div r
             l == x \div r + q
             a == y % r
             b == x % r
  <2>1. k \in Int /\ l \in Int /\ a \in 0..(r - 1) /\ b \in 0..(r - 1) /\ k * r + a = l * r + b
    BY <1>2, <1>3, <1>5, <1>6
  <2> HIDE DEF k, l, a, b
  <2>2. k = l /\ a = b
    BY <2>1, OneQuotient
  <2> QED
    BY <2>2 DEF k, l, a, b
<1> QED
  BY <1>7 DEF y

\* Adding to a number and to its byte is the same.
LEMMA ByteAdds ==
  ASSUME NEW x \in Int, NEW k \in Int
  PROVE  ((x % Byte) + k) % Byte = (x + k) % Byte
<1>1. Byte \in Nat \ {0}
  BY EditorAssumption
<1>2. x = (x \div Byte) * Byte + (x % Byte) /\ x \div Byte \in Int /\ x % Byte \in Int
  BY <1>1, Divide
<1> DEFINE q == x \div Byte
           y == (x % Byte) + k
<1>3. q \in Int /\ y \in Int
  BY <1>2
<1>4. x + k = y + q * Byte
  <2>1. q * Byte \in Int
    BY <1>1, <1>3
  <2> QED
    BY <1>2, <2>1
<1> HIDE DEF q, y
<1>5. (y + q * Byte) % Byte = y % Byte
  BY <1>1, <1>3, Turns
<1> QED
  BY <1>4, <1>5 DEF y

\* The tab stop behind a column and behind its byte.
LEMMA ByteTabs ==
  ASSUME NEW x \in Nat
  PROVE  (((x % Byte) \div Tab + 1) * Tab) % Byte = ((x \div Tab + 1) * Tab) % Byte
<1>1. Byte \in Nat \ {0} /\ Tab \in Nat \ {0}
  BY EditorAssumption
<1> DEFINE m == Byte \div Tab
           q == x \div Byte
           y == x % Byte
<1>2. m \in Int /\ Byte = m * Tab
  BY <1>1, Divide, EditorAssumption
<1>3. x = q * Byte + y /\ q \in Int /\ y \in Int
  BY <1>1, Divide
<1> HIDE DEF m, q, y
<1>4. q * m \in Int /\ x = y + (q * m) * Tab
  <2>1. q * m \in Int
    BY <1>2, <1>3
  <2>2. q * (m * Tab) = (q * m) * Tab
    BY <1>1, <1>2, <1>3
  <2>3. q * Byte = (q * m) * Tab
    BY <1>2, <2>2
  <2>4. q * Byte \in Int
    BY <1>1, <1>3
  <2> QED
    BY <1>3, <2>1, <2>3, <2>4
<1>5. x \div Tab = y \div Tab + q * m
  BY <1>1, <1>3, <1>4, Turns
<1> DEFINE z == (y \div Tab + 1) * Tab
<1>6. y \div Tab \in Int
  BY <1>1, <1>3, Divide
<1>7. z \in Int
  BY <1>1, <1>6
<1>8. (x \div Tab + 1) * Tab = z + q * Byte
  <2>1. \A d, e, t \in Int : (d + e + 1) * t = (d + 1) * t + e * t
    OBVIOUS
  <2>2. (x \div Tab + 1) * Tab = z + (q * m) * Tab
    BY <1>1, <1>4, <1>5, <1>6, <2>1
  <2>3. (q * m) * Tab = q * Byte
    BY <1>1, <1>2, <1>3
  <2> QED
    BY <2>2, <2>3
<1> HIDE DEF z
<1>9. (z + q * Byte) % Byte = z % Byte
  BY <1>1, <1>3, <1>7, Turns
<1> QED
  BY <1>8, <1>9 DEF z, y

\* The cursor follows a character from the byte of its column as from the column.
LEMMA EchoRight ==
  ASSUME NEW x \in Chars, NEW c \in Nat
  PROVE  Behind(x, c % Byte) % Byte = Behind(x, c) % Byte
<1>1. CASE x = "01"
  <2>1. ((c % Byte) + 0) % Byte = (c + 0) % Byte
    BY ByteAdds
  <2>2. c % Byte \in Int
    BY EditorAssumption, Divide
  <2> QED
    BY <1>1, <2>1, <2>2 DEF Behind
<1>2. CASE x = "A"
  BY <1>2, ByteAdds DEF Behind
<1>3. CASE x = "ctrl"
  BY <1>3, ByteAdds DEF Behind
<1>4. CASE x = "tab"
  BY <1>4, ByteTabs DEF Behind
<1> QED
  BY <1>1, <1>2, <1>3, <1>4 DEF Chars

-----------------------------------------------------------------------------
(* Types.                                                                  *)

\* What a step needs besides the types: bytes are left to recall, and the
\* pointer is not before the place, or going back would pass the beginning.
Types ==
  /\ TypeOK
  /\ phase = "recall" => todo >= 1
  /\ ptr >= (IF off < E THEN off ELSE E)

LEMMA ByteType ==
  ASSUME NEW x \in Int
  PROVE  x % Byte \in 0..(Byte - 1)
<1>1. Byte \in Nat \ {0}
  BY EditorAssumption
<1> QED
  BY <1>1, Divide

LEMMA ByteBelow ==
  ASSUME NEW x \in Nat
  PROVE  x % Byte \in 0..(Byte - 1) /\ x % Byte <= x
<1>1. Byte \in Nat \ {0}
  BY EditorAssumption
<1>2. x = (x \div Byte) * Byte + (x % Byte) /\ x \div Byte \in Int
      /\ x % Byte \in 0..(Byte - 1)
  BY <1>1, Divide
<1>3. x \div Byte >= 0
  BY <1>1
<1>4. \A q, r \in Nat : q * r \in Nat
  OBVIOUS
<1>5. (x \div Byte) * Byte \in Nat
  BY <1>1, <1>2, <1>3, <1>4
<1> DEFINE q == (x \div Byte) * Byte
           r == x % Byte
<1>6. q \in Nat /\ r \in 0..(Byte - 1) /\ x = q + r
  BY <1>2, <1>5
<1> HIDE DEF q, r
<1>7. r \in 0..(Byte - 1) /\ r <= x
  BY <1>1, <1>6
<1> QED
  BY <1>7 DEF r

LEMMA Lengths ==
  ASSUME Types
  PROVE  /\ E \in Nat /\ Len(line) \in Nat /\ E <= Byte - 2 /\ room \in 0..(Byte - 1)
         /\ Byte \in Nat /\ Byte > 2
         /\ B \in 0..(Byte - 1) /\ B <= Len(line)
<1>1. E \in Nat /\ Len(line) \in Nat
  BY DEF Types, TypeOK, E
<1>2. room \in 0..(Byte - 1) /\ Byte \in Nat /\ Byte > 2
  BY EditorAssumption DEF Types, TypeOK
<1>3. E <= Byte - 2
  BY <1>1, <1>2 DEF Types, TypeOK
<1>4. B \in 0..(Byte - 1) /\ B <= Len(line)
  BY <1>1, ByteBelow DEF B
<1> QED
  BY <1>1, <1>2, <1>3, <1>4

LEMMA AtType ==
  ASSUME Types, NEW p \in Int, NEW x \in At(p)
  PROVE  x \in Chars
<1>1. tmpl \in Seq(Chars)
  BY DEF Types, TypeOK
<1>2. CASE p \in 0..(E - 1)
  <2>1. x = tmpl[p + 1] /\ p + 1 \in 1..Len(tmpl)
    BY <1>1, <1>2 DEF At, E
  <2> QED
    BY <1>1, <2>1, ElementOfSeq
<1>3. CASE p \notin 0..(E - 1)
  BY <1>3 DEF At
<1> QED
  BY <1>2, <1>3

LEMMA EchoType ==
  ASSUME Types, NEW x \in Chars
  PROVE  Behind(x, col) % Byte \in 0..(Byte - 1)
<1>1. Behind(x, col) \in Nat
  BY BehindType DEF Types, TypeOK
<1> QED
  BY <1>1, ByteType

\* What an action may store in the line.
LEMMA LineType ==
  ASSUME Types
  PROVE  /\ \A x \in Chars : << x >> \in Seq(Chars) /\ Len(<< x >>) = 1
         /\ << "01", "A" >> \in Seq(Chars) /\ Len(<< "01", "A" >>) = 2
         /\ \A s \in Seq(Chars) : /\ line \o s \in Seq(Chars)
                                  /\ Len(line \o s) = Len(line) + Len(s)
         /\ \A n \in 0..Len(line) : /\ SubSeq(line, 1, n) \in Seq(Chars)
                                    /\ Len(SubSeq(line, 1, n)) = n
<1>1. line \in Seq(Chars)
  BY DEF Types, TypeOK
<1>2. ASSUME NEW n \in 0..Len(line)
      PROVE  SubSeq(line, 1, n) \in Seq(Chars) /\ Len(SubSeq(line, 1, n)) = n
  <2>1. 1 \in Int /\ n \in Int /\ (n >= 1 => 1 \in 1..Len(line) /\ n \in 1..Len(line))
    BY <1>1
  <2>2. CASE n = 0
    BY <1>1, <2>2
  <2>3. CASE n >= 1
    BY <1>1, <2>1, <2>3, SubSeqProperties
  <2> QED
    BY <2>1, <2>2, <2>3
<1>3. \A x \in Chars : << x >> \in Seq(Chars) /\ Len(<< x >>) = 1
  OBVIOUS
<1>4. << "01", "A" >> \in Seq(Chars) /\ Len(<< "01", "A" >>) = 2
  BY DEF Chars
<1>5. \A s \in Seq(Chars) : line \o s \in Seq(Chars) /\ Len(line \o s) = Len(line) + Len(s)
  BY <1>1, ConcatProperties
<1> QED
  BY <1>2, <1>3, <1>4, <1>5

LEMMA AdvanceTypes ==
  ASSUME Types, Advance
  PROVE  /\ off' \in 0..(Byte - 1) /\ ptr' \in Nat /\ astray' \in BOOLEAN
         /\ ptr' >= (IF off' < E THEN off' ELSE E)
<1>1. E \in Nat /\ E <= Byte - 2 /\ Byte \in Nat /\ Byte > 2
  BY Lengths
<1>2. off \in 0..(Byte - 1) /\ ptr \in Nat /\ astray \in BOOLEAN
      /\ ptr >= (IF off < E THEN off ELSE E)
  BY DEF Types, TypeOK
<1> DEFINE d == (off + 1) % Byte
<1>3. d \in 0..(Byte - 1) /\ (d = off + 1 \/ d = 0)
  <2>1. CASE off = Byte - 1
    <3>1. Byte % Byte = 0
      BY <1>1
    <3>2. off + 1 = Byte
      BY <1>1, <2>1
    <3> QED
      BY <1>1, <3>1, <3>2
  <2>2. CASE off # Byte - 1
    <3>1. off + 1 \in 0..(Byte - 1)
      BY <1>1, <1>2, <2>2
    <3>2. (off + 1) % Byte = off + 1
      BY <1>1, <3>1
    <3> QED
      BY <3>1, <3>2
  <2> QED
    BY <2>1, <2>2
<1>4. /\ astray' = (astray \/ d = 0)
      /\ IF d > E THEN off' = d /\ ptr' = ptr
         ELSE \/ off' = d + 1 /\ ptr' = ptr + 2
              \/ off' = d /\ ptr' = ptr + 1
  BY DEF Advance
<1> HIDE DEF d
<1>5. CASE d > E
  BY <1>1, <1>2, <1>3, <1>4, <1>5
<1>6. CASE ~(d > E)
  BY <1>1, <1>2, <1>3, <1>4, <1>6
<1> QED
  BY <1>5, <1>6

LEMMA RetreatTypes ==
  ASSUME Types, Retreat
  PROVE  /\ off' \in 0..(Byte - 1) /\ ptr' \in Nat
         /\ ptr' >= (IF off' < E THEN off' ELSE E)
<1>1. E \in Nat /\ E <= Byte - 2 /\ Byte \in Nat /\ Byte > 2
  BY Lengths
<1>2. off \in 0..(Byte - 1) /\ ptr \in Nat
      /\ ptr >= (IF off < E THEN off ELSE E)
  BY DEF Types, TypeOK
<1>3. \/ off' = off /\ ptr' = ptr
      \/ off >= 1 /\ off - 1 >= E /\ off' = off - 1 /\ ptr' = ptr
      \/ off = 1 /\ off - 1 < E /\ off' = 0 /\ ptr' = ptr - 1
      \/ off >= 2 /\ off - 1 < E /\ off' = off - 2 /\ ptr' = ptr - 2
      \/ off >= 2 /\ off - 1 < E /\ off' = off - 1 /\ ptr' = ptr - 1
  BY <1>1, <1>2 DEF Retreat
<1> QED
  BY <1>1, <1>2, <1>3

\* Where a search may end: at its place or before the end of the template.
LEMMA DistancesType ==
  ASSUME Types, NEW x, NEW g, NEW k \in Distances(x, g)
  PROVE  k \in Nat /\ (k # 0 => off + k < E)
<1>1. E \in Nat /\ off \in Nat
  BY Lengths DEF Types, TypeOK
<1> DEFINE last == E - off - 1
           first == IF ptr < E /\ tmpl[ptr + 1] = "01" THEN 2 ELSE 1
           hits == { j \in first..last :
                       IF g THEN tmpl[ptr + j + 1] = "01" ELSE tmpl[ptr + j + 1] = x }
<1>2. last \in Int /\ first \in {1, 2} /\ hits \subseteq first..last
  BY <1>1
<1>3. k \in (IF last < 1 THEN {0}
             ELSE IF ptr # off \/ ~Whole(tmpl) THEN 0..last
             ELSE IF hits = {} THEN {0}
             ELSE { CHOOSE i \in hits : \A j \in hits : i <= j })
  BY DEF Distances
<1>4. hits # {} => (CHOOSE i \in hits : \A j \in hits : i <= j) \in hits
  <2>1. hits \subseteq Nat
    BY <1>2
  <2> HIDE DEF hits
  <2> QED
    BY <2>1, LeastOfSet
<1> DEFINE least == CHOOSE i \in hits : \A j \in hits : i <= j
<1> HIDE DEF hits, least, first
<1>5. k = 0 \/ k \in 1..last
  <2>1. hits # {} => least \in 1..last
    <3>1. hits # {} => least \in hits
      BY <1>4 DEF least
    <3>2. first \in {1, 2} /\ last \in Int
      BY <1>2
    <3>3. hits # {} => least \in first..last
      BY <1>2, <3>1
    <3> HIDE DEF last
    <3> QED
      BY <3>2, <3>3
  <2>2. k \in (IF last < 1 THEN {0}
               ELSE IF ptr # off \/ ~Whole(tmpl) THEN 0..last
               ELSE IF hits = {} THEN {0}
               ELSE { least })
    BY <1>3 DEF least
  <2> HIDE DEF last
  <2> QED
    BY <1>2, <2>1, <2>2
<1> QED
  BY <1>1, <1>5

LEMMA EntryTypes ==
  ASSUME Types, NEW old \in Seq(Chars), NEW c \in 0..(Byte - 1), Entry(old, c),
         UNCHANGED << room, todo >>, secret' \in 0..(Byte - 1),
         full' \in BOOLEAN, astray' \in BOOLEAN
  PROVE  Types'
<1>1. tmpl' \in Seq(Chars) /\ (Len(tmpl') > 0 => Len(tmpl') < room)
  <2>1. CASE Len(old) < room
    BY <2>1 DEF Entry
  <2>2. CASE ~(Len(old) < room)
    BY <2>2 DEF Entry
  <2> QED
    BY <2>1, <2>2
<1>2. line' = << >> /\ off' = 0 /\ ptr' = 0 /\ phase' = "keys" /\ insert' = FALSE
      /\ start' = c /\ col' = c /\ newline' = FALSE
  BY DEF Entry
<1>3. MaxLine \in Nat /\ room \in Rooms /\ todo \in 0..(Byte - 1) /\ Byte \in Nat /\ Byte > 2
  BY EditorAssumption DEF Types, TypeOK
<1>4. TypeOK'
  <2>1. line' \in Seq(Chars) /\ Len(line') <= MaxLine
    BY <1>2, <1>3
  <2>2. room' \in Rooms /\ todo' \in 0..(Byte - 1)
    BY <1>3
  <2>3. off' \in 0..(Byte - 1) /\ ptr' \in Nat
    BY <1>2, <1>3
  <2>4. (E > 0 => E < room)'
    BY <1>1 DEF E
  <2> QED
    BY <1>1, <1>2, <2>1, <2>2, <2>3, <2>4 DEF TypeOK
<1>5. Len(tmpl') \in Nat
  BY <1>1
<1> QED
  BY <1>2, <1>4, <1>5 DEF Types, E

LEMMA StoreTypes ==
  ASSUME Types, NEW s \in Seq(Chars), NEW x \in Chars, Store(s, x),
         UNCHANGED << phase, room, tmpl, insert, start, newline, secret, todo >>,
         full' = FALSE
  PROVE  Types'
<1>1. line' \in Seq(Chars) /\ Len(line') <= MaxLine
  <2>1. line' = line \o s /\ Len(line) + Len(s) <= MaxLine
    BY DEF Store
  <2> QED
    BY <2>1, LineType
<1>2. col' \in 0..(Byte - 1)
  BY EchoType DEF Store, Echo
<1>3. /\ off' \in 0..(Byte - 1) /\ ptr' \in Nat /\ astray' \in BOOLEAN
      /\ ptr' >= (IF off' < E THEN off' ELSE E)
  <2>1. CASE insert
    BY <2>1 DEF Store, Types, TypeOK, place
  <2>2. CASE ~insert
    BY <2>2, AdvanceTypes DEF Store
  <2> QED
    BY <2>1, <2>2
<1> QED
  BY <1>1, <1>2, <1>3 DEF Types, TypeOK, E

LEMMA RefuseTypes ==
  ASSUME Types, Refuse,
         UNCHANGED << phase, room, tmpl, insert, start, newline, secret, todo >>,
         full' = FALSE
  PROVE  Types'
BY DEF Refuse, Types, TypeOK, E, place

LEMMA RemovedType ==
  ASSUME Types
  PROVE  /\ Removed \in Nat /\ Removed <= Len(line)
         /\ RubbedOut \in 0..(Byte - 1)
<1>1. B \in Nat /\ B <= Len(line) /\ Len(line) \in Nat
  BY Lengths
<1>2. Removed \in Nat /\ Removed <= Len(line)
  BY <1>1 DEF Removed
<1>3. RubbedOut \in 0..(Byte - 1)
  <2>1. col \in 0..(Byte - 1) /\ col \in Int /\ start \in Nat /\ line \in Seq(Chars)
    BY DEF Types, TypeOK
  <2>2. col - 1 \in Int /\ col - 2 \in Int
    BY <2>1
  <2>3. (col - 1) % Byte \in 0..(Byte - 1) /\ (col - 2) % Byte \in 0..(Byte - 1)
    BY <2>2, ByteType
  <2>4. Removed # 0 => ColumnAfter(line, B - 1, start) % Byte \in 0..(Byte - 1)
    <3> SUFFICES ASSUME Removed # 0
                 PROVE  ColumnAfter(line, B - 1, start) % Byte \in 0..(Byte - 1)
      OBVIOUS
    <3>1. B - 1 \in Nat /\ B - 1 <= Len(line)
      BY <1>1 DEF Removed
    <3>2. ColumnAfter(line, B - 1, start) \in Nat
      BY <2>1, <3>1, ColumnType
    <3> QED
      BY <3>2, ByteType
  <2> QED
    BY <2>1, <2>3, <2>4 DEF RubbedOut
<1> QED
  BY <1>2, <1>3

LEMMA TypesInit == Init => Types
<1> SUFFICES ASSUME Init PROVE Types
  OBVIOUS
<1>1. tmpl \in Seq(Chars) /\ (E > 0 => E < room)
  <2>1. CASE tmpl \in Templates /\ Len(tmpl) < room
    BY <2>1, EditorAssumption DEF E
  <2>2. CASE tmpl = << >>
    BY <2>2 DEF E
  <2> QED
    BY <2>1, <2>2 DEF Init
<1>2. Byte \in Nat /\ Byte > 2 /\ MaxLine \in Nat /\ start \in 0..(Byte - 1)
  BY EditorAssumption DEF Init
<1>3. line \in Seq(Chars) /\ Len(line) <= MaxLine
  BY <1>2 DEF Init
<1>4. off = 0 /\ ptr = 0 /\ todo = 0 /\ secret = 0
  BY DEF Init
<1>5. off \in 0..(Byte - 1) /\ todo \in 0..(Byte - 1) /\ secret \in 0..(Byte - 1)
  BY <1>2, <1>4
<1>6. E \in Nat
  BY <1>1 DEF E
<1>7. phase = "keys" /\ room \in Rooms /\ insert = FALSE /\ newline = FALSE /\ full = FALSE
      /\ astray = FALSE /\ col = start
  BY DEF Init
<1>8. TypeOK
  BY <1>1, <1>2, <1>3, <1>4, <1>5, <1>7 DEF TypeOK
<1>9. ptr >= (IF off < E THEN off ELSE E)
  BY <1>4, <1>6
<1> QED
  BY <1>7, <1>8, <1>9 DEF Types

LEMMA TypesNext == Types /\ [Next]_vars => Types'
<1> SUFFICES ASSUME Types, [Next]_vars PROVE Types'
  OBVIOUS
<1>0. /\ E \in Nat /\ Len(line) \in Nat /\ E <= Byte - 2 /\ Byte \in Nat /\ Byte > 2
      /\ B \in 0..(Byte - 1) /\ B <= Len(line)
  BY Lengths
<1>1. CASE Type
  <2>1. PICK x \in Chars \ {"01"} : IF Fits(1) THEN Store(<< x >>, x) ELSE Refuse
    BY <1>1 DEF Type
  <2>2. UNCHANGED << phase, room, tmpl, insert, start, newline, secret, todo >> /\ full' = FALSE
    BY <1>1 DEF Type
  <2> QED
    BY <2>1, <2>2, LineType, StoreTypes, RefuseTypes
<1>2. CASE CtrlA
  <2>1. IF Fits(2) THEN Store(<< "01", "A" >>, "A") ELSE Refuse
    BY <1>2 DEF CtrlA
  <2>2. UNCHANGED << phase, room, tmpl, insert, start, newline, secret, todo >> /\ full' = FALSE
    BY <1>2 DEF CtrlA
  <2>3. "A" \in Chars
    BY DEF Chars
  <2> QED
    BY <2>1, <2>2, <2>3, LineType, StoreTypes, RefuseTypes
<1>3. CASE InsertKey
  BY <1>3 DEF InsertKey, Types, TypeOK, E, place, cursor
<1>4. CASE CtrlJ
  <2>1. secret' \in 0..(Byte - 1) /\ col' \in 0..(Byte - 1)
    BY <1>0, <1>4 DEF CtrlJ
  <2> QED
    BY <1>4, <2>1 DEF CtrlJ, Types, TypeOK, E, place
<1>5. CASE BS
  <2>1. line' \in Seq(Chars) /\ Len(line') <= MaxLine
    <3>1. Len(line) - Removed \in 0..Len(line) /\ line' = SubSeq(line, 1, Len(line) - Removed)
      BY <1>0, <1>5, RemovedType DEF BS
    <3>2. Len(line) <= MaxLine /\ MaxLine \in Nat
      BY EditorAssumption DEF Types, TypeOK
    <3> QED
      BY <1>0, <3>1, <3>2, LineType
  <2>2. col' \in 0..(Byte - 1)
    BY <1>5, RemovedType DEF BS
  <2>3. /\ off' \in 0..(Byte - 1) /\ ptr' \in Nat
        /\ ptr' >= (IF off' < E THEN off' ELSE E)
    BY <1>5, RetreatTypes DEF BS
  <2> QED
    BY <1>5, <2>1, <2>2, <2>3 DEF BS, Types, TypeOK, E
<1>6. CASE ClearLine
  <2>1. tmpl \in Seq(Chars) /\ start \in 0..(Byte - 1)
    BY DEF Types, TypeOK
  <2>2. Entry(tmpl, start) /\ UNCHANGED << room, todo >> /\ secret' = secret
        /\ full' \in BOOLEAN /\ astray' = astray
    BY <1>6 DEF ClearLine
  <2> QED
    BY <2>1, <2>2, EntryTypes DEF Types, TypeOK
<1>7. CASE CtrlK
  <2>1. Killed \in Seq(Chars) /\ start \in 0..(Byte - 1)
    BY <1>0, LineType DEF Types, TypeOK, Killed
  <2>2. Entry(Killed, start) /\ UNCHANGED << room, todo >> /\ secret' \in {secret, 0}
        /\ full' \in BOOLEAN /\ astray' = astray
    BY <1>7 DEF CtrlK
  <2>3. secret' \in 0..(Byte - 1) /\ astray' \in BOOLEAN
    BY <1>0, <2>2 DEF Types, TypeOK
  <2> QED
    BY <2>1, <2>2, <2>3, EntryTypes
<1>8. CASE CtrlM
  <2>1. line' \in Seq(Chars) /\ Len(line') <= MaxLine
    <3>1. Len(line) <= MaxLine /\ MaxLine \in Nat
      BY EditorAssumption DEF Types, TypeOK
    <3>2. line' = SubSeq(line, 1, B)
      BY <1>8 DEF CtrlM, Killed
    <3> QED
      BY <1>0, <3>1, <3>2, LineType
  <2>2. col' \in 0..(Byte - 1) /\ phase' = "done"
    BY <1>0, <1>8 DEF CtrlM
  <2> QED
    BY <1>8, <2>1, <2>2 DEF CtrlM, Types, TypeOK, E, place
<1>9. CASE CallAgain
  <2>1. PICK c \in Starts : Entry(line, c)
    BY <1>9 DEF CallAgain
  <2>2. line \in Seq(Chars) /\ c \in 0..(Byte - 1)
    BY EditorAssumption DEF Types, TypeOK
  <2>3. UNCHANGED << room, todo >> /\ secret' = secret /\ full' = full /\ astray' = astray
    BY <1>9 DEF CallAgain
  <2> QED
    BY <2>1, <2>2, <2>3, EntryTypes DEF Types, TypeOK
<1>10. CASE Skip
  <2>1. \/ off' = off /\ ptr' = ptr
        \/ off < E /\ \E n \in {1, 2} : off' = off + n /\ ptr' = ptr + n
    BY <1>10 DEF Skip
  <2>2. off \in 0..(Byte - 1) /\ ptr \in Nat /\ ptr >= (IF off < E THEN off ELSE E)
    BY DEF Types, TypeOK
  <2>3. /\ off' \in 0..(Byte - 1) /\ ptr' \in Nat
        /\ ptr' >= (IF off' < E THEN off' ELSE E)
    BY <1>0, <2>1, <2>2
  <2> QED
    BY <1>10, <2>3 DEF Skip, Types, TypeOK, E, cursor
<1>11. CASE Recall
  <2>1. todo' \in 0..(Byte - 1) /\ todo' >= 1
    BY <1>0, <1>11 DEF Recall
  <2> QED
    BY <1>11, <2>1 DEF Recall, Types, TypeOK, E, place, cursor
<1>12. CASE CursorRight
  <2>1. todo' \in 0..(Byte - 1) /\ todo' >= 1
    BY <1>0, <1>12 DEF CursorRight
  <2> QED
    BY <1>12, <2>1 DEF CursorRight, Types, TypeOK, E, place, cursor
<1>13. CASE RecallByte
  <2>1. CASE phase' = "keys" /\ todo' = 0 /\ UNCHANGED << line, col, off, ptr >>
    BY <1>0, <1>13, <2>1 DEF RecallByte, Types, TypeOK, E
  <2>2. CASE ~(phase' = "keys" /\ todo' = 0 /\ UNCHANGED << line, col, off, ptr >>)
    <3>1. PICK x \in At(ptr) :
             /\ off < E /\ Len(line) < MaxLine
             /\ line' = Append(line, x) /\ Echo(x)
             /\ off' = off + 1 /\ ptr' = ptr + 1 /\ todo' = todo - 1
             /\ phase' = IF todo = 1 THEN "keys" ELSE "recall"
      BY <1>13, <2>2 DEF RecallByte
    <3>2. x \in Chars
      BY AtType DEF Types, TypeOK
    <3>3. line' \in Seq(Chars) /\ Len(line') <= MaxLine
      BY <1>0, <3>1, <3>2, EditorAssumption DEF Types, TypeOK
    <3>4. col' \in 0..(Byte - 1)
      BY <3>1, <3>2, EchoType DEF Echo
    <3>5. off \in 0..(Byte - 1) /\ ptr \in Nat /\ ptr >= (IF off < E THEN off ELSE E)
          /\ todo \in 0..(Byte - 1) /\ todo >= 1
      BY <1>13 DEF Types, TypeOK, RecallByte
    <3>6. /\ off' \in 0..(Byte - 1) /\ ptr' \in Nat /\ todo' \in 0..(Byte - 1)
          /\ ptr' >= (IF off' < E THEN off' ELSE E)
          /\ phase' \in {"keys", "recall"} /\ (phase' = "recall" => todo' >= 1)
      BY <1>0, <3>1, <3>5
    <3> QED
      BY <1>13, <3>3, <3>4, <3>6 DEF RecallByte, Types, TypeOK, E
  <2> QED
    BY <2>1, <2>2
<1>14. CASE CtrlL
  <2>1. PICK s \in Sought : \E k \in Distances(s[1], s[2]) : off' = off + k /\ ptr' = ptr + k
    BY <1>14 DEF CtrlL
  <2>2. PICK k \in Distances(s[1], s[2]) : off' = off + k /\ ptr' = ptr + k
    BY <2>1
  <2>3. k \in Nat /\ (k # 0 => off + k < E)
    BY DistancesType
  <2>4. off \in 0..(Byte - 1) /\ ptr \in Nat /\ ptr >= (IF off < E THEN off ELSE E)
    BY DEF Types, TypeOK
  <2>5. /\ off' \in 0..(Byte - 1) /\ ptr' \in Nat
        /\ ptr' >= (IF off' < E THEN off' ELSE E)
    BY <1>0, <2>2, <2>3, <2>4
  <2> QED
    BY <1>14, <2>5 DEF CtrlL, Types, TypeOK, E, cursor
<1>15. CASE CtrlX
  <2>1. PICK s \in Sought : \E k \in Distances(s[1], s[2]) :
           IF k = 0 THEN UNCHANGED << phase, insert, todo, astray >>
           ELSE /\ phase' = "recall" /\ todo' = k /\ insert' = FALSE
                /\ astray' = (astray \/ "01" \in At(ptr + k - 1))
    BY <1>15 DEF CtrlX
  <2>2. PICK k \in Distances(s[1], s[2]) :
           IF k = 0 THEN UNCHANGED << phase, insert, todo, astray >>
           ELSE /\ phase' = "recall" /\ todo' = k /\ insert' = FALSE
                /\ astray' = (astray \/ "01" \in At(ptr + k - 1))
    BY <2>1
  <2>3. k \in Nat /\ (k # 0 => off + k < E) /\ off \in Nat
    BY DistancesType DEF Types, TypeOK
  <2>4. CASE k = 0
    BY <1>15, <2>2, <2>4 DEF CtrlX, Types, TypeOK, E, place, cursor
  <2>5. CASE k # 0
    <3>1. todo' \in 0..(Byte - 1) /\ todo' >= 1
      BY <1>0, <2>2, <2>3, <2>5
    <3>2. astray' \in BOOLEAN /\ insert' \in BOOLEAN /\ phase' = "recall"
      BY <2>2, <2>5 DEF Types, TypeOK
    <3> QED
      BY <1>15, <3>1, <3>2 DEF CtrlX, Types, TypeOK, E, place, cursor
  <2> QED
    BY <2>4, <2>5
<1>16. CASE UNCHANGED vars
  BY <1>16 DEF vars, Types, TypeOK, E
<1> QED
  BY <1>1, <1>2, <1>3, <1>4, <1>5, <1>6, <1>7, <1>8, <1>9, <1>10, <1>11, <1>12,
     <1>13, <1>14, <1>15, <1>16 DEF Next

LEMMA EditorTypesHold == Spec => []Types
<1> QED
  BY TypesInit, TypesNext, PTL DEF Spec

\* Registers, pointers and columns stay in their ranges: no key, with any old
\* line and any buffer, takes the pointer before the template or the place past
\* a byte without the count of register D.
THEOREM EditorTypes == Spec => []TypeOK
<1>1. Types => TypeOK
  BY DEF Types
<1> QED
  BY <1>1, EditorTypesHold, PTL

-----------------------------------------------------------------------------
(* The buffer.                                                             *)

\* The checks do not wrap where a buffer has fewer than Byte - 1 bytes.
LEMMA FitsRight ==
  ASSUME Types, RoomKept, room < Byte - 1, NEW n \in {1, 2}, Fits(n)
  PROVE  Len(line) + n <= room
<1>1. Len(line) \in Nat /\ room \in 0..(Byte - 1) /\ Byte \in Nat /\ Len(line) <= room
  BY Lengths DEF RoomKept
<1>2. B = Len(line)
  <2>1. \A x \in 0..(Byte - 1) : x % Byte = x
    BY <1>1
  <2> QED
    BY <1>1, <2>1 DEF B
<1>3. B + n - 1 \in 0..(Byte - 1)
  BY <1>1, <1>2
<1>4. (B + n - 1) % Byte = B + n - 1
  BY <1>1, <1>3
<1> QED
  BY <1>1, <1>2, <1>4 DEF Fits

LEMMA RoomSame == [Next]_vars => room' = room
<1>1. Type \/ CtrlA \/ InsertKey \/ CtrlJ => room' = room
  BY DEF Type, CtrlA, InsertKey, CtrlJ
<1>2. BS \/ ClearLine \/ CtrlK \/ CtrlM \/ CallAgain => room' = room
  BY DEF BS, ClearLine, CtrlK, CtrlM, CallAgain
<1>3. Skip \/ Recall \/ CursorRight => room' = room
  BY DEF Skip, Recall, CursorRight
<1>4. RecallByte => room' = room
  BY DEF RecallByte
<1>5. CtrlL => room' = room
  BY DEF CtrlL
<1>6. CtrlX => room' = room
  BY DEF CtrlX
<1>7. UNCHANGED vars => room' = room
  BY DEF vars
<1> QED
  BY <1>1, <1>2, <1>3, <1>4, <1>5, <1>6, <1>7 DEF Next

LEMMA RoomNext == Types /\ RoomKept /\ [Next]_vars => RoomKept'
<1> SUFFICES ASSUME Types, RoomKept, [Next]_vars, room < Byte - 1
             PROVE  Len(line') <= room'
  BY RoomSame DEF RoomKept
<1>0. /\ Len(line) \in Nat /\ room \in 0..(Byte - 1) /\ B \in Nat /\ B <= Len(line)
      /\ Len(line) <= room /\ Byte \in Nat
  BY Lengths DEF RoomKept
<1>r. room' = room
  BY RoomSame
<1>1. CASE Type
  <2>1. PICK x \in Chars \ {"01"} : IF Fits(1) THEN Store(<< x >>, x) ELSE Refuse
    BY <1>1 DEF Type
  <2>2. CASE Fits(1)
    <3>1. line' = line \o << x >>
      BY <2>1, <2>2 DEF Store
    <3>2. Len(line') = Len(line) + 1
      BY <3>1, LineType
    <3> QED
      BY <1>r, <2>2, <3>2, FitsRight
  <2>3. CASE ~Fits(1)
    BY <1>0, <1>r, <2>1, <2>3 DEF Refuse
  <2> QED
    BY <2>2, <2>3
<1>2. CASE CtrlA
  <2>1. CASE Fits(2)
    <3>1. line' = line \o << "01", "A" >>
      BY <1>2, <2>1 DEF CtrlA, Store
    <3>2. Len(line') = Len(line) + 2
      BY <3>1, LineType
    <3> QED
      BY <1>r, <2>1, <3>2, FitsRight
  <2>2. CASE ~Fits(2)
    BY <1>0, <1>2, <1>r, <2>2 DEF CtrlA, Refuse
  <2> QED
    BY <2>1, <2>2
<1>3. CASE BS
  <2>1. Len(line) - Removed \in 0..Len(line) /\ line' = SubSeq(line, 1, Len(line) - Removed)
    BY <1>0, <1>3, RemovedType DEF BS
  <2>2. Len(line') = Len(line) - Removed
    BY <2>1, LineType
  <2> QED
    BY <1>0, <1>r, <2>1, <2>2
<1>4. CASE CtrlM
  <2>1. line' = SubSeq(line, 1, B)
    BY <1>4 DEF CtrlM, Killed
  <2>2. Len(line') = B
    BY <1>0, <2>1, LineType
  <2> QED
    BY <1>0, <1>r, <2>2
<1>5. CASE ClearLine \/ CtrlK \/ CallAgain
  <2>1. line' = << >>
    BY <1>5 DEF ClearLine, CtrlK, CallAgain, Entry
  <2> QED
    BY <1>0, <1>r, <2>1
<1>6. CASE RecallByte
  <2>1. CASE line' = line
    BY <1>0, <1>r, <2>1
  <2>2. CASE line' # line
    <3>1. Fits(1) /\ \E x \in At(ptr) : line' = Append(line, x)
      BY <1>6, <2>2 DEF RecallByte
    <3>2. Len(line') = Len(line) + 1
      BY <3>1 DEF Types, TypeOK
    <3> QED
      BY <1>r, <3>1, <3>2, FitsRight
  <2> QED
    BY <2>1, <2>2
<1>7. CASE UNCHANGED line
  BY <1>0, <1>r, <1>7
<1>8. InsertKey \/ CtrlJ \/ Skip \/ Recall \/ CursorRight \/ CtrlL \/ CtrlX \/ UNCHANGED vars
      => UNCHANGED line
  BY DEF InsertKey, CtrlJ, Skip, Recall, CursorRight, CtrlL, CtrlX, vars
<1> QED
  BY <1>1, <1>2, <1>3, <1>4, <1>5, <1>6, <1>7, <1>8 DEF Next

LEMMA RoomHolds == Spec => [](Types /\ RoomKept)
<1>1. Init => RoomKept
  <2> SUFFICES ASSUME Init PROVE Len(line) <= room
    BY DEF RoomKept
  <2>1. line = << >> /\ room \in 0..(Byte - 1) /\ Byte \in Nat
    BY EditorAssumption DEF Init
  <2> QED
    BY <2>1
<1> QED
  BY <1>1, TypesInit, TypesNext, RoomNext, PTL DEF Spec

\* No sequence of keys writes past the end of a buffer of fewer than 255 bytes,
\* whatever its length and the old line in it: neither typing nor recalling.
THEOREM EditorRoom == Spec => []RoomKept
<1> QED
  BY RoomHolds, PTL

-----------------------------------------------------------------------------
(* The place in the template.                                              *)

\* Where the pointer is, also behind the template.
PlaceInv == (~astray /\ Whole(tmpl)) => ptr = (IF off < E THEN off ELSE E)

LEMMA PlaceNext == Types /\ PlaceInv /\ [Next]_vars => PlaceInv'
<1> SUFFICES ASSUME Types, PlaceInv, [Next]_vars PROVE PlaceInv'
  OBVIOUS
<1>0. /\ E \in Nat /\ E <= Byte - 2 /\ Byte \in Nat /\ Byte > 2
      /\ off \in 0..(Byte - 1) /\ ptr \in Nat /\ astray \in BOOLEAN
  BY Lengths DEF Types, TypeOK
<1>e. ASSUME NEW p \in 0..(E - 1), NEW x \in At(p), x = "01", Whole(tmpl)
      PROVE  p + 1 < E
  <2>1. x = tmpl[p + 1] /\ p + 1 \in 1..Len(tmpl)
    BY <1>0, <1>e DEF At, E
  <2> QED
    BY <1>e, <2>1 DEF Whole, E
<1>t. CASE UNCHANGED tmpl /\ (Advance \/ (Retreat /\ UNCHANGED astray))
  <2> SUFFICES ASSUME ~astray', Whole(tmpl) PROVE ptr' = (IF off' < E THEN off' ELSE E)
    BY <1>t DEF PlaceInv, E, Whole
  <2>1. CASE Advance
    <3> DEFINE d == (off + 1) % Byte
    <3>1. astray' = (astray \/ d = 0)
      BY <2>1 DEF Advance
    <3>2. ~astray /\ d # 0
      BY <3>1
    <3>3. d = off + 1
      <4>1. off # Byte - 1
        <5>1. Byte % Byte = 0
          BY <1>0
        <5>2. off = Byte - 1 => off + 1 = Byte
          BY <1>0
        <5> QED
          BY <3>2, <5>1, <5>2
      <4>2. off + 1 \in 0..(Byte - 1)
        BY <1>0, <4>1
      <4> QED
        BY <1>0, <4>2
    <3>4. ptr = (IF off < E THEN off ELSE E)
      BY <3>2 DEF PlaceInv
    <3>5. IF d > E THEN off' = d /\ ptr' = ptr
          ELSE \E x \in At(ptr) : IF x = "01" THEN off' = d + 1 /\ ptr' = ptr + 2
                                             ELSE off' = d /\ ptr' = ptr + 1
      BY <2>1 DEF Advance
    <3> HIDE DEF d
    <3>6. CASE d > E
      BY <1>0, <3>3, <3>4, <3>5, <3>6
    <3>7. CASE ~(d > E)
      <4>1. off < E /\ ptr = off /\ ptr \in 0..(E - 1)
        BY <1>0, <3>3, <3>4, <3>7
      <4>2. PICK x \in At(ptr) : IF x = "01" THEN off' = d + 1 /\ ptr' = ptr + 2
                                             ELSE off' = d /\ ptr' = ptr + 1
        BY <3>5, <3>7
      <4>3. x = "01" => off + 1 < E
        BY <1>e, <4>1
      <4> QED
        BY <1>0, <3>3, <4>1, <4>2, <4>3
    <3> QED
      BY <3>6, <3>7
  <2>2. CASE Retreat /\ UNCHANGED astray
    <3>1. ptr = (IF off < E THEN off ELSE E)
      BY <2>2 DEF PlaceInv
    <3>2. \/ off' = off /\ ptr' = ptr
          \/ off >= 1 /\ off - 1 >= E /\ off' = off - 1 /\ ptr' = ptr
          \/ off = 1 /\ off - 1 < E /\ off' = 0 /\ ptr' = ptr - 1
          \/ off >= 2 /\ off - 1 < E /\ off' = off - 2 /\ ptr' = ptr - 2
          \/ off >= 2 /\ off - 1 < E /\ off' = off - 1 /\ ptr' = ptr - 1
      BY <1>0, <2>2 DEF Retreat
    <3> QED
      BY <1>0, <3>1, <3>2
  <2> QED
    BY <1>t, <2>1, <2>2
<1>s. CASE UNCHANGED << tmpl, off, ptr >> /\ (~astray' => ~astray)
  BY <1>s DEF PlaceInv, E, Whole
<1>n. CASE off' = 0 /\ ptr' = 0 /\ Len(tmpl') \in Nat
  BY <1>n DEF PlaceInv, E
<1>1. CASE Type \/ CtrlA
  <2>1. tmpl' = tmpl /\ (Refuse \/ \E s, x \in Chars \union Seq(Chars) : Store(s, x))
    <3>1. CASE Type
      <4>1. PICK x \in Chars \ {"01"} : IF Fits(1) THEN Store(<< x >>, x) ELSE Refuse
        BY <3>1 DEF Type
      <4>2. tmpl' = tmpl
        BY <3>1 DEF Type
      <4> QED
        BY <4>1, <4>2, LineType
    <3>2. CASE CtrlA
      <4>1. Refuse \/ Store(<< "01", "A" >>, "A")
        BY <3>2 DEF CtrlA
      <4>2. tmpl' = tmpl /\ "A" \in Chars
        BY <3>2 DEF CtrlA, Chars
      <4> QED
        BY <4>1, <4>2, LineType
    <3> QED
      BY <1>1, <3>1, <3>2
  <2>2. Advance \/ UNCHANGED << off, ptr, astray >>
    <3>1. CASE Refuse
      BY <3>1 DEF Refuse, place
    <3>2. CASE \E s, x \in Chars \union Seq(Chars) : Store(s, x)
      <4>1. PICK s, x \in Chars \union Seq(Chars) : Store(s, x)
        BY <3>2
      <4>2. IF insert THEN UNCHANGED << place, astray >> ELSE Advance
        BY <4>1 DEF Store
      <4> QED
        BY <4>2 DEF place
    <3> QED
      BY <2>1, <3>1, <3>2
  <2>5. UNCHANGED tmpl
    BY <2>1
  <2>3. CASE Advance
    BY <1>t, <2>3, <2>5
  <2>4. CASE UNCHANGED << off, ptr, astray >>
    BY <1>s, <2>4, <2>5
  <2> QED
    BY <2>2, <2>3, <2>4
<1>2. CASE BS
  BY <1>2, <1>t DEF BS
<1>3. CASE ClearLine \/ CtrlK \/ CallAgain
  <2>1. off' = 0 /\ ptr' = 0
    BY <1>3 DEF ClearLine, CtrlK, CallAgain, Entry
  <2>2. Types'
    BY TypesNext
  <2>3. Len(tmpl') \in Nat
    BY <2>2 DEF Types, TypeOK
  <2> QED
    BY <1>n, <2>1, <2>3
<1>4. CASE Skip
  <2>1. CASE off < E
    <3>1. PICK x \in At(ptr) : LET n == IF x = "01" THEN 2 ELSE 1
                               IN off' = off + n /\ ptr' = ptr + n
      BY <1>4, <2>1 DEF Skip
    <3>2. tmpl' = tmpl /\ astray' = astray
      BY <1>4 DEF Skip
    <3> SUFFICES ASSUME ~astray, Whole(tmpl) PROVE ptr' = (IF off' < E THEN off' ELSE E)
      BY <3>2 DEF PlaceInv, E, Whole
    <3>3. ptr = off /\ ptr \in 0..(E - 1)
      BY <1>0, <2>1 DEF PlaceInv
    <3>4. x = "01" => off + 1 < E
      BY <1>e, <3>3
    <3> QED
      BY <1>0, <2>1, <3>1, <3>3, <3>4
  <2>2. CASE ~(off < E)
    BY <1>4, <1>s, <2>2 DEF Skip
  <2> QED
    BY <2>1, <2>2
<1>5. CASE RecallByte
  <2>1. UNCHANGED << tmpl, astray >>
    BY <1>5 DEF RecallByte
  <2>0. (off' = off /\ ptr' = ptr) \/ (off < E /\ off' = off + 1 /\ ptr' = ptr + 1)
    BY <1>5 DEF RecallByte
  <2>2. CASE off' = off /\ ptr' = ptr
    BY <1>s, <2>1, <2>2
  <2>3. CASE off < E /\ off' = off + 1 /\ ptr' = ptr + 1
    BY <1>0, <2>1, <2>3 DEF PlaceInv, E, Whole
  <2> QED
    BY <2>0, <2>2, <2>3
<1>6. CASE CtrlL
  <2>1. PICK s \in Sought : \E k \in Distances(s[1], s[2]) : off' = off + k /\ ptr' = ptr + k
    BY <1>6 DEF CtrlL
  <2>2. PICK k \in Distances(s[1], s[2]) : off' = off + k /\ ptr' = ptr + k
    BY <2>1
  <2>3. k \in Nat /\ (k # 0 => off + k < E)
    BY DistancesType
  <2>4. tmpl' = tmpl /\ astray' = astray
    BY <1>6 DEF CtrlL
  <2> SUFFICES ASSUME ~astray, Whole(tmpl) PROVE ptr' = (IF off' < E THEN off' ELSE E)
    BY <2>4 DEF PlaceInv, E, Whole
  <2>5. ptr = (IF off < E THEN off ELSE E)
    BY DEF PlaceInv
  <2> QED
    BY <1>0, <2>2, <2>3, <2>5
<1>7. CASE CtrlX
  <2>1. UNCHANGED << tmpl, off, ptr >> /\ (~astray' => ~astray)
    BY <1>7 DEF CtrlX, place
  <2> QED
    BY <1>s, <2>1
<1>8. CASE InsertKey \/ CtrlJ \/ CtrlM \/ Recall \/ CursorRight \/ UNCHANGED vars
  <2>1. UNCHANGED << tmpl, off, ptr, astray >>
    BY <1>8 DEF InsertKey, CtrlJ, CtrlM, Recall, CursorRight, vars, place
  <2> QED
    BY <1>s, <2>1
<1> QED
  BY <1>1, <1>2, <1>3, <1>4, <1>5, <1>6, <1>7, <1>8 DEF Next

LEMMA PlaceHolds == Spec => [](Types /\ RoomKept /\ PlaceInv)
<1>1. Init => PlaceInv
  <2> SUFFICES ASSUME Init PROVE PlaceInv
    OBVIOUS
  <2>1. off = 0 /\ ptr = 0
    BY DEF Init
  <2>2. E \in Nat
    BY TypesInit DEF Types, TypeOK, E
  <2> QED
    BY <2>1, <2>2 DEF PlaceInv
<1> QED
  BY <1>1, TypesInit, TypesNext, RoomHolds, PlaceNext, PTL DEF Spec

\* The counter and the pointer stay at the same place of the template through
\* every key, for templates and buffers of any length.
THEOREM EditorPlace == Spec => []PlaceRight
<1>1. Types /\ PlaceInv => PlaceRight
  BY DEF PlaceInv, PlaceRight
<1> QED
  BY <1>1, PlaceHolds, PTL

-----------------------------------------------------------------------------
(* Graphic characters.                                                     *)

LEMMA WholeAppend ==
  ASSUME NEW s \in Seq(Chars), Whole(s), NEW x \in Chars, x # "01"
  PROVE  Whole(Append(s, x))
<1>1. /\ Len(s) \in Nat /\ Len(Append(s, x)) = Len(s) + 1
      /\ \A i \in 1..Len(s) : Append(s, x)[i] = s[i]
      /\ Append(s, x)[Len(s) + 1] = x
  OBVIOUS
<1> DEFINE t == Append(s, x)
<1> HIDE DEF t
<1>2. /\ Len(s) \in Nat /\ Len(t) = Len(s) + 1
      /\ \A i \in 1..Len(s) : t[i] = s[i]
      /\ t[Len(s) + 1] = x
  BY <1>1 DEF t
<1>3. ASSUME NEW i \in 1..Len(t), t[i] = "01" PROVE i < Len(t) /\ t[i + 1] = "A"
  <2>1. i \in 1..Len(s) /\ s[i] = "01"
    BY <1>2, <1>3
  <2>2. i + 1 \in 1..Len(s) /\ s[i + 1] = "A"
    BY <1>2, <2>1 DEF Whole
  <2> QED
    BY <1>2, <2>1, <2>2
<1>4. Whole(t)
  BY <1>3 DEF Whole
<1> QED
  BY <1>4 DEF t

LEMMA WholePrefix ==
  ASSUME NEW s \in Seq(Chars), Whole(s), NEW n \in 0..Len(s), n >= 1 => s[n] # "01"
  PROVE  Whole(SubSeq(s, 1, n))
<1> DEFINE t == SubSeq(s, 1, n)
<1>1. Len(s) \in Nat
  OBVIOUS
<1>2. Len(t) = n /\ \A i \in 1..n : t[i] = s[i]
  <2>1. CASE n = 0
    BY <2>1
  <2>2. CASE n >= 1
    <3>1. 1 \in 1..Len(s) /\ n \in 1..Len(s) /\ 1 <= n
      BY <1>1, <2>2
    <3> QED
      BY <1>1, <2>2, <3>1, SubSeqProperties
  <2> QED
    BY <1>1, <2>1, <2>2
<1> HIDE DEF t
<1>3. ASSUME NEW i \in 1..Len(t), t[i] = "01" PROVE i < Len(t) /\ t[i + 1] = "A"
  <2>1. i \in 1..Len(s) /\ i \in 1..n /\ s[i] = "01"
    BY <1>1, <1>2, <1>3
  <2>2. i # n
    BY <2>1
  <2>3. i + 1 \in 1..n /\ s[i + 1] = "A"
    BY <1>1, <2>1, <2>2 DEF Whole
  <2> QED
    BY <1>2, <2>3
<1>4. Whole(t)
  BY <1>3 DEF Whole
<1> QED
  BY <1>4 DEF t

\* A line that ends inside a graphic character.
Half(s) ==
  /\ Len(s) >= 1 /\ s[Len(s)] = "01"
  /\ \A i \in 1..(Len(s) - 1) : s[i] = "01" => s[i + 1] = "A"

LEMMA HalfMade ==
  ASSUME NEW s \in Seq(Chars), Whole(s)
  PROVE  Half(Append(s, "01"))
<1> DEFINE t == Append(s, "01")
<1>1. /\ Len(s) \in Nat /\ Len(t) = Len(s) + 1
      /\ \A i \in 1..Len(s) : t[i] = s[i]
      /\ t[Len(s) + 1] = "01"
  OBVIOUS
<1> HIDE DEF t
<1>2. ASSUME NEW i \in 1..(Len(t) - 1), t[i] = "01" PROVE t[i + 1] = "A"
  <2>1. i \in 1..Len(s) /\ s[i] = "01"
    BY <1>1, <1>2
  <2>2. i + 1 \in 1..Len(s) /\ s[i + 1] = "A"
    BY <1>1, <2>1 DEF Whole
  <2> QED
    BY <1>1, <2>2
<1>3. Half(t)
  BY <1>1, <1>2 DEF Half
<1> QED
  BY <1>3 DEF t

LEMMA HalfMended ==
  ASSUME NEW s \in Seq(Chars), Half(s)
  PROVE  Whole(Append(s, "A"))
<1> DEFINE t == Append(s, "A")
<1>1. /\ Len(s) \in Nat /\ Len(t) = Len(s) + 1
      /\ \A i \in 1..Len(s) : t[i] = s[i]
      /\ t[Len(s) + 1] = "A"
  OBVIOUS
<1> HIDE DEF t
<1>2. ASSUME NEW i \in 1..Len(t), t[i] = "01" PROVE i < Len(t) /\ t[i + 1] = "A"
  <2>1. i \in 1..Len(s) /\ s[i] = "01" /\ i < Len(t)
    BY <1>1, <1>2
  <2>2. CASE i = Len(s)
    BY <1>1, <2>1, <2>2
  <2>3. CASE i # Len(s)
    <3>1. i \in 1..(Len(s) - 1) /\ i + 1 \in 1..Len(s)
      BY <1>1, <2>1, <2>3
    <3>2. s[i + 1] = "A"
      BY <2>1, <3>1 DEF Half
    <3> QED
      BY <1>1, <2>1, <3>1, <3>2
  <2> QED
    BY <2>2, <2>3
<1>3. Whole(t)
  BY <1>2 DEF Whole
<1> QED
  BY <1>3 DEF t

LEMMA WholeGraphic ==
  ASSUME NEW s \in Seq(Chars), Whole(s)
  PROVE  Whole(s \o << "01", "A" >>) /\ s \o << "01", "A" >> = Append(Append(s, "01"), "A")
<1>1. "01" \in Chars /\ "A" \in Chars
  BY DEF Chars
<1>2. s \o << "01", "A" >> = Append(Append(s, "01"), "A")
  OBVIOUS
<1>3. Append(s, "01") \in Seq(Chars)
  BY <1>1
<1> QED
  BY <1>2, <1>3, HalfMade, HalfMended

\* While a template is recalled, the line may end inside a graphic character;
\* then there is room for its letter, and the letter is the next byte.
HalfRecalled ==
  /\ Half(line) /\ Len(line) < room
  /\ off \in 1..(E - 1) /\ tmpl[off] = "01"

\* The last byte that is to be recalled is not the head of a graphic character.
LastRecalled == off + todo <= E => tmpl[off + todo] # "01"

Pairs ==
  /\ Whole(tmpl)
  /\ phase # "recall" => Whole(line)
  /\ phase = "recall" => LastRecalled /\ (Whole(line) \/ HalfRecalled)
PairInv == (~astray /\ room < Byte - 1) => Pairs

\* What holds in every state of an editor with a buffer of fewer than Byte - 1
\* bytes and a template that is whole.
Sound == Types /\ RoomKept /\ PlaceInv /\ ~astray /\ room < Byte - 1 /\ Pairs

LEMMA SoundFacts ==
  ASSUME Sound
  PROVE  /\ E \in Nat /\ E <= Byte - 2 /\ Byte \in Nat /\ Byte > 2
         /\ off \in 0..(Byte - 1) /\ room \in Nat /\ (E > 0 => E < room)
         /\ Len(line) \in Nat /\ Len(line) <= room /\ B = Len(line)
         /\ line \in Seq(Chars) /\ tmpl \in Seq(Chars) /\ E = Len(tmpl)
         /\ (off < E => ptr = off /\ At(ptr) = { tmpl[off + 1] })
         /\ \A n \in {1, 2} : Fits(n) <=> Len(line) + n <= room
<1>1. /\ E \in Nat /\ E <= Byte - 2 /\ Byte \in Nat /\ Byte > 2
      /\ off \in 0..(Byte - 1) /\ room \in Nat /\ (E > 0 => E < room)
      /\ Len(line) \in Nat /\ Len(line) <= room
      /\ line \in Seq(Chars) /\ tmpl \in Seq(Chars) /\ E = Len(tmpl)
  BY Lengths DEF Sound, Types, TypeOK, RoomKept, E
<1>2. \A x \in 0..(Byte - 1) : x % Byte = x
  BY <1>1
<1>3. B = Len(line)
  BY <1>1, <1>2 DEF B, Sound
<1>4. off < E => ptr = off
  BY <1>1 DEF Sound, PlaceInv, Pairs
<1>5. off < E => At(ptr) = { tmpl[off + 1] }
  BY <1>1, <1>4 DEF At
<1>6. ASSUME NEW n \in {1, 2} PROVE Fits(n) <=> Len(line) + n <= room
  <2>1. B + n - 1 \in 0..(Byte - 1)
    BY <1>1, <1>3 DEF Sound
  <2>2. (B + n - 1) % Byte = Len(line) + n - 1
    BY <1>2, <1>3, <2>1
  <2> QED
    BY <1>1, <2>2 DEF Fits
<1> QED
  BY <1>1, <1>3, <1>4, <1>5, <1>6

\* What the keys do to the line, outside a recall.
LEMMA TypedWhole ==
  ASSUME Sound, phase # "recall"
  PROVE  /\ \A x \in Chars \ {"01"} : Whole(line \o << x >>)
         /\ Whole(line \o << "01", "A" >>)
         /\ Whole(SubSeq(line, 1, Len(line) - Removed))
         /\ Killed = line
<1>1. Whole(line) /\ line \in Seq(Chars) /\ Len(line) \in Nat /\ B = Len(line)
  BY SoundFacts DEF Sound, Pairs
<1>2. ASSUME NEW x \in Chars \ {"01"} PROVE Whole(line \o << x >>)
  <2>1. line \o << x >> = Append(line, x)
    BY <1>1
  <2> QED
    BY <1>1, <2>1, WholeAppend
<1>3. Whole(line \o << "01", "A" >>)
  BY <1>1, WholeGraphic
<1>4. Whole(SubSeq(line, 1, Len(line) - Removed))
  <2> DEFINE n == Len(line) - Removed
  <2>1. Removed = IF Len(line) = 0 THEN 0
                  ELSE IF Len(line) > 1 /\ line[Len(line) - 1] = "01" THEN 2 ELSE 1
    BY <1>1 DEF Removed
  <2>2. n \in 0..Len(line)
    BY <1>1, <2>1
  <2>3. n >= 1 => line[n] # "01"
    <3> SUFFICES ASSUME n >= 1, line[n] = "01" PROVE FALSE
      OBVIOUS
    <3>1. n \in 1..Len(line)
      BY <2>2
    <3>2. n < Len(line) /\ line[n + 1] = "A"
      BY <1>1, <3>1 DEF Whole
    <3>3. CASE n = Len(line) - 1
      BY <1>1, <2>1, <3>2, <3>3
    <3>4. CASE n = Len(line) - 2
      BY <1>1, <2>1, <3>2, <3>4
    <3> QED
      BY <1>1, <2>1, <3>2, <3>3, <3>4
  <2> HIDE DEF n
  <2>4. Whole(SubSeq(line, 1, n))
    BY <1>1, <2>2, <2>3, WholePrefix
  <2> QED
    BY <2>4 DEF n
<1>5. Killed = line
  <2>1. SubSeq(line, 1, Len(line)) = line
    BY <1>1
  <2> QED
    BY <1>1, <2>1 DEF Killed
<1> QED
  BY <1>2, <1>3, <1>4, <1>5

\* A byte that is recalled: the letter of the line's last graphic character, or
\* a character, or the head of one whose letter will follow.
LEMMA RecallPairs ==
  ASSUME Sound, RecallByte
  PROVE  Pairs'
<1>0. phase = "recall" /\ tmpl' = tmpl /\ room' = room /\ E' = E
  BY DEF RecallByte, E
<1>1. Whole(tmpl) /\ LastRecalled /\ (Whole(line) \/ HalfRecalled)
  BY <1>0 DEF Sound, Pairs
<1>2. todo \in 0..(Byte - 1) /\ todo >= 1
  BY <1>0 DEF Sound, Types, TypeOK
<1>3. HalfRecalled => off < E /\ tmpl[off + 1] = "A" /\ Fits(1)
  <2> SUFFICES ASSUME HalfRecalled PROVE off < E /\ tmpl[off + 1] = "A" /\ Fits(1)
    OBVIOUS
  <2>1. off \in 1..Len(tmpl) /\ tmpl[off] = "01" /\ off < E
    BY SoundFacts DEF HalfRecalled
  <2>2. tmpl[off + 1] = "A"
    BY <1>1, <2>1 DEF Whole
  <2>3. Len(line) + 1 <= room
    BY SoundFacts DEF HalfRecalled
  <2> QED
    BY <2>1, <2>2, <2>3, SoundFacts
<1>4. CASE off < E /\ Fits(1) /\ (tmpl[off + 1] = "01" => Fits(2))
  <2> DEFINE x == tmpl[off + 1]
  <2>1. /\ line' = Append(line, x) /\ off' = off + 1 /\ todo' = todo - 1
        /\ phase' = IF todo = 1 THEN "keys" ELSE "recall"
    <3>1. At(ptr) = { x }
      BY <1>4, SoundFacts
    <3> QED
      BY <1>4, <3>1 DEF RecallByte
  <2>2. x \in Chars /\ off + 1 \in 1..Len(tmpl) /\ off \in Nat
    <3>1. off + 1 \in 1..Len(tmpl) /\ tmpl \in Seq(Chars) /\ off \in Nat
      BY <1>4, SoundFacts
    <3> QED
      BY <3>1, ElementOfSeq
  <2>3. LastRecalled'
    <3>1. off' + todo' = off + todo
      BY <1>2, <2>1, <2>2
    <3> QED
      BY <1>0, <1>1, <3>1 DEF LastRecalled
  <2>4. CASE HalfRecalled
    <3>1. x = "A" /\ Half(line) /\ line \in Seq(Chars)
      BY <1>3, <2>4, SoundFacts DEF HalfRecalled
    <3>2. Whole(line')
      BY <2>1, <3>1, HalfMended
    <3> QED
      BY <1>0, <1>1, <2>3, <3>2 DEF Pairs
  <2>5. CASE Whole(line) /\ x # "01"
    <3>1. Whole(line')
      BY <2>1, <2>2, <2>5, SoundFacts, WholeAppend
    <3> QED
      BY <1>0, <1>1, <2>3, <3>1 DEF Pairs
  <2>6. CASE Whole(line) /\ x = "01"
    <3>1. Half(line')
      BY <2>1, <2>6, SoundFacts, HalfMade
    <3>2. off + 1 < E
      BY <1>1, <2>2, <2>6, SoundFacts DEF Whole
    <3>3. off' \in 1..(E - 1) /\ tmpl[off'] = "01"
      BY <2>1, <2>2, <2>6, <3>2, SoundFacts
    <3>4. Len(line') < room
      <4>1. Len(line) + 2 <= room
        BY <1>4, <2>6, SoundFacts
      <4>2. Len(line') = Len(line) + 1
        BY <2>1, SoundFacts
      <4> QED
        BY <4>1, <4>2, SoundFacts
    <3>5. phase' = "recall"
      <4>1. todo # 1
        BY <1>1, <2>2, <2>6, <3>2, SoundFacts DEF LastRecalled
      <4> QED
        BY <2>1, <4>1
    <3>6. HalfRecalled'
      BY <1>0, <3>1, <3>3, <3>4 DEF HalfRecalled
    <3> QED
      BY <1>0, <1>1, <2>3, <3>5, <3>6 DEF Pairs
  <2> QED
    BY <1>1, <2>4, <2>5, <2>6
<1>5. CASE ~(off < E /\ Fits(1) /\ (tmpl[off + 1] = "01" => Fits(2)))
  <2>1. phase' = "keys" /\ line' = line
    <3>1. CASE off < E
      <4>1. At(ptr) = { tmpl[off + 1] }
        BY <3>1, SoundFacts
      <4> QED
        BY <1>5, <4>1 DEF RecallByte
    <3>2. CASE ~(off < E)
      BY <3>2 DEF RecallByte
    <3> QED
      BY <3>1, <3>2
  <2>2. Whole(line)
    BY <1>1, <1>3, <1>5
  <2> QED
    BY <1>0, <1>1, <2>1, <2>2 DEF Pairs
<1> QED
  BY <1>4, <1>5

LEMMA PairsNext ==
  Types /\ RoomKept /\ PlaceInv /\ PairInv /\ [Next]_vars => PairInv'
<1> SUFFICES ASSUME Types, RoomKept, PlaceInv, PairInv, [Next]_vars,
                    ~astray', room' < Byte - 1
             PROVE  Pairs'
  BY DEF PairInv
<1>0. Sound
  <2>1. room < Byte - 1
    BY RoomSame
  <2>2. ~astray
    <3>1. Type \/ CtrlA => (astray => astray')
      BY DEF Type, CtrlA, Store, Refuse, Advance
    <3>2. InsertKey \/ CtrlJ \/ BS \/ ClearLine \/ CtrlK \/ CtrlM \/ CallAgain \/ Skip
          \/ Recall \/ CursorRight \/ CtrlL => UNCHANGED astray
      BY DEF InsertKey, CtrlJ, BS, ClearLine, CtrlK, CtrlM, CallAgain, Skip, Recall,
             CursorRight, CtrlL
    <3>3. RecallByte => UNCHANGED astray
      BY DEF RecallByte
    <3>4. CtrlX => (astray => astray')
      BY DEF CtrlX
    <3>5. UNCHANGED vars => UNCHANGED astray
      BY DEF vars
    <3> QED
      BY <3>1, <3>2, <3>3, <3>4, <3>5 DEF Next
  <2> QED
    BY <2>1, <2>2 DEF Sound, PairInv
<1>p. Pairs
  BY <1>0 DEF Sound
\* Keys that leave the template alone and end outside a recall.
<1>k. ASSUME UNCHANGED << phase, tmpl >>, phase # "recall", Whole(line') PROVE Pairs'
  BY <1>p, <1>k DEF Pairs
\* The old line becomes the template.
<1>e. ASSUME NEW old, NEW c, Entry(old, c), Whole(old) PROVE Pairs'
  <2>1. Whole(tmpl')
    BY <1>e DEF Entry, Whole
  <2>2. phase' = "keys" /\ Whole(line')
    BY <1>e DEF Entry, Whole
  <2> QED
    BY <2>1, <2>2 DEF Pairs
<1>1. CASE Type
  <2>1. phase = "keys" /\ UNCHANGED << phase, tmpl >>
    BY <1>1 DEF Type, Ready
  <2>2. PICK x \in Chars \ {"01"} : IF Fits(1) THEN Store(<< x >>, x) ELSE Refuse
    BY <1>1 DEF Type
  <2>3. line' = line \o << x >> \/ line' = line
    BY <2>2 DEF Store, Refuse
  <2>4. Whole(line')
    BY <1>0, <1>p, <2>1, <2>3, TypedWhole DEF Pairs
  <2> QED
    BY <1>k, <2>1, <2>4
<1>2. CASE CtrlA
  <2>1. phase = "keys" /\ UNCHANGED << phase, tmpl >>
    BY <1>2 DEF CtrlA, Ready
  <2>2. line' = line \o << "01", "A" >> \/ line' = line
    BY <1>2 DEF CtrlA, Store, Refuse
  <2>3. Whole(line')
    BY <1>0, <1>p, <2>1, <2>2, TypedWhole DEF Pairs
  <2> QED
    BY <1>k, <2>1, <2>3
<1>3. CASE InsertKey \/ CtrlJ \/ Skip \/ CtrlL
  <2>1. phase = "keys" /\ UNCHANGED << phase, tmpl, line >>
    BY <1>3 DEF InsertKey, CtrlJ, Skip, CtrlL, Ready
  <2> QED
    BY <1>k, <1>p, <2>1 DEF Pairs
<1>4. CASE BS
  <2>1. phase = "keys" /\ UNCHANGED << phase, tmpl >>
        /\ line' = SubSeq(line, 1, Len(line) - Removed)
    BY <1>4 DEF BS, Ready
  <2>2. Whole(line')
    BY <1>0, <2>1, TypedWhole
  <2> QED
    BY <1>k, <2>1, <2>2
<1>5. CASE ClearLine
  BY <1>5, <1>e, <1>p DEF ClearLine, Pairs
<1>6. CASE CtrlK
  <2>1. phase = "keys" /\ Entry(Killed, start)
    BY <1>6 DEF CtrlK, Ready
  <2>2. Whole(Killed)
    BY <1>0, <1>p, <2>1, TypedWhole DEF Pairs
  <2> QED
    BY <1>e, <2>1, <2>2
<1>7. CASE CtrlM
  <2>1. phase = "keys" /\ phase' = "done" /\ tmpl' = tmpl /\ line' = Killed
    BY <1>7 DEF CtrlM, Ready
  <2>2. Whole(line')
    BY <1>0, <1>p, <2>1, TypedWhole DEF Pairs
  <2> QED
    BY <1>p, <2>1, <2>2 DEF Pairs
<1>8. CASE CallAgain
  BY <1>8, <1>e, <1>p DEF CallAgain, Pairs
<1>9. CASE Recall
  <2>1. phase = "keys" /\ phase' = "recall" /\ UNCHANGED << tmpl, line, off >> /\ todo' = Byte - 1
    BY <1>9 DEF Recall, Ready, place
  <2>2. LastRecalled'
    BY <1>0, <2>1, SoundFacts DEF LastRecalled, E
  <2> QED
    BY <1>p, <2>1, <2>2 DEF Pairs
<1>10. CASE CursorRight
  <2>1. phase = "keys" /\ phase' = "recall" /\ UNCHANGED << tmpl, line, off >>
        /\ \E x \in At(ptr) : todo' = IF x = "01" THEN 2 ELSE 1
    BY <1>10 DEF CursorRight, Ready, place
  <2>2. off \in Nat /\ E \in Nat /\ E = Len(tmpl)
    BY <1>0, SoundFacts
  <2>3. LastRecalled'
    <3>1. CASE off < E
      <4>1. todo' = IF tmpl[off + 1] = "01" THEN 2 ELSE 1
        BY <1>0, <2>1, <3>1, SoundFacts
      <4>2. tmpl[off + 1] = "01" => tmpl[off + 2] = "A"
        BY <1>p, <2>2, <3>1 DEF Pairs, Whole
      <4> QED
        BY <2>1, <2>2, <4>1, <4>2 DEF LastRecalled, E
    <3>2. CASE ~(off < E)
      <4>1. todo' \in {1, 2}
        BY <2>1
      <4>2. ~(off + todo' <= E)
        BY <2>2, <3>2, <4>1
      <4> QED
        BY <2>1, <4>2 DEF LastRecalled, E
    <3> QED
      BY <3>1, <3>2
  <2> QED
    BY <1>p, <2>1, <2>3 DEF Pairs
<1>11. CASE RecallByte
  BY <1>0, <1>11, RecallPairs
<1>12. CASE CtrlX
  <2>1. phase = "keys" /\ UNCHANGED << tmpl, line, off >>
    BY <1>12 DEF CtrlX, Ready, place
  <2>2. PICK s \in Sought : \E k \in Distances(s[1], s[2]) :
           IF k = 0 THEN UNCHANGED << phase, insert, todo, astray >>
           ELSE /\ phase' = "recall" /\ todo' = k /\ insert' = FALSE
                /\ astray' = (astray \/ "01" \in At(ptr + k - 1))
    BY <1>12 DEF CtrlX
  <2>3. PICK k \in Distances(s[1], s[2]) :
           IF k = 0 THEN UNCHANGED << phase, insert, todo, astray >>
           ELSE /\ phase' = "recall" /\ todo' = k /\ insert' = FALSE
                /\ astray' = (astray \/ "01" \in At(ptr + k - 1))
    BY <2>2
  <2>4. k \in Nat /\ (k # 0 => off + k < E)
    BY DistancesType
  <2>5. CASE k = 0
    BY <1>k, <1>p, <2>1, <2>3, <2>5 DEF Pairs
  <2>6. CASE k # 0
    <3>1. "01" \notin At(ptr + k - 1)
      BY <2>3, <2>6
    <3>2. off \in Nat /\ E \in Nat /\ ptr = off
      BY <1>0, <2>4, <2>6, SoundFacts
    <3>3. ptr + k - 1 \in 0..(E - 1) /\ (ptr + k - 1) + 1 = off + k
      BY <2>4, <2>6, <3>2
    <3>4. At(ptr + k - 1) = { tmpl[off + k] }
      BY <3>3 DEF At
    <3>5. LastRecalled'
      BY <2>1, <2>3, <2>6, <3>1, <3>4 DEF LastRecalled, E
    <3> QED
      BY <1>p, <2>1, <2>3, <2>6, <3>5 DEF Pairs
  <2> QED
    BY <2>5, <2>6
<1>13. CASE UNCHANGED vars
  BY <1>13, <1>p DEF vars, Pairs, LastRecalled, HalfRecalled, E
<1> QED
  BY <1>1, <1>2, <1>3, <1>4, <1>5, <1>6, <1>7, <1>8, <1>9, <1>10, <1>11, <1>12, <1>13
  DEF Next

\* The old lines that programs leave in their buffers hold no half characters.
OldLinesWhole == \A t \in Templates : Whole(t)

LEMMA PairsInit == OldLinesWhole /\ Init => PairInv
<1> SUFFICES ASSUME OldLinesWhole, Init PROVE Whole(tmpl) /\ Whole(line) /\ phase = "keys"
  BY DEF PairInv, Pairs
<1>1. Whole(<< >>)
  BY DEF Whole
<1> QED
  BY <1>1 DEF Init, OldLinesWhole

LEMMA PairsHold == OldLinesWhole /\ Spec => [](Types /\ RoomKept /\ PlaceInv /\ PairInv)
<1> QED
  BY PairsInit, PairsNext, TypesInit, TypesNext, RoomHolds, PlaceHolds, PTL DEF Spec

\* Where the old lines are whole, typing, removing, recalling and killing leave
\* no half of a graphic character in a buffer of fewer than 255 bytes.
THEOREM EditorPairs == OldLinesWhole /\ Spec => []PairsWhole
<1>1. PairInv => PairsWhole
  BY DEF PairInv, Pairs, PairsWhole
<1> QED
  BY <1>1, PairsHold, PTL

-----------------------------------------------------------------------------
(* Recalling a whole line.                                                 *)

\* Cursor down pressed at the start has recalled the first bytes of the template.
RecallInv ==
  full => /\ phase = "keys" => line = tmpl
          /\ phase # "done"
          /\ phase = "recall" =>
               /\ ~astray
               /\ off <= E /\ Len(line) = off /\ todo = Byte - 1 - off
               /\ \A i \in 1..off : line[i] = tmpl[i]

Short == room < Byte - 1

LEMMA RecallNext ==
  Types /\ RoomKept /\ PlaceInv /\ PairInv /\ Short /\ RecallInv /\ [Next]_vars => RecallInv'
<1> SUFFICES ASSUME Types, RoomKept, PlaceInv, PairInv, Short, RecallInv, [Next]_vars, full'
             PROVE  RecallInv'
  BY DEF RecallInv
<1>1. CASE Recall
  <2>1. /\ phase' = "recall" /\ line = << >> /\ off = 0 /\ ~astray
        /\ UNCHANGED << line, tmpl, off, astray >> /\ todo' = Byte - 1
    BY <1>1 DEF Recall, place
  <2>2. E \in Nat /\ Byte \in Nat
    BY Lengths
  <2>3. off' = 0 /\ off' <= E' /\ Len(line') = off' /\ todo' = Byte - 1 - off' /\ ~astray'
    BY <2>1, <2>2 DEF E
  <2>4. \A i \in 1..(off') : line'[i] = tmpl'[i]
    BY <2>3
  <2> QED
    BY <2>1, <2>3, <2>4 DEF RecallInv
<1>2. CASE RecallByte
  <2>1. full /\ phase = "recall" /\ tmpl' = tmpl /\ UNCHANGED astray
    BY <1>2 DEF RecallByte
  <2>2. /\ ~astray /\ off <= E /\ Len(line) = off /\ todo = Byte - 1 - off
        /\ \A i \in 1..off : line[i] = tmpl[i]
    BY <2>1 DEF RecallInv
  <2>3. Sound
    BY <2>2 DEF Sound, PairInv, Short
  <2>4. E \in Nat /\ E = Len(tmpl) /\ off \in Nat /\ Byte \in Nat /\ E <= Byte - 2 /\ room \in Nat
    BY <2>3, SoundFacts
  <2>5. CASE off < E
    <3>1. Fits(1) /\ (tmpl[off + 1] = "01" => Fits(2))
      <4>1. E < room /\ \A n \in {1, 2} : Fits(n) <=> Len(line) + n <= room
        BY <2>3, <2>4, <2>5, SoundFacts
      <4>2. Fits(1)
        BY <2>2, <2>4, <2>5, <4>1
      <4>3. tmpl[off + 1] = "01" => off + 1 < E
        BY <2>3, <2>4, <2>5 DEF Sound, Pairs, Whole
      <4> QED
        BY <2>2, <2>4, <4>1, <4>2, <4>3
    <3>2. At(ptr) = { tmpl[off + 1] }
      BY <2>3, <2>5, SoundFacts
    <3>3. /\ line' = Append(line, tmpl[off + 1]) /\ off' = off + 1 /\ todo' = todo - 1
          /\ phase' = IF todo = 1 THEN "keys" ELSE "recall"
      BY <1>2, <2>5, <3>1, <3>2 DEF RecallByte
    <3>4. phase' = "recall"
      BY <2>2, <2>4, <2>5, <3>3
    <3>5. off' <= E' /\ Len(line') = off' /\ todo' = Byte - 1 - off'
      <4>1. Len(line') = Len(line) + 1
        BY <2>3, <3>3, SoundFacts
      <4> QED
        BY <2>1, <2>2, <2>4, <2>5, <3>3, <4>1 DEF E
    <3>6. ASSUME NEW i \in 1..(off + 1) PROVE line'[i] = tmpl[i]
      <4>1. line \in Seq(Chars)
        BY <2>3, SoundFacts
      <4>2. /\ \A j \in 1..Len(line) : Append(line, tmpl[off + 1])[j] = line[j]
            /\ Append(line, tmpl[off + 1])[Len(line) + 1] = tmpl[off + 1]
        BY <4>1
      <4>3. CASE i = off + 1
        BY <2>2, <3>3, <4>2, <4>3
      <4>4. CASE i # off + 1
        <5>1. i \in 1..off
          BY <2>4, <4>4
        <5> QED
          BY <2>2, <3>3, <4>2, <5>1
      <4> QED
        BY <4>3, <4>4
    <3>7. ~astray' /\ \A i \in 1..(off') : line'[i] = tmpl'[i]
      BY <2>1, <2>2, <3>3, <3>6
    <3> QED
      BY <3>4, <3>5, <3>7 DEF RecallInv
  <2>6. CASE ~(off < E)
    <3>1. phase' = "keys" /\ line' = line
      BY <1>2, <2>6 DEF RecallByte
    <3>2. line = tmpl
      <4>1. line \in Seq(Chars) /\ tmpl \in Seq(Chars) /\ Len(line) = Len(tmpl)
        BY <2>2, <2>3, <2>4, <2>6, SoundFacts
      <4>2. \A i \in 1..Len(line) : line[i] = tmpl[i]
        BY <2>2
      <4> QED
        BY <4>1, <4>2, SeqEqual
    <3> QED
      BY <2>1, <3>1, <3>2 DEF RecallInv
  <2> QED
    BY <2>5, <2>6
<1>3. CASE CallAgain
  <2>1. phase = "done" /\ full
    BY <1>3 DEF CallAgain
  <2> QED
    BY <2>1 DEF RecallInv
<1>4. CASE UNCHANGED vars
  BY <1>4 DEF vars, RecallInv, E
<1>5. Type \/ CtrlA \/ InsertKey \/ CtrlJ \/ BS => ~full'
  BY DEF Type, CtrlA, InsertKey, CtrlJ, BS
<1>6. ClearLine \/ CtrlK \/ CtrlM \/ Skip \/ CursorRight => ~full'
  BY DEF ClearLine, CtrlK, CtrlM, Skip, CursorRight
<1>7. CtrlL \/ CtrlX => ~full'
  BY DEF CtrlL, CtrlX
<1> QED
  BY <1>1, <1>2, <1>3, <1>4, <1>5, <1>6, <1>7 DEF Next

\* Buffers that leave room for every count of register B.
ShortBuffers == Rooms \subseteq 0..(Byte - 2)

LEMMA SoundHolds ==
  OldLinesWhole /\ ShortBuffers /\ Spec
    => [](Types /\ RoomKept /\ PlaceInv /\ PairInv /\ Short)
<1>1. ShortBuffers /\ Init => Short
  <2> SUFFICES ASSUME ShortBuffers, Init PROVE room < Byte - 1
    BY DEF Short
  <2>1. room \in 0..(Byte - 2) /\ Byte \in Nat
    BY EditorAssumption DEF Init, ShortBuffers
  <2> QED
    BY <2>1
<1>2. Short /\ [Next]_vars => Short'
  BY RoomSame DEF Short
<1> QED
  BY <1>1, <1>2, PairsHold, PTL DEF Spec

\* An old line of any length is recalled as a whole: the checks that guard the
\* buffer never cut it.
THEOREM EditorRecall == OldLinesWhole /\ ShortBuffers /\ Spec => []RecallComplete
<1>1. Init => RecallInv
  BY DEF Init, RecallInv
<1>2. RecallInv => RecallComplete
  BY DEF RecallInv, RecallComplete
<1> QED
  BY <1>1, <1>2, RecallNext, SoundHolds, PTL DEF Spec

-----------------------------------------------------------------------------
(* The cursor.                                                             *)

\* The column where line s ends that begins in column c.
EndColumn(s, c) == ColumnAfter(s, Len(s), c)
ColumnInv == (phase # "done" /\ ~newline /\ ~astray) => col = EndColumn(line, start) % Byte

LEMMA EndType ==
  ASSUME NEW s \in Seq(Chars), NEW c \in Nat
  PROVE  EndColumn(s, c) \in Nat
<1>1. Len(s) \in Nat /\ Len(s) <= Len(s)
  OBVIOUS
<1> QED
  BY <1>1, ColumnType DEF EndColumn

LEMMA EndAppend ==
  ASSUME NEW s \in Seq(Chars), NEW c \in Nat, NEW x \in Chars
  PROVE  EndColumn(Append(s, x), c) = Behind(x, EndColumn(s, c))
<1> DEFINE t == Append(s, x)
           n == Len(s)
<1>1. n \in Nat /\ Len(t) = n + 1 /\ t[n + 1] = x /\ \A i \in 1..n : t[i] = s[i]
  OBVIOUS
<1> HIDE DEF t, n
<1>2. ColumnAfter(t, n + 1, c) = Behind(t[n + 1], ColumnAfter(t, n, c))
  <2>1. \A k \in Nat : ColumnAfter(t, k + 1, c) = Behind(t[k + 1], ColumnAfter(t, k, c))
    BY ColumnStep
  <2> QED
    BY <1>1, <2>1
<1>3. ColumnAfter(t, n, c) = ColumnAfter(s, n, c)
  BY <1>1, ColumnPrefix
<1>4. EndColumn(t, c) = Behind(x, ColumnAfter(s, n, c))
  BY <1>1, <1>2, <1>3 DEF EndColumn
<1> QED
  BY <1>4 DEF t, n, EndColumn

\* What a key writes: one character of the line, or both bytes of a graphic one.
LEMMA EndStored ==
  ASSUME NEW s \in Seq(Chars), NEW c \in Nat
  PROVE  /\ \A x \in Chars : EndColumn(s \o << x >>, c) = Behind(x, EndColumn(s, c))
         /\ EndColumn(s \o << "01", "A" >>, c) = Behind("A", EndColumn(s, c))
<1>1. ASSUME NEW x \in Chars PROVE EndColumn(s \o << x >>, c) = Behind(x, EndColumn(s, c))
  <2>1. s \o << x >> = Append(s, x)
    OBVIOUS
  <2> QED
    BY <2>1, EndAppend
<1>2. EndColumn(s \o << "01", "A" >>, c) = Behind("A", EndColumn(s, c))
  <2>1. "01" \in Chars /\ "A" \in Chars
    BY DEF Chars
  <2>2. s \o << "01", "A" >> = Append(Append(s, "01"), "A") /\ Append(s, "01") \in Seq(Chars)
    BY <2>1
  <2>3. EndColumn(Append(Append(s, "01"), "A"), c) = Behind("A", EndColumn(Append(s, "01"), c))
    BY <2>1, <2>2, EndAppend
  <2>4. EndColumn(Append(s, "01"), c) = EndColumn(s, c)
    <3>1. EndColumn(Append(s, "01"), c) = Behind("01", EndColumn(s, c))
      BY <2>1, EndAppend
    <3> QED
      BY <3>1 DEF Behind
  <2> QED
    BY <2>2, <2>3, <2>4
<1> QED
  BY <1>1, <1>2

\* The cursor follows the characters that are echoed.
LEMMA EchoEnds ==
  ASSUME Types, ColumnInv, NEW x \in Chars, Echo(x),
         phase # "done", ~newline, ~astray
  PROVE  col' = Behind(x, EndColumn(line, start)) % Byte
<1>1. line \in Seq(Chars) /\ start \in Nat
  BY DEF Types, TypeOK
<1>2. EndColumn(line, start) \in Nat
  BY <1>1, EndType
<1>3. col = EndColumn(line, start) % Byte
  BY DEF ColumnInv
<1>4. col' = Behind(x, col) % Byte
  BY DEF Echo
<1> QED
  BY <1>2, <1>3, <1>4, EchoRight

\* BS goes back to the column where the shorter line ends.
LEMMA RubbedRight ==
  ASSUME Sound, phase # "recall", col = EndColumn(line, start) % Byte
  PROVE  RubbedOut = EndColumn(SubSeq(line, 1, Len(line) - Removed), start) % Byte
<1> DEFINE n == Len(line)
           C(k) == ColumnAfter(line, k, start)
<1>1. line \in Seq(Chars) /\ n \in Nat /\ B = n /\ start \in Nat /\ Whole(line)
  BY SoundFacts DEF Sound, Types, TypeOK, Pairs
<1>2. Removed = IF n = 0 THEN 0 ELSE IF n > 1 /\ line[n - 1] = "01" THEN 2 ELSE 1
  BY <1>1 DEF Removed
<1>3. n - Removed \in 0..n
  BY <1>1, <1>2
<1>4. EndColumn(SubSeq(line, 1, n - Removed), start) = C(n - Removed)
  <2> DEFINE m == n - Removed
             t == SubSeq(line, 1, m)
  <2>1. Len(t) = m /\ \A i \in 1..m : t[i] = line[i]
    <3>1. CASE m = 0
      BY <1>1, <3>1
    <3>2. CASE m >= 1
      <4>1. 1 \in 1..n /\ m \in 1..n /\ 1 <= m
        BY <1>1, <1>3, <3>2
      <4> QED
        BY <1>1, <3>2, <4>1, SubSeqProperties
    <3> QED
      BY <1>1, <1>3, <3>1, <3>2
  <2> HIDE DEF t
  <2>2. ColumnAfter(t, m, start) = ColumnAfter(line, m, start)
    BY <1>3, <2>1, ColumnPrefix
  <2>3. EndColumn(t, start) = C(m)
    BY <2>1, <2>2 DEF EndColumn
  <2> QED
    BY <2>3 DEF t
<1>5. col = C(n) % Byte
  BY DEF EndColumn
<1>6. \A k \in 0..n : C(k) \in Nat
  BY <1>1, ColumnType
<1>7. \A k \in Nat : C(k + 1) = Behind(line[k + 1], C(k))
  BY ColumnStep
<1>8. \A x, k \in Int : ((x % Byte) + k) % Byte = (x + k) % Byte
  BY ByteAdds
<1> HIDE DEF C
<1>9. CASE Removed = 0
  BY <1>4, <1>5, <1>9 DEF RubbedOut
<1>10. CASE Removed = 2
  <2>1. n - 2 \in Nat /\ line[n - 1] = "01" /\ n >= 2
    BY <1>1, <1>2, <1>10
  <2>2. line[n] = "A"
    <3>1. n - 1 \in 1..n /\ (n - 1) + 1 = n
      BY <1>1, <2>1
    <3> QED
      BY <1>1, <2>1, <3>1 DEF Whole
  <2>3. C(n - 1) = C(n - 2)
    <3>1. (n - 2) + 1 = n - 1
      BY <1>1
    <3>2. C(n - 1) = Behind(line[n - 1], C(n - 2))
      BY <1>7, <2>1, <3>1
    <3> QED
      BY <2>1, <3>2 DEF Behind
  <2>4. C(n) = C(n - 1) + 1
    <3>1. (n - 1) + 1 = n /\ n - 1 \in Nat
      BY <1>1, <2>1
    <3>2. C(n) = Behind(line[n], C(n - 1))
      BY <1>7, <3>1
    <3> QED
      BY <2>2, <3>2 DEF Behind
  <2>5. C(n) \in Int /\ C(n - 2) \in Int /\ C(n) + (-1) = C(n - 2)
    BY <1>1, <1>6, <2>1, <2>3, <2>4
  <2>6. RubbedOut = (col - 1) % Byte
    BY <1>10 DEF RubbedOut
  <2>7. ((C(n) % Byte) + (-1)) % Byte = C(n - 2) % Byte
    BY <1>8, <2>5
  <2>8. C(n) % Byte \in Int
    BY <2>5, ByteType
  <2> QED
    BY <1>4, <1>5, <1>10, <2>6, <2>7, <2>8
<1>11. CASE Removed = 1
  <2>1. n >= 1 /\ n - 1 \in Nat /\ (n - 1) + 1 = n
    BY <1>1, <1>2, <1>11
  <2>2. line[n] \in Chars /\ line[n] # "01"
    <3>1. n \in 1..n
      BY <1>1, <2>1
    <3> QED
      BY <1>1, <3>1, ElementOfSeq DEF Whole
  <2>3. C(n) = Behind(line[n], C(n - 1))
    BY <1>7, <2>1
  <2>4. C(n) \in Int /\ C(n - 1) \in Int
    BY <1>1, <1>6, <2>1
  <2>5. C(n) % Byte \in Int
    BY <2>4, ByteType
  <2>6. CASE line[n] = "A"
    <3>1. RubbedOut = (col - 1) % Byte
      BY <1>11, <2>6 DEF RubbedOut
    <3>2. C(n) + (-1) = C(n - 1)
      BY <2>3, <2>4, <2>6 DEF Behind
    <3>3. ((C(n) % Byte) + (-1)) % Byte = C(n - 1) % Byte
      BY <1>8, <2>4, <3>2
    <3> QED
      BY <1>4, <1>5, <1>11, <2>5, <3>1, <3>3
  <2>7. CASE line[n] = "tab"
    BY <1>1, <1>4, <1>11, <2>7 DEF RubbedOut, C
  <2>8. CASE line[n] = "ctrl"
    <3>1. RubbedOut = (col - 2) % Byte
      BY <1>11, <2>8 DEF RubbedOut
    <3>2. C(n) + (-2) = C(n - 1)
      BY <2>3, <2>4, <2>8 DEF Behind
    <3>3. ((C(n) % Byte) + (-2)) % Byte = C(n - 1) % Byte
      BY <1>8, <2>4, <3>2
    <3> QED
      BY <1>4, <1>5, <1>11, <2>5, <3>1, <3>3
  <2> QED
    BY <2>2, <2>6, <2>7, <2>8 DEF Chars
<1> QED
  BY <1>2, <1>9, <1>10, <1>11

LEMMA ColumnNext ==
  Types /\ RoomKept /\ PlaceInv /\ PairInv /\ Short /\ ColumnInv /\ [Next]_vars => ColumnInv'
<1> SUFFICES ASSUME Types, RoomKept, PlaceInv, PairInv, Short, ColumnInv, [Next]_vars
             PROVE  ColumnInv'
  OBVIOUS
<1>0. line \in Seq(Chars) /\ start \in Nat /\ start \in 0..(Byte - 1) /\ Byte \in Nat
  BY Lengths DEF Types, TypeOK
<1>u. ASSUME UNCHANGED << line, start, col, newline >>, phase # "done", ~astray' => ~astray
      PROVE  ColumnInv'
  BY <1>u DEF ColumnInv, EndColumn
\* A new line begins where the cursor is.
<1>e. ASSUME NEW old, NEW c \in 0..(Byte - 1), Entry(old, c) PROVE ColumnInv'
  <2>1. line' = << >> /\ start' = c /\ col' = c
    BY <1>e DEF Entry
  <2>2. EndColumn(<< >>, c) = c
    <3>1. ColumnAfter(<< >>, 0, c) = c
      BY ColumnStep
    <3> QED
      BY <3>1 DEF EndColumn
  <2>3. c % Byte = c
    BY <1>0
  <2> QED
    BY <2>1, <2>2, <2>3 DEF ColumnInv
\* A byte or a graphic character behind the line.
<1>w. ASSUME UNCHANGED << start, newline >>, phase # "done", ~astray' => ~astray,
             NEW x \in Chars, Echo(x),
             EndColumn(line', start) = Behind(x, EndColumn(line, start))
      PROVE  ColumnInv'
  BY <1>w, EchoEnds DEF ColumnInv
<1>1. CASE Type
  <2>1. phase # "done" /\ UNCHANGED << start, newline >>
    BY <1>1 DEF Type, Ready
  <2>2. PICK x \in Chars \ {"01"} : IF Fits(1) THEN Store(<< x >>, x) ELSE Refuse
    BY <1>1 DEF Type
  <2>3. CASE Store(<< x >>, x)
    <3>1. line' = line \o << x >> /\ Echo(x) /\ (~astray' => ~astray)
      BY <2>3 DEF Store, Advance
    <3>2. EndColumn(line', start) = Behind(x, EndColumn(line, start))
      BY <1>0, <3>1, EndStored
    <3> QED
      BY <1>w, <2>1, <3>1, <3>2
  <2>4. CASE Refuse
    BY <1>u, <2>1, <2>4 DEF Refuse
  <2> QED
    BY <2>2, <2>3, <2>4
<1>2. CASE CtrlA
  <2>1. phase # "done" /\ UNCHANGED << start, newline >> /\ "A" \in Chars
    BY <1>2 DEF CtrlA, Ready, Chars
  <2>2. CASE Store(<< "01", "A" >>, "A")
    <3>1. line' = line \o << "01", "A" >> /\ Echo("A") /\ (~astray' => ~astray)
      BY <2>2 DEF Store, Advance
    <3>2. EndColumn(line', start) = Behind("A", EndColumn(line, start))
      BY <1>0, <3>1, EndStored
    <3> QED
      BY <1>w, <2>1, <3>1, <3>2
  <2>3. CASE Refuse
    BY <1>u, <2>1, <2>3 DEF Refuse
  <2> QED
    BY <1>2, <2>2, <2>3 DEF CtrlA
<1>3. CASE InsertKey \/ Skip \/ Recall \/ CursorRight \/ CtrlL
  <2>1. phase # "done" /\ UNCHANGED << line, start, col, newline, astray >>
    BY <1>3 DEF InsertKey, Skip, Recall, CursorRight, CtrlL, Ready, cursor
  <2> QED
    BY <1>u, <2>1
<1>4. CASE CtrlJ
  BY <1>4 DEF CtrlJ, ColumnInv
<1>5. CASE BS
  <2> SUFFICES ASSUME ~newline, ~astray PROVE col' = EndColumn(line', start') % Byte
    BY <1>5 DEF BS, ColumnInv
  <2>1. phase = "keys" /\ start' = start /\ col' = RubbedOut
        /\ line' = SubSeq(line, 1, Len(line) - Removed)
    BY <1>5 DEF BS, Ready
  <2>2. Sound
    BY DEF Sound, PairInv, Short
  <2>3. col = EndColumn(line, start) % Byte
    BY <2>1 DEF ColumnInv
  <2> QED
    BY <2>1, <2>2, <2>3, RubbedRight
<1>6. CASE ClearLine
  BY <1>0, <1>6, <1>e DEF ClearLine
<1>7. CASE CtrlK
  BY <1>0, <1>7, <1>e DEF CtrlK
<1>8. CASE CtrlM
  BY <1>8 DEF CtrlM, ColumnInv
<1>9. CASE CallAgain
  <2>1. PICK c \in Starts : Entry(line, c)
    BY <1>9 DEF CallAgain
  <2>2. c \in 0..(Byte - 1)
    BY EditorAssumption
  <2> QED
    BY <1>e, <2>1, <2>2
<1>10. CASE RecallByte
  <2>1. phase # "done" /\ UNCHANGED << start, newline, astray >>
    BY <1>10 DEF RecallByte
  <2>2. CASE UNCHANGED << line, col >>
    BY <1>u, <2>1, <2>2
  <2>3. CASE ~UNCHANGED << line, col >>
    <3>1. PICK x \in At(ptr) : line' = Append(line, x) /\ Echo(x)
      BY <1>10, <2>3 DEF RecallByte
    <3>2. x \in Chars
      BY AtType DEF Types, TypeOK
    <3>3. EndColumn(line', start) = Behind(x, EndColumn(line, start))
      BY <1>0, <3>1, <3>2, EndAppend
    <3> QED
      BY <1>w, <2>1, <3>1, <3>2, <3>3
  <2> QED
    BY <2>2, <2>3
<1>11. CASE CtrlX
  <2>1. phase # "done" /\ UNCHANGED << line, start, col, newline >> /\ (~astray' => ~astray)
    BY <1>11 DEF CtrlX, Ready, cursor
  <2> QED
    BY <1>u, <2>1
<1>12. CASE UNCHANGED vars
  BY <1>12 DEF vars, ColumnInv, EndColumn
<1> QED
  BY <1>1, <1>2, <1>3, <1>4, <1>5, <1>6, <1>7, <1>8, <1>9, <1>10, <1>11, <1>12 DEF Next

\* The cursor is at the end of the line, for lines and templates of any length,
\* also where the column has passed 255 and is kept as a byte: what BS rubs out
\* is as wide as what it removes.
THEOREM EditorColumn == OldLinesWhole /\ ShortBuffers /\ Spec => []ColumnRight
<1>1. Init => ColumnInv
  <2> SUFFICES ASSUME Init PROVE col = EndColumn(line, start) % Byte
    BY DEF ColumnInv
  <2>1. line = << >> /\ col = start /\ start \in 0..(Byte - 1) /\ Byte \in Nat
    BY EditorAssumption DEF Init
  <2>2. ColumnAfter(<< >>, 0, start) = start
    BY ColumnStep
  <2>3. start % Byte = start
    BY <2>1
  <2> QED
    BY <2>1, <2>2, <2>3 DEF EndColumn
<1>2. ColumnInv => ColumnRight
  BY DEF ColumnInv, ColumnRight, EndColumn
<1> QED
  BY <1>1, <1>2, ColumnNext, SoundHolds, PTL DEF Spec
=============================================================================
