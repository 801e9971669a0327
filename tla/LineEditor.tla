----------------------------- MODULE LineEditor -----------------------------
(***************************************************************************)
(* Function 0Ah, buffered line input (inputline.inc): the line being       *)
(* edited, the line left in the caller's buffer by the call before (the    *)
(* template) with the place in it that editing has come to, and the        *)
(* column of the cursor by which characters are rubbed out.                *)
(*                                                                         *)
(* Registers and columns are bytes, and a graphic character is two bytes,  *)
(* 01 and a letter.  The keys come from CONIN (NetBdos), one by one.       *)
(***************************************************************************)
EXTENDS Integers, Sequences

CONSTANTS
  Byte,        \* values of a byte: 256
  Tab,         \* columns between tab stops: 8
  Rooms,       \* lengths of the buffers that programs pass (register C)
  Starts,      \* columns that the cursor is in when function 0Ah is called
  Templates,   \* lines that the buffers hold at first
  MaxLine,     \* bound: bytes in the line, for buffers of Byte - 1
  FollowAstray \* bound: FALSE ends the call once the place has gone astray

\* Bytes of a line: the head of a graphic character, a letter that may follow
\* it (40h..5Fh, or any other character alone), a control character, a tab.
Chars == {"01", "A", "ctrl", "tab"}

ASSUME EditorAssumption ==
  /\ Tab \in Nat \ {0} /\ Byte \in Nat /\ Byte > Tab /\ Byte > 2
  /\ Byte % Tab = 0 /\ Byte % 2 = 0
  /\ Rooms \subseteq 0..(Byte - 1) /\ Starts \subseteq 0..(Byte - 1)
  /\ Templates \subseteq Seq(Chars)
  /\ MaxLine \in Nat /\ FollowAstray \in BOOLEAN

VARIABLES
  phase,    \* the loop over keys, and where a handler waits for one more
  room,     \* register C
  line,     \* LineBuffer up to IX
  tmpl,     \* the template, of length E
  off,      \* register D: the place in the template
  ptr,      \* register HL: the same place, as a pointer
  insert,   \* InsertMode
  start,    \* Var_F238: the column where the line began
  col,      \* CursorPos_F237
  secret,   \* SecretMessageFlag: register B at the last CTRL+J
  todo,     \* bytes that RecallLine has still to take
  full,     \* history: the last key recalled the template, from its start
  newline,  \* history: CTRL+J has moved the cursor since the line began
  astray    \* history: register D has passed 255, or a search has ended inside
            \* a graphic character that was then taken in half

place == << off, ptr >>
cursor == << start, col, newline >>
vars == << phase, room, line, tmpl, off, ptr, insert, start, col, secret,
           todo, full, newline, astray >>

\* Register B counts the bytes of the line.
B == Len(line) % Byte
E == Len(tmpl)

\* The column behind character x written in column c, not cut to a byte.
Behind(x, c) ==
  CASE x = "01"   -> c
    [] x = "ctrl" -> c + 2
    [] x = "tab"  -> (c \div Tab + 1) * Tab
    [] OTHER      -> c + 1
\* The column behind the first n bytes of line s that begins in column c.
ColumnAfter(s, n, c) ==
  LET f[i \in 0..n] == IF i = 0 THEN c ELSE Behind(s[i], f[i - 1]) IN f[n]

\* EchoControlCharacter.
Echo(x) == col' = Behind(x, col) % Byte

\* What HL points to: behind the template is memory of the program.
At(p) == IF p \in 0..(E - 1) THEN { tmpl[p + 1] } ELSE Chars

\* Mutant of Entry: a line that fills the buffer is a template, too.
Entry_full(old, c) ==
  /\ phase' = "keys" /\ line' = << >>
  /\ tmpl' = IF Len(old) <= room THEN old ELSE << >>
  /\ off' = 0 /\ ptr' = 0
  /\ insert' = FALSE
  /\ start' = c /\ col' = c /\ newline' = FALSE

\* BufferedInputEntry: the buffer's old line is the template if it is shorter
\* than the buffer and a CR follows it.
Entry(old, c) ==
  /\ phase' = "keys" /\ line' = << >>
  /\ tmpl' = IF Len(old) < room THEN old ELSE << >>
  /\ off' = 0 /\ ptr' = 0
  /\ insert' = FALSE
  /\ start' = c /\ col' = c /\ newline' = FALSE

Init ==
  /\ phase = "keys" /\ line = << >> /\ room \in Rooms
  /\ tmpl \in { t \in Templates : Len(t) < room } \union { << >> }
  /\ off = 0 /\ ptr = 0
  /\ insert = FALSE
  /\ start \in Starts /\ col = start /\ newline = FALSE
  /\ secret = 0 /\ todo = 0
  /\ full = FALSE /\ astray = FALSE

\* The loop over keys.  A handler that waits for one more key is one action with
\* it, since nothing else happens: CTRL+A with the letter after it (with any
\* other key, that key), CTRL+L and SELECT with what they look for.
Ready == phase = "keys" /\ (astray => FollowAstray)

-----------------------------------------------------------------------------
(* Characters.                                                             *)

\* The place moves over one character of the template, in steps of a byte or
\* of a graphic character; at its end only register D moves.
Advance ==
  LET d == (off + 1) % Byte
  IN /\ ~ (astray /\ d = 0)                      \* bound: one turn of D
     /\ astray' = (astray \/ d = 0)
     /\ IF d > E THEN off' = d /\ ptr' = ptr
        ELSE \E x \in At(ptr) :
               IF x = "01" THEN off' = d + 1 /\ ptr' = ptr + 2
                           ELSE off' = d /\ ptr' = ptr + 1

\* NormalChar behind its check, for the bytes s of a character.
Store(s, x) ==
  /\ Len(line) + Len(s) <= MaxLine
  /\ line' = line \o s
  /\ Echo(x)
  /\ IF insert THEN UNCHANGED << place, astray >> ELSE Advance
Refuse == UNCHANGED << line, col, place, astray >>            \* the bell

\* Mutant of Fits: the last place of the buffer counts twice.
Fits_oneMore(n) == (B + n - 1) % Byte <= room

\* The checks before one more byte, and before one more and its successor.
Fits(n) == (B + n - 1) % Byte < room

Type ==
  /\ Ready
  /\ \E x \in Chars \ {"01"} : IF Fits(1) THEN Store(<< x >>, x) ELSE Refuse
  /\ full' = FALSE
  /\ UNCHANGED << phase, room, tmpl, insert, start, newline, secret, todo >>

\* CtrlA with a letter.
CtrlA ==
  /\ Ready
  /\ IF Fits(2) THEN Store(<< "01", "A" >>, "A") ELSE Refuse
  /\ full' = FALSE
  /\ UNCHANGED << phase, room, tmpl, insert, start, newline, secret, todo >>

\* Insert mode leaves the place in the template alone.
InsertKey ==
  /\ Ready
  /\ insert' = ~insert
  /\ full' = FALSE
  /\ UNCHANGED << phase, room, line, tmpl, place, cursor, secret, todo, astray >>

CtrlJ ==
  /\ Ready
  /\ secret' = IF B % (Byte \div 2) = Byte \div 2 - 1 THEN B ELSE 0  \* what may match
  /\ col' = 0 /\ newline' = TRUE
  /\ full' = FALSE
  /\ UNCHANGED << phase, room, line, tmpl, place, insert, start, todo, astray >>

-----------------------------------------------------------------------------
(* Removing.                                                               *)

\* The place moves back over one character of the template.
Retreat ==
  /\ IF insert \/ off = 0 THEN UNCHANGED << off, ptr >>
     ELSE IF off - 1 >= E THEN off' = off - 1 /\ ptr' = ptr
     ELSE IF off = 1 THEN off' = 0 /\ ptr' = ptr - 1
     ELSE \E x \in At(ptr - 2) :
            IF x = "01" THEN off' = off - 2 /\ ptr' = ptr - 2
                        ELSE off' = off - 1 /\ ptr' = ptr - 1

\* Mutant of Removed: the head of a graphic character stays.
Removed_half == IF B = 0 THEN 0 ELSE 1

\* Bytes that BS takes from the line.
Removed ==
  IF B = 0 THEN 0
  ELSE IF B > 1 /\ line[Len(line) - 1] = "01" THEN 2 ELSE 1

\* Mutant of RubbedOut: a tab is one column wide.
RubbedOut_tab ==
  IF Removed = 0 THEN col
  ELSE IF line[Len(line)] = "ctrl" THEN (col - 2) % Byte ELSE (col - 1) % Byte

\* The column to which BS rubs out what it removes; for a tab it is worked out
\* from the bytes before it.
RubbedOut ==
  LET x == line[Len(line)]
  IN IF Removed = 0 THEN col
     ELSE IF Removed = 2 \/ x = "A" THEN (col - 1) % Byte
     ELSE IF x = "tab" THEN ColumnAfter(line, B - 1, start) % Byte
     ELSE (col - 2) % Byte

\* (flag AND B) = 7Fh.
SecretTold ==
  LET half == Byte \div 2
  IN /\ secret % half = half - 1 /\ B % half = half - 1
     /\ ~ (secret = Byte - 1 /\ B = Byte - 1)

BS ==
  /\ Ready /\ ~SecretTold
  /\ line' = SubSeq(line, 1, Len(line) - Removed)
  /\ col' = RubbedOut
  /\ Retreat
  /\ full' = FALSE
  /\ UNCHANGED << phase, room, tmpl, insert, start, newline, secret, todo, astray >>

\* ClearLine (CTRL+U, ESC, cursor up), and all over again.
ClearLine ==
  /\ Ready
  /\ Entry(tmpl, start)
  /\ full' = FALSE
  /\ UNCHANGED << room, secret, todo, astray >>

\* KillLine: what goes to the caller's buffer.
Killed == SubSeq(line, 1, B)

\* CTRL+K, and BS when the secret message was asked for: the line goes to the
\* buffer, the cursor to the same column of the next line, and all over again.
CtrlK ==
  /\ Ready
  /\ Entry(Killed, start)
  /\ secret' \in {secret} \union (IF SecretTold THEN {0} ELSE {})
  /\ full' = FALSE
  /\ UNCHANGED << room, todo, astray >>

\* CTRL+M ends the call.
CtrlM ==
  /\ Ready
  /\ line' = Killed
  /\ col' = 0
  /\ phase' = "done" /\ full' = FALSE
  /\ UNCHANGED << room, tmpl, place, insert, start, newline, secret, todo, astray >>

\* The program calls again with the buffer as it was filled.
CallAgain ==
  /\ phase = "done"
  /\ \E c \in Starts : Entry(line, c)
  /\ UNCHANGED << room, secret, todo, full, astray >>

-----------------------------------------------------------------------------
(* The template.                                                           *)

\* Mutant of Skip: a graphic character is passed in two steps by D only.
Skip_half ==
  /\ Ready
  /\ IF off < E THEN \E x \in At(ptr) :
                       off' = (IF x = "01" THEN off + 2 ELSE off + 1) /\ ptr' = ptr + 1
                ELSE UNCHANGED << off, ptr >>
  /\ full' = FALSE
  /\ UNCHANGED << phase, room, line, tmpl, insert, cursor, secret, todo, astray >>

\* DEL passes one character of the template.
Skip ==
  /\ Ready
  /\ IF off < E THEN \E x \in At(ptr) :
                       LET n == IF x = "01" THEN 2 ELSE 1
                       IN off' = off + n /\ ptr' = ptr + n
                ELSE UNCHANGED << off, ptr >>
  /\ full' = FALSE
  /\ UNCHANGED << phase, room, line, tmpl, insert, cursor, secret, todo, astray >>

\* Cursor down takes the rest of the template, cursor right one character.
Recall ==
  /\ Ready
  /\ todo' = Byte - 1 /\ full' = (line = << >> /\ off = 0 /\ ~astray)
  /\ insert' = FALSE
  /\ phase' = "recall"
  /\ UNCHANGED << room, line, tmpl, place, cursor, secret, astray >>

CursorRight ==
  /\ Ready
  /\ \E x \in At(ptr) : todo' = IF x = "01" THEN 2 ELSE 1
  /\ insert' = FALSE
  /\ phase' = "recall" /\ full' = FALSE
  /\ UNCHANGED << room, line, tmpl, place, cursor, secret, astray >>

\* Mutant of RecallByte: the last byte of the template is not taken.
RecallByte_early ==
  /\ phase = "recall"
  /\ \E x \in At(ptr) :
       IF off + 1 < E /\ Fits(1) /\ (x = "01" => Fits(2))
         THEN /\ Len(line) < MaxLine
              /\ line' = Append(line, x) /\ Echo(x)
              /\ off' = off + 1 /\ ptr' = ptr + 1 /\ todo' = todo - 1
              /\ phase' = IF todo = 1 THEN "keys" ELSE "recall"
         ELSE phase' = "keys" /\ todo' = 0 /\ UNCHANGED << line, col, off, ptr >>
  /\ UNCHANGED << room, tmpl, insert, start, newline, secret, full, astray >>

\* RecallLine takes byte by byte, to the end of the template or of the buffer,
\* and no head of a graphic character that has no room.
RecallByte ==
  /\ phase = "recall"
  /\ \E x \in At(ptr) :
       IF off < E /\ Fits(1) /\ (x = "01" => Fits(2))
         THEN /\ Len(line) < MaxLine
              /\ line' = Append(line, x) /\ Echo(x)
              /\ off' = off + 1 /\ ptr' = ptr + 1 /\ todo' = todo - 1
              /\ phase' = IF todo = 1 THEN "keys" ELSE "recall"
         ELSE phase' = "keys" /\ todo' = 0 /\ UNCHANGED << line, col, off, ptr >>
  /\ UNCHANGED << room, tmpl, insert, start, newline, secret, full, astray >>

Whole(s) ==
  \A i \in 1..Len(s) : s[i] = "01" => i < Len(s) /\ s[i + 1] = "A"

\* Distances at which Unexplainable may find byte x behind the character at the
\* place, or a graphic character: the first one, or 0 for none.  Where the
\* pointer is not at the place, or heads stand alone, the outcome is left open.
Distances(x, graphic) ==
  LET last == E - off - 1
      first == IF ptr < E /\ tmpl[ptr + 1] = "01" THEN 2 ELSE 1
      hits == { k \in first..last :
                  IF graphic THEN tmpl[ptr + k + 1] = "01" ELSE tmpl[ptr + k + 1] = x }
  IN IF last < 1 THEN {0}
     ELSE IF ptr # off \/ ~Whole(tmpl) THEN 0..last
     ELSE IF hits = {} THEN {0}
     ELSE { CHOOSE k \in hits : \A j \in hits : k <= j }

\* What Unexplainable is given: a byte, or CTRL+A and a letter.  "A" alone may be
\* found in a graphic character; CTRL+A with any other key looks for that byte.
Sought == { << x, FALSE >> : x \in Chars } \union { << "A", TRUE >> }

\* CTRL+L passes what is before the character found ...
CtrlL ==
  /\ Ready
  /\ \E s \in Sought : \E k \in Distances(s[1], s[2]) : off' = off + k /\ ptr' = ptr + k
  /\ full' = FALSE
  /\ UNCHANGED << phase, room, line, tmpl, insert, cursor, secret, todo, astray >>

\* ... and SELECT (CTRL+X) takes it.
CtrlX ==
  /\ Ready
  /\ \E s \in Sought : \E k \in Distances(s[1], s[2]) :
       IF k = 0 THEN UNCHANGED << phase, insert, todo, astray >>
       ELSE /\ phase' = "recall" /\ todo' = k /\ insert' = FALSE
            /\ astray' = (astray \/ "01" \in At(ptr + k - 1))
  /\ full' = FALSE
  /\ UNCHANGED << room, line, tmpl, place, cursor, secret >>

-----------------------------------------------------------------------------
Next ==
  \/ Type \/ CtrlA \/ InsertKey \/ CtrlJ \/ BS \/ ClearLine
  \/ CtrlK \/ CtrlM \/ CallAgain \/ Skip \/ Recall \/ CursorRight
  \/ RecallByte \/ CtrlL \/ CtrlX

Spec == Init /\ [][Next]_vars

-----------------------------------------------------------------------------
(* Properties.                                                             *)

\* Types; the place in the template is a byte, and so is what is to be recalled.
TypeOK ==
  /\ phase \in {"keys", "recall", "done"}
  /\ room \in Rooms /\ line \in Seq(Chars) /\ Len(line) <= MaxLine
  /\ tmpl \in Seq(Chars) /\ (E > 0 => E < room)
  /\ off \in 0..(Byte - 1) /\ ptr \in Nat
  /\ insert \in BOOLEAN /\ newline \in BOOLEAN /\ full \in BOOLEAN /\ astray \in BOOLEAN
  /\ start \in 0..(Byte - 1) /\ col \in 0..(Byte - 1) /\ secret \in 0..(Byte - 1)
  /\ todo \in 0..(Byte - 1)

\* Whatever is typed and recalled, the line stays in the caller's buffer: the
\* checks of NormalChar, CtrlA and RecallLine.  A buffer of 255 bytes is the
\* exception: with 255 bytes in it the check of CtrlA wraps (inputline.inc:206).
RoomKept == room < Byte - 1 => Len(line) <= room

\* The cursor is where the line, as it stands, ends on the screen, so that BS
\* rubs out as many columns as the character has that it removes: through
\* tabs, control and graphic characters, recalls and killed lines.
ColumnRight ==
  (phase # "done" /\ ~newline /\ ~astray /\ Len(line) <= room) =>
     col = ColumnAfter(line, Len(line), start) % Byte

\* The two places in the template, a counter and a pointer, go together
\* through typing over it, passing, recalling and going back, unless the counter
\* has passed 255 or a head stands alone: what is recalled is the old line.
PlaceRight == (~astray /\ Whole(tmpl) /\ off < E) => ptr = off

\* No half of a graphic character is in a line, unless SELECT looked for a letter
\* and found that of a graphic character.
PairsWhole ==
  (phase # "recall" /\ ~astray /\ room < Byte - 1) => Whole(line)

\* A line that was entered or killed can be recalled as a whole in the next
\* call with the same buffer, whatever the handlers did to it.
RecallComplete == (phase = "keys" /\ full) => line = tmpl
=============================================================================
