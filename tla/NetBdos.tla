------------------------------ MODULE NetBdos ------------------------------
(***************************************************************************)
(* The resident part of the workstation (spy_bdos_e900.asm) as a program   *)
(* meets it: the range checks and the dispatch of a BDOS call, the console *)
(* functions with their one character of look-ahead (F336h/F337h), and     *)
(* what a disk call does to the CAPS lamp and the keyboard while it waits  *)
(* for the host.  The call itself is SpyLink; here the host just comes.    *)
(*                                                                         *)
(* One thread of the workstation runs against the keyboard interrupt, and  *)
(* the user holds keys down.  Keys are numbered in the order typed.        *)
(***************************************************************************)
EXTENDS Integers, Sequences

CONSTANTS
  Numbers,      \* the numbers that programs put in register C
  BufferMax,    \* keys that the BIOS keyboard buffer holds (external)
  MaxKeys,      \* bound: keys typed
  MaxPresses    \* bound: presses of the CAPS key

ASSUME NetBdosAssumption ==
  /\ Numbers \subseteq 0..255
  /\ BufferMax \in Nat \ {0} /\ MaxKeys \in Nat /\ MaxPresses \in Nat

VARIABLES
  phase,     \* where the thread stands
  fn,        \* register C
  acc,       \* register A while CAPST is copied
  caps,      \* CAPST is not 0
  lamp,      \* the CAPS light is on
  buffer,    \* the keys between GETPNT and PUTPNT
  put,       \* register HL in ClearKeyboardBuffer: keys before PUTPNT
  latch,     \* the look-ahead character: << >> while F336h is 0
  stopDown,  \* the user holds CTRL and STOP
  escDown,   \* the user holds ESC
  typed,     \* the last key typed
  taken,     \* history: the keys that programs were given
  again,     \* history: keys given although they stayed in the latch
  told,      \* history: which status call reported a key not yet read
  presses,   \* history: presses of the CAPS key
  dropped,   \* history: presses that CAPST does not know of
  stale,     \* history: why the lamp may be wrong
  escAt      \* history: the last key typed when ESC cleared the buffer

thread == << phase, fn, acc >>
lampVars == << caps, lamp, presses, dropped, stale >>
keyVars == << buffer, latch, typed >>
user == << stopDown, escDown >>
seen == << taken, again, told >>
vars == << phase, fn, acc, caps, lamp, buffer, put, latch, stopDown, escDown,
           typed, taken, again, told, presses, dropped, stale, escAt >>

Stop == 0                 \* the character 3; keys are 1, 2, ...
Keys(s) == IF s = << Stop >> THEN << >> ELSE s
TableSize == 49           \* entries of DispatchTable, functions 0..30h
NoDisk == {26, 27, 42, 43, 44, 45, 46}      \* 1Ah, 1Bh, 2Ah..2Eh

\* Between the reading of CAPST and the writing of the lamp.
Copying == {"toggleStore", "toggleLamp", "restoreStore", "restoreLamp"}
Phases == {"idle", "spin", "conin", "listen", "run", "escGet", "escPut",
           "escSet", "astray"} \union Copying

Init ==
  /\ phase = "idle" /\ fn = 0 /\ acc = FALSE
  /\ caps = FALSE /\ lamp = FALSE
  /\ buffer = << >> /\ put = 0 /\ latch = << >> /\ typed = 0
  /\ stopDown = FALSE /\ escDown = FALSE
  /\ taken = << >> /\ again = {} /\ told = "none"
  /\ presses = 0 /\ dropped = 0 /\ stale = "no" /\ escAt = 0

-----------------------------------------------------------------------------
(* The user, and the keyboard interrupt of the BIOS (external).            *)

TypeKey ==
  /\ typed < MaxKeys
  /\ typed' = typed + 1
  /\ buffer' = IF Len(buffer) < BufferMax THEN Append(buffer, typed') ELSE buffer
  /\ escDown' \in {escDown, TRUE}               \* it may be the ESC key
  /\ UNCHANGED << thread, lampVars, put, latch, stopDown, seen, escAt >>

HoldStop ==
  /\ stopDown' = ~stopDown
  /\ UNCHANGED << thread, lampVars, keyVars, put, escDown, seen, escAt >>

LetEscGo ==
  /\ escDown /\ escDown' = FALSE
  /\ UNCHANGED << thread, lampVars, keyVars, put, stopDown, seen, escAt >>

\* The interrupt inverts CAPST and shows it.  CAPST is overwritten by what was
\* read before, or the lamp is.
PressCaps ==
  /\ presses < MaxPresses
  /\ presses' = presses + 1
  /\ caps' = ~caps /\ lamp' = ~caps
  /\ dropped' = IF phase \in {"toggleStore", "restoreStore"} THEN dropped + 1
                                                              ELSE dropped
  /\ stale' = IF phase = "restoreLamp" THEN "raced"
              ELSE IF phase = "idle" THEN "no" ELSE stale
  /\ UNCHANGED << thread, keyVars, put, user, seen, escAt >>

-----------------------------------------------------------------------------
(* The entry.                                                              *)

\* Numbers up to 0Dh and those of NoDisk go through the table, other numbers
\* up to 31h are disk calls, the rest returns at once.
Dispatch(n) ==
  IF n <= 13 \/ n \in NoDisk THEN "table"
  ELSE IF n > 49 THEN "refused" ELSE "disk"

\* The functions of the table that wait for a key, or just return (their
\* output is not modelled); status calls are actions of their own.
Enter ==
  /\ phase = "idle"
  /\ \E n \in Numbers :
       /\ fn' = n
       /\ \/ /\ Dispatch(n) = "table" /\ n \in {1, 7, 8}
             /\ phase' = IF n = 7 THEN "conin" ELSE "spin"
             /\ UNCHANGED << acc, stale >>
          \/ /\ Dispatch(n) = "disk"
             /\ phase' = "toggleStore"
             /\ acc' = caps
             /\ stale' = "waiting"
          \/ /\ Dispatch(n) = "refused" \/ (Dispatch(n) = "table" /\ n \notin {1, 6, 7, 8, 11})
             /\ UNCHANGED << phase, acc, stale >>
  /\ UNCHANGED << caps, lamp, presses, dropped, keyVars, put, user, seen, escAt >>

-----------------------------------------------------------------------------
(* The console.                                                            *)

\* Mutant of Const: the keyboard is asked although a character waits.
Const_forgets(nz) ==
  IF stopDown
    THEN nz /\ latch' = << Stop >> /\ buffer' = << >>
    ELSE IF buffer # << >>
      THEN latch' = << Head(buffer) >> /\ buffer' = Tail(buffer)
      ELSE nz = (latch # << >>) /\ UNCHANGED << latch, buffer >>

\* CONST_unsafe, with nz the flag it leaves.  STOP replaces the character
\* (and BREAKX empties the buffer, external).  A key that is fetched leaves the
\* flag to CHGET, which documents none.
Const(nz) ==
  IF stopDown
    THEN nz /\ latch' = << Stop >> /\ buffer' = << >>
    ELSE IF latch = << >> /\ buffer # << >>
      THEN latch' = << Head(buffer) >> /\ buffer' = Tail(buffer)
      ELSE nz = (latch # << >>) /\ UNCHANGED << latch, buffer >>

\* The CONST entry of the BIOS jump table.
ConstStatus ==
  /\ phase = "idle"
  /\ \E nz \in BOOLEAN :
       /\ Const(nz)
       /\ told' = IF nz THEN "latch" ELSE "none"
  /\ UNCHANGED << thread, lampVars, put, typed, user, taken, again, escAt >>

\* Mutant of FuncB: the buffer is asked for room.
FuncB_room ==
  /\ phase = "idle"
  /\ told' = IF Len(buffer) < BufferMax THEN "buffer" ELSE told
  /\ UNCHANGED << thread, lampVars, keyVars, put, user, taken, again, escAt >>

\* Function 0Bh asks the keyboard buffer only.
FuncB ==
  /\ phase = "idle"
  /\ told' = IF buffer # << >> THEN "buffer" ELSE told
  /\ UNCHANGED << thread, lampVars, keyVars, put, user, taken, again, escAt >>

\* CONIN_unsafe: the look-ahead character, or else a key of the buffer.
Take ==
  IF latch # << >>
    THEN taken' = taken \o Keys(latch) /\ latch' = << >> /\ UNCHANGED buffer
    ELSE /\ buffer # << >>
         /\ taken' = Append(taken, Head(buffer))
         /\ buffer' = Tail(buffer)
         /\ UNCHANGED latch

\* Function 6 with FFh: the look-ahead character goes through CONIN_unsafe; on
\* Z it is returned as it is, and stays when CHGET left that flag.
Func6 ==
  /\ phase = "idle" /\ 6 \in Numbers
  /\ \E nz \in BOOLEAN :
       \/ /\ stopDown /\ nz
          /\ buffer' = << >> /\ latch' = << >> /\ UNCHANGED << taken, again >>
       \/ /\ ~stopDown /\ nz /\ Take /\ UNCHANGED again
       \/ /\ ~stopDown /\ ~nz /\ latch = << >> /\ Const(nz)
          /\ taken' = taken \o latch'
          /\ again' = again \union { latch'[i] : i \in DOMAIN latch' }
  /\ told' = "none"
  /\ UNCHANGED << thread, lampVars, put, typed, user, escAt >>

\* Mutant of SpinEnds: functions 1 and 8 wait for the look-ahead character.
SpinEnds_latch ==
  /\ phase = "spin" /\ latch # << >>
  /\ phase' = "conin"
  /\ UNCHANGED << fn, acc, lampVars, keyVars, put, user, seen, escAt >>

\* Functions 1 and 8 wait until the buffer, not the latch, has a key.
SpinEnds ==
  /\ phase = "spin" /\ buffer # << >>
  /\ phase' = "conin"
  /\ UNCHANGED << fn, acc, lampVars, keyVars, put, user, seen, escAt >>

\* Mutant of ConIn: F336h is not cleared.
ConIn_keeps ==
  /\ phase = "conin"
  /\ IF latch # << >>
       THEN taken' = taken \o Keys(latch) /\ UNCHANGED << buffer, latch >>
       ELSE buffer # << >> /\ Take
  /\ phase' = "idle" /\ told' = "none"
  /\ UNCHANGED << fn, acc, lampVars, put, typed, user, again, escAt >>

\* Function 7, and the rest of 1 and 8.  (The character 3 sends function 1
\* to the warm boot, and the next program calls as this one did.)
ConIn ==
  /\ phase = "conin" /\ Take
  /\ phase' = "idle" /\ told' = "none"
  /\ UNCHANGED << fn, acc, lampVars, put, typed, user, again, escAt >>

-----------------------------------------------------------------------------
(* A disk call.                                                            *)

\* caps_light_on and caps_light_off write CAPST back ...
StoreCaps ==
  /\ \/ phase = "toggleStore" /\ phase' = "toggleLamp"
     \/ phase = "restoreStore" /\ phase' = "restoreLamp"
  /\ caps' = acc
  /\ UNCHANGED << fn, acc, lamp, presses, dropped, stale, keyVars, put, user, seen, escAt >>

\* Mutant of OutLamp: the lamp stays inverted after the call.
OutLamp_twice ==
  /\ \/ phase = "toggleLamp" /\ phase' = "listen" /\ lamp' = ~acc /\ UNCHANGED stale
     \/ /\ phase = "restoreLamp" /\ phase' = "idle" /\ lamp' = ~acc
        /\ stale' = IF stale = "raced" THEN stale ELSE "no"
  /\ UNCHANGED << fn, acc, caps, presses, dropped, keyVars, put, user, seen, escAt >>

\* ... and then switch the lamp: inverted while the call waits, right after it.
OutLamp ==
  /\ \/ phase = "toggleLamp" /\ phase' = "listen" /\ lamp' = ~acc /\ UNCHANGED stale
     \/ /\ phase = "restoreLamp" /\ phase' = "idle" /\ lamp' = acc
        /\ stale' = IF stale = "raced" THEN stale ELSE "no"
  /\ UNCHANGED << fn, acc, caps, presses, dropped, keyVars, put, user, seen, escAt >>

\* The poll of the host is answered (external: SpyLink has the host).
Polled ==
  /\ phase = "listen"
  /\ phase' = "run"
  /\ UNCHANGED << fn, acc, lampVars, keyVars, put, user, seen, escAt >>

\* CustomDispatch and the routine behind the table, then RestoreCAPS reads
\* CAPST.  Behind the table there is the code of Init.
Run ==
  /\ phase = "run"
  /\ IF fn < TableSize THEN phase' = "restoreStore" /\ acc' = caps
                       ELSE phase' = "astray" /\ UNCHANGED acc
  /\ UNCHANGED << fn, lampVars, keyVars, put, user, seen, escAt >>

\* ClearKeyboardBuffer: CHGET takes a key, and waits for one if need be ...
EscSeen ==
  /\ phase = "listen" /\ escDown
  /\ phase' = "escGet"
  /\ UNCHANGED << fn, acc, lampVars, keyVars, put, user, seen, escAt >>

EscGet ==
  /\ phase = "escGet" /\ buffer # << >>
  /\ buffer' = Tail(buffer)
  /\ told' = IF told = "buffer" THEN "none" ELSE told
  /\ phase' = "escPut"
  /\ UNCHANGED << fn, acc, lampVars, put, latch, typed, user, taken, again, escAt >>

\* Mutant of EscPut: PUTPNT is taken for the last key.
EscPut_next ==
  /\ phase = "escPut"
  /\ put' = Len(buffer) + 1 /\ escAt' = typed
  /\ phase' = "escSet"
  /\ UNCHANGED << fn, acc, lampVars, keyVars, user, seen >>

\* ... then PUTPNT is read ...
EscPut ==
  /\ phase = "escPut"
  /\ put' = Len(buffer) /\ escAt' = typed
  /\ phase' = "escSet"
  /\ UNCHANGED << fn, acc, lampVars, keyVars, user, seen >>

\* Mutant of EscSet: GETPNT is left alone.
EscSet_keeps ==
  /\ phase = "escSet"
  /\ phase' = "idle" /\ stale' = "escaped"
  /\ UNCHANGED << fn, acc, caps, lamp, presses, dropped, keyVars, put, user, seen, escAt >>

\* ... and written to GETPNT.  The lamp stays as it is.
EscSet ==
  /\ phase = "escSet"
  /\ buffer' = SubSeq(buffer, put + 1, Len(buffer))
  /\ phase' = "idle" /\ stale' = "escaped"
  /\ UNCHANGED << fn, acc, caps, lamp, presses, dropped, latch, typed, put, user, seen, escAt >>

-----------------------------------------------------------------------------
User == TypeKey \/ HoldStop \/ LetEscGo \/ PressCaps
Program == Enter \/ ConstStatus \/ FuncB \/ Func6
Thread == SpinEnds \/ ConIn \/ StoreCaps \/ OutLamp \/ Run
            \/ EscSeen \/ EscGet \/ EscPut \/ EscSet
Next == User \/ Program \/ Thread \/ Polled

Spec == Init /\ [][Next]_vars
\* The processor runs; nobody has to type, and no host has to poll.
FairSpec == Spec /\ WF_vars(Thread)

-----------------------------------------------------------------------------
(* Properties.                                                             *)

\* Types, and that the look-ahead holds one character.
TypeOK ==
  /\ phase \in Phases /\ fn \in Numbers \union {0} /\ acc \in BOOLEAN
  /\ caps \in BOOLEAN /\ lamp \in BOOLEAN
  /\ buffer \in Seq(1..typed) /\ Len(buffer) <= BufferMax
  /\ put \in 0..BufferMax
  /\ latch \in Seq(0..typed) /\ Len(latch) <= 1
  /\ stopDown \in BOOLEAN /\ escDown \in BOOLEAN
  /\ typed \in 0..MaxKeys
  /\ taken \in Seq(1..typed) /\ again \subseteq 0..typed
  /\ told \in {"none", "latch", "buffer"}
  /\ presses \in 0..MaxPresses /\ dropped \in 0..presses
  /\ stale \in {"no", "waiting", "raced", "escaped"}
  /\ escAt \in 0..typed

\* Through any mix of status calls, reads, STOP and ESC, keys reach the
\* programs in the order typed, each once; twice only a key that function 6
\* gave out of CONST when CHGET had left Z (spy_bdos_e900.asm:326, 1109).
KeysInOrder ==
  LET keys == taken \o latch \o buffer
  IN \A i, j \in 1..Len(keys) :
       (i < j /\ keys[i] # Stop /\ keys[j] # Stop) =>
         keys[i] < keys[j] \/ (keys[i] = keys[j] /\ keys[i] \in again)

\* The keys given, in the look-ahead or in the buffer.
Present(t, l, b) ==
  { t[i] : i \in DOMAIN t } \union { l[i] : i \in DOMAIN l } \union { b[i] : i \in DOMAIN b }

\* A key that was in the buffer or the look-ahead goes to a program unless STOP
\* is held at a status call (CONST overwrites F337h) or ESC ends a disk call.
KeysLostOnlyByUser ==
  [][ \/ Present(taken, latch, buffer) \ {Stop} \subseteq Present(taken', latch', buffer')
      \/ phase = "idle" /\ stopDown
      \/ phase \in {"escGet", "escSet"} ]_vars

\* ESC clears what was typed before it (ClearKeyboardBuffer), also when keys
\* arrive between PUTPNT being read and GETPNT being written; of the earlier
\* keys only the one in the look-ahead survives.
EscClears ==
  phase # "escSet" => \A i \in DOMAIN buffer : buffer[i] > escAt

\* A program told of a key does not wait in its next read: after function 0Bh in
\* any read, after CONST in functions 6 and 7 (functions 1 and 8 may wait with
\* the key in the look-ahead).
StatusKept ==
  /\ phase = "spin" /\ told = "buffer" => buffer # << >>
  /\ phase \in {"spin", "conin"} /\ told # "none" => latch \o buffer # << >>

\* CAPST follows the CAPS key across disk calls, which write back what they
\* have read; exactly the presses in between are lost.
CapsKept ==
  IF phase \in {"toggleStore", "restoreStore"}
    THEN acc = ((presses - dropped) % 2 = 1)
    ELSE caps = ((presses - dropped) % 2 = 1)

\* Outside disk calls the lamp shows CAPST, but after a call left by ESC, or a
\* press between the last two instructions of RestoreCAPS.
LampShowsCaps ==
  phase \in {"idle", "spin", "conin"} /\ stale = "no" => lamp = caps

\* The CAPS key, CAPST and the lamp agree through any disk calls, whose
\* ToggleCAPS and RestoreCAPS race with the key, with the exceptions above.
CapsTrue == CapsKept /\ LampShowsCaps

\* Of all numbers that pass the range checks only 31h, which has no entry in
\* DispatchTable, takes the thread to an address out of it.
DispatchedInTable == phase = "astray" => fn = 49

\* A read, and the way out by ESC, ends once there is a key in the buffer.
ReadReturns ==
  (phase \in {"spin", "conin", "escGet"} /\ buffer # << >>) ~> (phase = "idle")
=============================================================================
