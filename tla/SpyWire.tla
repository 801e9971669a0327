------------------------------ MODULE SpyWire ------------------------------
(***************************************************************************)
(* The wire formats of the remote BDOS calls, four tables by function:     *)
(*                                                                         *)
(*   Sent[f]      what the resident Net-BDOS sends after the function code *)
(*   Expected[f]  what the host waits for before it executes f             *)
(*   Reply[f]     what the host sends back                                 *)
(*   Wanted[f]    what the resident Net-BDOS then waits for                *)
(*                                                                         *)
(* The two programs hold these tables apart, in Z80 assembler and in C++,  *)
(* and nothing in the code compares them.  Functions are named as in       *)
(* spydata.h; "FXX" stands for every code that the workstation can send    *)
(* and the host does not know (1Ch-20h, 25h, 29h).                         *)
(*                                                                         *)
(* A wire unit is one byte, or one chunk: its two length bytes and as many *)
(* bytes as they say (possibly none).  Nothing in either program acts      *)
(* between two bytes of a chunk.  "one" is the byte 01h, told apart        *)
(* because it may equal the number of the workstation.                     *)
(***************************************************************************)
LOCAL INSTANCE Sequences

BYTE == << "byte" >>
WORD == BYTE \o BYTE
FCB  == << "fcb" >>
DMA  == << "dma" >>

\* SendDebugBlock: six words that precede the arguments of 21h, 26h and 27h.
DebugBlock == WORD \o WORD \o WORD \o WORD \o WORD \o WORD

Codes == { "F0E", "F0F", "F10", "F11", "F12", "F13", "F14", "F15", "F16",
           "F17", "F18", "F19", "F21", "F22", "F23", "F24", "F26", "F27",
           "F28", "F2F", "F30", "FXX" }

Sent ==
  [ f \in Codes |->
      CASE f = "F0E" -> BYTE
        [] f \in {"F15", "F22", "F28"} -> FCB \o DMA
        [] f = "F21" -> DebugBlock \o FCB
        [] f \in {"F26", "F27"} -> DebugBlock \o WORD \o FCB  \* 26h falls through
        [] f = "F2F" -> BYTE \o BYTE \o BYTE \o BYTE
        [] f \in {"F18", "F19", "F30", "FXX"} -> << >>
        [] OTHER -> FCB ]

Wanted ==
  [ f \in Codes |->
      CASE f \in {"F10", "F13", "F17", "F19", "F22"} -> BYTE
        [] f \in {"F0F", "F15", "F16", "F23", "F28"} -> FCB \o BYTE
        [] f \in {"F11", "F12"} -> DMA \o BYTE
        [] f \in {"F14", "F21"} -> DMA \o FCB \o BYTE
        [] f = "F18" -> WORD
        [] f = "F24" -> FCB
        [] f \in {"F26", "F27"} -> WORD \o DMA \o FCB \o BYTE
        [] f = "F2F" -> DMA
        [] f \in {"F0E", "F30", "FXX"} -> << >> ]

Expected ==
  [ f \in Codes |->
      CASE f = "F0E" -> BYTE
        [] f \in {"F15", "F22"} -> FCB \o DMA
        [] f = "F21" -> WORD \o WORD \o WORD \o WORD \o WORD \o WORD \o FCB
        [] f = "F26" -> WORD \o DMA \o FCB
        [] f = "F27" -> WORD \o WORD \o WORD \o WORD \o WORD \o WORD \o WORD \o FCB
        [] f = "F28" -> DMA \o FCB
        [] f = "F2F" -> WORD \o BYTE \o BYTE
        [] f = "F30" -> WORD \o BYTE \o BYTE \o DMA
        [] f \in {"F18", "F19", "FXX"} -> << >>
        [] OTHER -> FCB ]

\* The row of FXX is never sent: ExecFunc leaves the response unset.
Reply ==
  [ f \in Codes |->
      CASE f = "F0E" -> << "one" >>
        [] f \in {"F10", "F13", "F17", "F19", "F22"} -> BYTE
        [] f \in {"F0F", "F15", "F16", "F23"} -> FCB \o BYTE
        [] f \in {"F11", "F12"} -> DMA \o BYTE
        [] f \in {"F14", "F21"} -> DMA \o FCB \o BYTE
        [] f = "F18" -> WORD
        [] f = "F27" -> WORD \o DMA \o FCB \o BYTE
        [] f = "F2F" -> DMA
        [] f \in {"F24", "F26", "F28", "F30", "FXX"} -> << >> ]

\* Both sides describe f by the same formats.  A reply that nobody waits for
\* is tolerated when it is made of 01h bytes only, as that of 0Eh is.
Agrees(f) ==
  /\ f # "FXX"
  /\ Expected[f] = Sent[f]
  /\ \/ Reply[f] = Wanted[f]
     \/ Wanted[f] = << >> /\ \A i \in DOMAIN Reply[f] : Reply[f][i] = "one"
=============================================================================
