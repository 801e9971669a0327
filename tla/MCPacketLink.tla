---------------------------- MODULE MCPacketLink ----------------------------
(***************************************************************************)
(* Sessions for PacketLink.  With blocks of two bytes and sectors of five, *)
(* a sector takes three packets, as the 128 bytes of the program do.       *)
(***************************************************************************)
EXTENDS PacketLink

Job(kind, bytes) == [kind |-> kind, bytes |-> bytes]

\* Copies of two sectors and a rest, and of two files; programs of one, two and
\* three blocks, in each of the ways to send them.
AllSessions == {
  << Job("copy", 12) >>,
  << Job("copy", 5), Job("copy", 7) >>,
  << Job("program", 4), Job("basic", 2) >>,
  << Job("basic", 5) >>,
  << Job("halves", 2) >>,
  << Job("boot", 3) >> }

OneCopy == { << Job("copy", 12) >> }
=============================================================================
