----------------------------- MODULE MCStartup -----------------------------
(* Layouts for TLC, in a memory of 32 bytes.                               *)
EXTENDS Startup

Layout(s, b, e, n, c, sp) ==
  [start |-> s, jump |-> s + 4, boot |-> b, bootEnd |-> e, net |-> n, com |-> c, stack |-> sp]

\* The loader below the kernel, as it is now, with programs that end below it
\* and at its first byte; inside the kernel, before and behind the Net-BDOS, as
\* it once was; and where Fits fails: at the kernel's first byte, in the
\* Net-BDOS, a Net-BDOS that is too long, and the stack on the loader.  Stacks are
\* in the kernel, the Net-BDOS, the program, the BIOS and memory nobody sends.
SomeLayouts ==
  { Layout(18, 12, 15, 3, 2, 27), Layout(18, 12, 15, 4, 9, 12), Layout(18, 12, 15, 3, 0, 18),
    Layout(12, 14, 17, 2, 3, 24), Layout(12, 26, 28, 2, 0, 32),
    Layout(12, 12, 15, 2, 0, 20), Layout(12, 23, 25, 3, 0, 20), Layout(18, 12, 15, 9, 0, 18),
    Layout(18, 12, 15, 3, 2, 13) }
=============================================================================
