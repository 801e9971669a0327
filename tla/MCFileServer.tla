---------------------------- MODULE MCFileServer ----------------------------
(***************************************************************************)
(* FileServer for TLC.  The names of files are interchangeable.            *)
(***************************************************************************)
EXTENDS FileServer, TLC

\* What the comments of the handlers say of their results.  spybdos.h:103, "not
\* found": a file that is not there is answered, and the program serves on.
\* spybdos.h:493, "result: 01 = error, 0 if ok": what was written with result
\* 0 is in the file.
ResultsTrue == alive /\ RecordsKept

NameSymmetry == Permutations(Names)
=============================================================================
