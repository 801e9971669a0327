---------------------------- MODULE MCDirSearch ----------------------------
(* Host names and patterns for the directory search, for TLC.              *)
EXTENDS DirSearch

File(s, e, d, u) == [stem |-> s, ext |-> e, dot |-> d, upper |-> u, fits |-> TRUE]

\* Twins, a name without extension, one in capitals, and a long one.
Names == { File("a", "x", TRUE, TRUE), File("a", "x", TRUE, FALSE),
           File("b", "", FALSE, TRUE),
           [File("long", "x", TRUE, TRUE) EXCEPT !.fits = FALSE] }
Wild == { [stem |-> "?", ext |-> "x"], [stem |-> "?", ext |-> "?"] }
=============================================================================
