---------------------------- MODULE MCLineEditor ----------------------------
(* Old lines for the line editor, for TLC.                                 *)
EXTENDS LineEditor

OldLines == { << "01", "A", "A" >>, << "A", "01", "A" >>, << "tab", "A", "A" >> }
=============================================================================
