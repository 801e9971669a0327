----------------------------- MODULE RemoteCall -----------------------------
(***************************************************************************)
(* What the remote BDOS promises to the programs on the workstation.       *)
(*                                                                         *)
(* A program makes one call at a time.  Until the call is submitted it can *)
(* be abandoned; a submitted call is executed exactly once, in order, and  *)
(* only then does it return, unless it is one of the calls (NoReply) whose *)
(* effect nobody waits for.  Even such a call is executed before the next  *)
(* one is submitted.  The execution of some calls (Deadly) may end the     *)
(* server; then that call does not return, and no other is submitted.      *)
(***************************************************************************)
EXTENDS Naturals, Sequences

CONSTANTS Funcs,      \* functions that can be called
          NoReply,    \* those whose effect nobody waits for
          Deadly,     \* those whose execution may end the server
          MaxCalls    \* bound: submitted calls

VARIABLES
  client,      \* what the program is doing
  func,        \* the function it called
  submitted,   \* functions submitted, in order
  executed,    \* functions executed, in order
  alive        \* the server runs

vars == << client, func, submitted, executed, alive >>

Init ==
  /\ client = "running" /\ func = "none"
  /\ submitted = << >> /\ executed = << >>
  /\ alive = TRUE

Call(f) ==
  /\ client = "running" /\ Len(submitted) < MaxCalls
  /\ client' = "calling" /\ func' = f
  /\ UNCHANGED << submitted, executed, alive >>

Abandon ==
  /\ client = "calling"
  /\ client' = "running" /\ func' = "none"
  /\ UNCHANGED << submitted, executed, alive >>

Submit ==
  /\ alive /\ client = "calling" /\ Len(executed) = Len(submitted)
  /\ client' = "waiting" /\ submitted' = Append(submitted, func)
  /\ UNCHANGED << func, executed, alive >>

Execute ==
  /\ alive /\ Len(executed) < Len(submitted)
  /\ LET f == submitted[Len(executed) + 1] IN
       /\ executed' = Append(executed, f)
       /\ alive' \in IF f \in Deadly THEN BOOLEAN ELSE {TRUE}
  /\ UNCHANGED << client, func, submitted >>

Return ==
  /\ client = "waiting"
  /\ func \in NoReply \/ (alive /\ Len(executed) = Len(submitted))
  /\ client' = "running" /\ func' = "none"
  /\ UNCHANGED << submitted, executed, alive >>

Next == Abandon \/ Submit \/ Execute \/ Return \/ \E f \in Funcs : Call(f)

Spec == Init /\ [][Next]_vars

\* Submitting, executing and returning may be relied on while the server runs.
FairSpec == Spec /\ WF_vars(Submit) /\ WF_vars(Execute) /\ WF_vars(Return)
=============================================================================
