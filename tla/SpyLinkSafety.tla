--------------------------- MODULE SpyLinkSafety ---------------------------
(***************************************************************************)
(* SpyLink for programs that keep to the functions whose formats the host  *)
(* and the workstation agree on, and the inductive invariant that keeps    *)
(* the two in step as long as the host loses patience with a quiet line    *)
(* only.  It is stated as what is left: of the request, in the channel and *)
(* in the workstation; of the reply, in the host and in the FIFO.          *)
(***************************************************************************)
EXTENDS SpyLink

ASSUME FuncsAgree == \A f \in Funcs : Agrees(f)

Resting == {"idle"} \union Listening

\* The latest call whose function code was sent, and its function.
current == Len(asked)
latest == asked[Len(asked)]
AllServed == Len(served) = Len(asked)

ServedInOrder ==
  \A i \in 1..Len(served) :
    served[i] = [func |-> asked[i], call |-> i, intact |-> TRUE]

\* The host has an answer to its poll before it, or has taken one and has not
\* finished with the request.
Serving ==
  \/ hPhase \in {"getfunc", "rxdata", "exec", "emit"}
  \/ hPhase = "wait" /\ up # << >>

\* Behind its first k units the channel ch holds, and after it the workstation
\* has still to send (tx), exactly the arguments want of call c.
Arguments(k, want, ch, tx, c) ==
  /\ k <= Len(ch)
  /\ Len(ch) + Len(tx) = k + Len(want)
  /\ \A i \in 1..Len(want) :
       IF k + i <= Len(ch) THEN ch[k + i] = Unit(want[i], c)
       ELSE tx[(k + i) - Len(ch)] = want[i]

\* The FIFO ch holds, and after it the host has still to send (tx), first the
\* reply items want of call c, then nothing but units of the kinds skip.
Coming(want, ch, tx, c, skip) ==
  /\ Len(want) <= Len(ch) + Len(tx)
  /\ \A i \in 1..(Len(ch) + Len(tx)) :
       LET u == IF i <= Len(ch) THEN ch[i] ELSE tx[i - Len(ch)] IN
         IF i <= Len(want) THEN u = Unit(want[i], c) ELSE u.kind \in skip

\* A workstation that is not in a call: what is in the FIFO, it skips.
AtRest ==
  wPhase \in Resting =>
    /\ hPhase # "dead"
    /\ \A i \in 1..Len(dn) : dn[i].kind \in {"no", "f4", "one"}
    /\ Serving => \A i \in 1..Len(dn) : dn[i].kind = "one"
    /\ Serving /\ hPhase # "emit" => Wanted[latest] = << >>
    /\ \A i \in 1..Len(hTx) : hTx[i].kind = "one"
    /\ ~Serving => up = << >> /\ AllServed

\* The end of a poll that a listening workstation has before it is of the
\* poll that the host waits on.
FreshPoll ==
  wPhase \in {"listen", "match"} =>
    \A i \in 1..Len(dn) : dn[i].kind = "f4" => i = Len(dn) /\ hPhase = "wait"

\* From the end of the poll to the function code.
Answering ==
  wPhase \in {"pong", "drain2", "sendcode"} =>
    /\ dn = << >> /\ AllServed
    /\ \/ hPhase = "wait" /\ up = IF wPhase = "pong" THEN << >>
                                  ELSE << Unit("pong", 0) >>
       \/ hPhase = "getfunc" /\ up = << >> /\ wPhase # "pong"

\* From the function code to the end of the execution.
Requesting ==
  Serving /\ wPhase \notin {"pong", "drain2", "sendcode"} =>
    /\ asked # << >>
    /\ hPhase = "wait" => /\ Arguments(2, Expected[latest], up, wTx, current)
                          /\ up[1] = Unit("pong", 0)
                          /\ up[2] = CodeUnit(latest, current)
    /\ hPhase = "getfunc" => /\ Arguments(1, Expected[latest], up, wTx, current)
                             /\ up[1] = CodeUnit(latest, current)
    /\ hPhase = "rxdata" => Arguments(0, hWant, up, wTx, current)
    /\ hPhase \in {"exec", "emit"} => up = << >> /\ wTx = << >>
    /\ hPhase \in {"rxdata", "exec", "emit"} =>
         hReq = [func |-> latest, call |-> current, intact |-> TRUE]
    /\ current = Len(served) + (IF hPhase = "emit" THEN 0 ELSE 1)

\* From the function code to the end of the reply.
Replying ==
  wPhase = "call" =>
    /\ asked # << >> /\ wFunc = latest
    /\ Serving /\ hPhase # "emit" => dn = << >> /\ wWant = Wanted[latest]
    /\ hPhase = "dead" =>
         /\ up = << >> /\ dn = << >> /\ wTx = << >> /\ AllServed
         /\ wWant = Wanted[latest] /\ Wanted[latest] # << >>
    /\ hPhase = "emit" => Coming(wWant, dn, hTx, current, {"one"})
    /\ hPhase \in Polling /\ ~Serving =>
         /\ up = << >> /\ wTx = << >> /\ AllServed
         /\ Coming(wWant, dn, << >>, current, {"one", "no", "f4"})

\* Whatever is on the line is what the side that reads it next expects there.
Together ==
  /\ ServedInOrder
  /\ wPhase # "lost"
  /\ wPhase # "call" => wTx = << >> /\ wWant = << >>
  /\ hPhase # "emit" => hTx = << >>
  /\ AtRest /\ FreshPoll /\ Answering /\ Requesting /\ Replying

\* Host and workstation keep in step until the host gives up on a line that
\* is not quiet: the inductive strengthening of the safety properties.
InStep == ~broken => Together

\* Nobody waits in vain: when a side has nothing to read, the other has not
\* finished with this very call, and sends what is awaited or is dead.
NobodyWaitsInVain ==
  ~broken =>
    /\ hPhase = "getfunc" /\ up = << >> => wPhase \in {"drain2", "sendcode"}
    /\ hPhase = "rxdata" /\ up = << >> => wPhase = "call" /\ wTx # << >>
    /\ wPhase = "call" /\ wTx = << >> /\ wWant # << >> /\ dn = << >> =>
         hPhase = "dead" \/ (Serving /\ (hPhase = "emit" => hTx # << >>))

-----------------------------------------------------------------------------
(* What programs rely on.                                                  *)

\* The program is calling until the function code is sent.
clientOf ==
  IF wPhase = "idle" THEN "running"
  ELSE IF wPhase \in {"call", "lost"} THEN "waiting" ELSE "calling"

servedFuncs == [i \in 1..Len(served) |-> served[i].func]

Promise == INSTANCE RemoteCall WITH
  NoReply <- { f \in Funcs : Wanted[f] = << >> },
  Deadly <- { f \in Funcs : f = "F12" \/ (Missing /\ f \in FileFuncs) },
  client <- clientOf, func <- wFunc,
  submitted <- asked, executed <- servedFuncs, alive <- hPhase # "dead"

\* The link keeps the promise of RemoteCall, progress included: its polls,
\* drains, buffers and harmless restarts are invisible to the programs.  What they
\* may see is the end of the host, by one of the calls that may end it.
KeepsPromise == Promise!FairSpec
=============================================================================
