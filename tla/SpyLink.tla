------------------------------ MODULE SpyLink ------------------------------
(***************************************************************************)
(* The remote BDOS link: the host's serve loop (Spy::Serve with            *)
(* SpyTransport, spy.cpp and spy.h) against the disk calls of the resident *)
(* Net-BDOS (DiskIOFunc, spy_bdos_e900.asm), joined by a serial line.      *)
(*                                                                         *)
(* The host polls: it sends the workstation's number and F4h and waits     *)
(* 100 ms for FFh.  A workstation that has a disk call to make empties its *)
(* receive FIFO, waits for a poll, answers FFh, empties the FIFO again and *)
(* sends the function code, the arguments, and then takes the reply.       *)
(* Neither side frames, numbers or checks anything.                        *)
(***************************************************************************)
EXTENDS Integers, Sequences, SpyWire

CONSTANTS
  Funcs,        \* the BDOS functions that programs call
  HostNo,       \* the number the host polls (--dst)
  OwnNo,        \* the number of the workstation (ADR1)
  FifoSize,     \* units that the workstation's receive FIFO holds (external)
  Missing,      \* TRUE: programs also name files that cannot be opened
  Timely,       \* TRUE: the host loses patience only with a quiet line
  MaxCalls,     \* bound: submitted calls
  MaxRestarts   \* bound: restarts of the host program

\* Workstation numbers are not 0 (that means no byte) and not F4h; 127 is the
\* number that the host polls when it was given none.
ASSUME LinkAssumption ==
  /\ Funcs \subseteq Codes
  /\ HostNo \in 1..127 /\ OwnNo \in 1..127
  /\ FifoSize \in Nat \ {0}
  /\ Missing \in BOOLEAN /\ Timely \in BOOLEAN
  /\ MaxCalls \in Nat /\ MaxRestarts \in Nat

VARIABLES
  hPhase,    \* where Spy::Serve stands
  hReq,      \* the request being received or executed (SpyRequest)
  hWant,     \* what REQ_ items are still expected (m_rxpattern, m_rxcursor)
  hTx,       \* the rest of the response (SpyResponse::emit)
  searched,  \* an 11h has set Globor::m_dir since the host was started
  wPhase,    \* where DiskIOFunc stands
  wFunc,     \* register C: the function called
  wTx,       \* arguments still to send
  wWant,     \* reply units still to receive
  up, dn,    \* the line, to the host and to the workstation
  asked,     \* history: functions whose code has been sent
  served,    \* history: requests that NetBDOS::ExecFunc was given
  broken,    \* history: the host gave up on a line that was not quiet
  restarts   \* how often the host program was restarted

hVars == << hPhase, hReq, hWant, hTx, searched >>
wVars == << wPhase, wFunc, wTx, wWant >>
vars == << hPhase, hReq, hWant, hTx, searched, wPhase, wFunc, wTx, wWant, up, dn,
           asked, served, broken, restarts >>

-----------------------------------------------------------------------------
(* Units on the line.                                                      *)

Unit(k, c) == [kind |-> k, func |-> "none", call |-> c]
CodeUnit(f, c) == [kind |-> "code", func |-> f, call |-> c]
UnitsOf(kinds, c) == [i \in 1..Len(kinds) |-> Unit(kinds[i], c)]

ChunkKinds == {"fcb", "dma", "scrap"}      \* "scrap": a chunk read in part
DataKinds == {"byte"} \union ChunkKinds    \* bytes of any value
Payload == {"one"} \union DataKinds       \* what formats are made of
Kinds == {"no", "f4", "pong", "code"} \union Payload
PollUnits == { Unit("no", 0), Unit("f4", 0) }

\* What may be left of a channel when one byte of it has been read.  Bound: at
\* most two bytes of a chunk are taken for something else one by one.
OneByteRead(ch) ==
  { Tail(ch) } \union
  (IF Head(ch).kind \in {"fcb", "dma"}
     THEN { << Unit("scrap", 0) >> \o Tail(ch) } ELSE {})

\* A full receive FIFO loses what arrives.
Arrive(ch, u) == IF Len(ch) < FifoSize THEN Append(ch, u) ELSE ch

MayBeZero(u) == u.kind \in DataKinds
MayBeOwnNo(u) ==
  \/ u.kind = "no" /\ HostNo = OwnNo
  \/ u.kind = "one" /\ OwnNo = 1
  \/ u.kind \in DataKinds
MayBeOther(u) ==
  ~ ((u.kind = "no" /\ HostNo = OwnNo) \/ (u.kind = "one" /\ OwnNo = 1))
MayBeF4(u) == u.kind = "f4" \/ u.kind \in DataKinds
MayBePong(u) == u.kind = "pong" \/ u.kind \in DataKinds

Polling == {"poll", "pollF4", "wait"}
Listening == {"drain", "listen", "match"}

\* Nothing is under way that the workstation would finish in microseconds:
\* it is in no receive loop with bytes to read, and owes the host nothing.
Quiet ==
  /\ up = << >>
  /\ wPhase = "idle" \/ (wPhase \in Listening /\ dn = << >>)

NoReq == [func |-> "none", call |-> 0, intact |-> FALSE]

Init ==
  /\ hPhase = "poll" /\ hReq = NoReq /\ hWant = << >> /\ hTx = << >>
  /\ searched = FALSE
  /\ wPhase = "idle" /\ wFunc = "none" /\ wTx = << >> /\ wWant = << >>
  /\ up = << >> /\ dn = << >>
  /\ asked = << >> /\ served = << >> /\ broken = FALSE /\ restarts = 0

-----------------------------------------------------------------------------
(* The host.                                                               *)

PollNo ==
  /\ hPhase = "poll"
  /\ dn' = Arrive(dn, Unit("no", 0))
  /\ hPhase' = "pollF4"
  /\ UNCHANGED << hReq, hWant, hTx, searched, wVars, up, asked, served, broken, restarts >>

PollF4 ==
  /\ hPhase = "pollF4"
  /\ dn' = Arrive(dn, Unit("f4", 0))
  /\ hPhase' = "wait"
  /\ UNCHANGED << hReq, hWant, hTx, searched, wVars, up, asked, served, broken, restarts >>

\* Mutant of HearPong: the answer is looked at and left in the channel.
HearPong_peeks ==
  /\ hPhase = "wait" /\ up # << >>
  /\ MayBePong(Head(up)) /\ hPhase' = "getfunc"
  /\ UNCHANGED << hReq, hWant, hTx, searched, wVars, up, dn, asked, served, broken, restarts >>

\* RxHandler in state SPY_POLL: FFh (or 7Fh) is an answer, any other byte is
\* dropped and counts as one of the ten intents.
HearPong ==
  /\ hPhase = "wait" /\ up # << >>
  /\ \E rest \in OneByteRead(up) : up' = rest
  /\ \/ MayBePong(Head(up)) /\ hPhase' = "getfunc"
     \/ Head(up).kind # "pong" /\ hPhase' \in {"wait", "poll"}
  /\ UNCHANGED << hReq, hWant, hTx, searched, wVars, dn, asked, served, broken, restarts >>

\* Mutant of GiveUp: the host waits for an answer to its poll for ever.
GiveUp_onlyGetFunc ==
  /\ hPhase = "getfunc"
  /\ Timely => Quiet
  /\ hPhase' = "poll"
  /\ broken' = (broken \/ ~Quiet)
  /\ UNCHANGED << hReq, hWant, hTx, searched, wVars, up, dn, asked, served, restarts >>

\* waitRx ran out of intents, in Poll or in ReceiveRequest: poll again.
GiveUp ==
  /\ hPhase \in {"wait", "getfunc"}
  /\ Timely => Quiet
  /\ hPhase' = "poll"
  /\ broken' = (broken \/ ~Quiet)
  /\ UNCHANGED << hReq, hWant, hTx, searched, wVars, up, dn, asked, served, restarts >>

\* Mutant of GetFunc: data is awaited also for a function without any.
GetFunc_alwaysData ==
  /\ hPhase = "getfunc" /\ up # << >>
  /\ Head(up).kind = "code" /\ up' = Tail(up)
  /\ hReq' = [func |-> Head(up).func, call |-> Head(up).call, intact |-> TRUE]
  /\ hWant' = Expected[Head(up).func]
  /\ hPhase' = "rxdata"
  /\ UNCHANGED << hTx, searched, wVars, dn, asked, served, broken, restarts >>

\* Mutant of GetFunc: the cursor into the expected items starts one too far.
GetFunc_skipsItem ==
  /\ hPhase = "getfunc" /\ up # << >>
  /\ up' = Tail(up)
  /\ LET f == Head(up).func IN
       /\ Head(up).kind = "code"
       /\ hReq' = [func |-> f, call |-> Head(up).call, intact |-> TRUE]
       /\ hWant' = IF Expected[f] = << >> THEN << >> ELSE Tail(Expected[f])
       /\ hPhase' = IF Len(Expected[f]) < 2 THEN "exec" ELSE "rxdata"
  /\ UNCHANGED << hTx, searched, wVars, dn, asked, served, broken, restarts >>

\* RxHandler in state SPY_GETFUNC: the next byte, whatever it is, is the
\* function code.
Understood(u, f) ==
  \/ u.kind = "code" /\ f = u.func
  \/ u.kind \in DataKinds /\ f \in Codes
  \/ u.kind \notin DataKinds \union {"code"} /\ f = "FXX"

GetFunc ==
  /\ hPhase = "getfunc" /\ up # << >>
  /\ \E rest \in OneByteRead(up) : up' = rest
  /\ \E f \in Codes :
       /\ Understood(Head(up), f)
       /\ hReq' = [func |-> f, call |-> Head(up).call,
                   intact |-> Head(up).kind = "code"]
       /\ hWant' = Expected[f]
       /\ hPhase' = IF Expected[f] = << >> THEN "exec" ELSE "rxdata"
  /\ UNCHANGED << hTx, searched, wVars, dn, asked, served, broken, restarts >>

\* RxHandler in state SPY_RXDATA: SpyRequest::eat takes the next expected
\* item.  Whatever the completing read() returned beyond it is discarded.
Suffixes(s) == { SubSeq(s, i, Len(s)) : i \in 1..(Len(s) + 1) }

Took(rest, want) ==
  /\ hWant' = want
  /\ IF want = << >>
       THEN hPhase' = "exec" /\ up' \in Suffixes(rest)
       ELSE hPhase' = "rxdata" /\ up' = rest

RxUnit ==
  /\ hPhase = "rxdata" /\ up # << >>
  /\ Head(up).kind = Head(hWant)
  /\ hReq' = [hReq EXCEPT !.intact = @ /\ Head(up).call = hReq.call]
  /\ Took(Tail(up), Tail(hWant))
  /\ UNCHANGED << hTx, searched, wVars, dn, asked, served, broken, restarts >>

\* Something else than the item expected: lengths are read from the wrong
\* bytes, so the item may or may not be complete.
RxGarbled ==
  /\ hPhase = "rxdata" /\ up # << >>
  /\ Head(up).kind # Head(hWant)
  /\ hReq' = [hReq EXCEPT !.intact = FALSE]
  /\ \E rest \in OneByteRead(up) : \E want \in {hWant, Tail(hWant)} :
       Took(rest, want)
  /\ UNCHANGED << hTx, searched, wVars, dn, asked, served, broken, restarts >>

\* Mutant of Exec: a request may be executed again before it is answered.
Exec_again ==
  /\ hPhase = "exec"
  /\ served' = Append(served, hReq)
  /\ hPhase' \in {"exec", "emit"}
  /\ hTx' = UnitsOf(Reply[hReq.func], hReq.call)
  /\ UNCHANGED << hReq, hWant, searched, wVars, up, dn, asked, broken, restarts >>

\* The functions that end with fclose(f), also of a file that was not opened.
FileFuncs == {"F0F", "F14", "F15", "F21", "F22", "F27"}

\* What may end the host program: fclose(0); readdir() of a directory that no
\* search has opened in this run of it (m_dir has no initial value); and for an
\* unknown code emit(), which follows an uninitialised pattern.
MayKill(f) ==
  f = "FXX" \/ (Missing /\ f \in FileFuncs) \/ (f = "F12" /\ ~searched)

\* ExecFunc and the choice of the response.  The program dies or goes on where
\* the behaviour is undefined; emit() of no pattern sends nothing or junk.
Exec ==
  /\ hPhase = "exec"
  /\ served' = Append(served, hReq)
  /\ searched' = (searched \/ hReq.func = "F11")
  /\ \/ /\ hReq.func # "FXX"
        /\ hPhase' = "emit" /\ hTx' = UnitsOf(Reply[hReq.func], hReq.call)
     \/ /\ hReq.func = "FXX"
        /\ hPhase' = "emit" /\ hTx' \in { << >>, << Unit("scrap", 0) >> }
     \/ /\ MayKill(hReq.func)
        /\ hPhase' = "dead" /\ hTx' = << >>
  /\ UNCHANGED << hReq, hWant, wVars, up, dn, asked, broken, restarts >>

\* Mutant of EmitEnd: emit() stops before the end of its pattern.
EmitEnd_early ==
  /\ hPhase = "emit"
  /\ hPhase' = "poll" /\ hTx' = << >>
  /\ UNCHANGED << hReq, hWant, searched, wVars, up, dn, asked, served, broken, restarts >>

\* emit() is paced so that a workstation that is reading keeps up.
EmitUnit ==
  /\ hPhase = "emit" /\ hTx # << >>
  /\ wPhase = "idle" \/ Len(dn) < FifoSize
  /\ dn' = Arrive(dn, Head(hTx))
  /\ hTx' = Tail(hTx)
  /\ UNCHANGED << hPhase, hReq, hWant, searched, wVars, up, asked, served, broken, restarts >>

EmitEnd ==
  /\ hPhase = "emit" /\ hTx = << >>
  /\ hPhase' = "poll"
  /\ UNCHANGED << hReq, hWant, hTx, searched, wVars, up, dn, asked, served, broken, restarts >>

HostStep ==
  \/ PollNo \/ PollF4 \/ HearPong \/ GiveUp \/ GetFunc \/ RxUnit \/ RxGarbled
  \/ Exec \/ EmitUnit \/ EmitEnd

\* The user stops the program and starts it again with --serve; opening the
\* port flushes what has arrived.
HarmlessRestart == Quiet /\ hPhase \notin {"getfunc", "rxdata", "exec"}

Restart ==
  /\ restarts < MaxRestarts /\ restarts' = restarts + 1
  /\ Timely => HarmlessRestart
  /\ hPhase' = "poll" /\ hReq' = NoReq /\ hWant' = << >> /\ hTx' = << >>
  /\ searched' = FALSE
  /\ up' = << >>
  /\ broken' = (broken \/ ~HarmlessRestart)
  /\ UNCHANGED << wVars, dn, asked, served >>

-----------------------------------------------------------------------------
(* The workstation.                                                        *)

Call(f) ==
  /\ wPhase = "idle" /\ Len(asked) < MaxCalls
  /\ wPhase' = "drain" /\ wFunc' = f
  /\ UNCHANGED << hVars, wTx, wWant, up, dn, asked, served, broken, restarts >>

\* Mutant of DrainStop: the FIFO is read once instead of until it is empty.
DrainStop_once ==
  /\ wPhase \in {"drain", "drain2"}
  /\ wPhase' = IF wPhase = "drain" THEN "listen" ELSE "sendcode"
  /\ UNCHANGED << hVars, wFunc, wTx, wWant, up, dn, asked, served, broken, restarts >>

\* WaitUntilByteReceived: read until the FIFO yields zero, which is what an
\* empty FIFO yields.
DrainUnit ==
  /\ wPhase \in {"drain", "drain2"} /\ dn # << >>
  /\ \E rest \in OneByteRead(dn) : dn' = rest
  /\ \/ wPhase' = wPhase
     \/ /\ MayBeZero(Head(dn))
        /\ wPhase' = IF wPhase = "drain" THEN "listen" ELSE "sendcode"
  /\ UNCHANGED << hVars, wFunc, wTx, wWant, up, asked, served, broken, restarts >>

DrainStop ==
  /\ wPhase \in {"drain", "drain2"} /\ dn = << >>
  /\ wPhase' = IF wPhase = "drain" THEN "listen" ELSE "sendcode"
  /\ UNCHANGED << hVars, wFunc, wTx, wWant, up, dn, asked, served, broken, restarts >>

\* WaitUntilCalledByServer.
HearNo ==
  /\ wPhase = "listen" /\ dn # << >>
  /\ \E rest \in OneByteRead(dn) : dn' = rest
  /\ \/ MayBeOwnNo(Head(dn)) /\ wPhase' = "match"
     \/ MayBeOther(Head(dn)) /\ wPhase' = "listen"
  /\ UNCHANGED << hVars, wFunc, wTx, wWant, up, asked, served, broken, restarts >>

HearF4 ==
  /\ wPhase = "match" /\ dn # << >>
  /\ \E rest \in OneByteRead(dn) : dn' = rest
  /\ \/ MayBeF4(Head(dn)) /\ wPhase' = "pong"
     \/ Head(dn).kind # "f4" /\ wPhase' = "listen"
  /\ UNCHANGED << hVars, wFunc, wTx, wWant, up, asked, served, broken, restarts >>

\* Mutant of Escape: ESC is also looked at while the reply is awaited.
Escape_inCall ==
  /\ wPhase \in {"listen", "call"}
  /\ wPhase' = "idle" /\ wFunc' = "none" /\ wTx' = << >> /\ wWant' = << >>
  /\ UNCHANGED << hVars, up, dn, asked, served, broken, restarts >>

\* ESC while listening: ClearKeyboardBuffer returns FFh to the program.
Escape ==
  /\ wPhase = "listen"
  /\ wPhase' = "idle" /\ wFunc' = "none"
  /\ UNCHANGED << hVars, wTx, wWant, up, dn, asked, served, broken, restarts >>

SendPong ==
  /\ wPhase = "pong"
  /\ up' = Append(up, Unit("pong", 0))
  /\ wPhase' = "drain2"
  /\ UNCHANGED << hVars, wFunc, wTx, wWant, dn, asked, served, broken, restarts >>

\* The function code; CustomDispatch then enters the routine of the function.
SendCode ==
  /\ wPhase = "sendcode"
  /\ up' = Append(up, CodeUnit(wFunc, Len(asked) + 1))
  /\ asked' = Append(asked, wFunc)
  /\ wTx' = Sent[wFunc] /\ wWant' = Wanted[wFunc]
  /\ wPhase' = "call"
  /\ UNCHANGED << hVars, wFunc, dn, served, broken, restarts >>

SendUnit ==
  /\ wPhase = "call" /\ wTx # << >>
  /\ up' = Append(up, Unit(Head(wTx), Len(asked)))
  /\ wTx' = Tail(wTx)
  /\ UNCHANGED << hVars, wPhase, wFunc, wWant, dn, asked, served, broken, restarts >>

RecvUnit ==
  /\ wPhase = "call" /\ wTx = << >> /\ wWant # << >> /\ dn # << >>
  /\ Head(dn).kind = Head(wWant)
  /\ dn' = Tail(dn) /\ wWant' = Tail(wWant)
  /\ UNCHANGED << hVars, wPhase, wFunc, wTx, up, asked, served, broken, restarts >>

\* Something else than the reply expected: a byte is taken for what it is
\* not, the length of a chunk is read from the wrong bytes.
RecvGarbled ==
  /\ wPhase = "call" /\ wTx = << >> /\ wWant # << >> /\ dn # << >>
  /\ Head(dn).kind # Head(wWant)
  /\ \E rest \in OneByteRead(dn) : dn' = rest
  /\ IF Head(wWant) = "byte"
       THEN wWant' = Tail(wWant) /\ UNCHANGED wPhase
       ELSE wPhase' = "lost" /\ UNCHANGED wWant
  /\ UNCHANGED << hVars, wFunc, wTx, up, asked, served, broken, restarts >>

\* In a chunk of a length that was never meant: it swallows what comes.
RecvLost ==
  /\ wPhase = "lost" /\ dn # << >>
  /\ \E rest \in OneByteRead(dn) : dn' = rest
  /\ \/ UNCHANGED << wPhase, wWant >>
     \/ wPhase' = "call" /\ wWant' = Tail(wWant)
  /\ UNCHANGED << hVars, wFunc, wTx, up, asked, served, broken, restarts >>

Return ==
  /\ wPhase = "call" /\ wTx = << >> /\ wWant = << >>
  /\ wPhase' = "idle" /\ wFunc' = "none"
  /\ UNCHANGED << hVars, wTx, wWant, up, dn, asked, served, broken, restarts >>

StationStep ==
  \/ DrainUnit \/ DrainStop \/ HearNo \/ HearF4 \/ SendPong \/ SendCode
  \/ SendUnit \/ RecvUnit \/ RecvGarbled \/ RecvLost \/ Return

UserStep == Restart \/ Escape \/ \E f \in Funcs : Call(f)

Next == HostStep \/ StationStep \/ UserStep

Spec == Init /\ [][Next]_vars

\* Both programs run when they can; users need not do anything.  DrainStop
\* needs strong fairness: the FIFO is empty for most of the 100 ms between
\* two polls, and the drain loop samples it every few microseconds.
FairSpec ==
  Spec /\ WF_vars(HostStep) /\ WF_vars(StationStep) /\ SF_vars(DrainStop)

-----------------------------------------------------------------------------
(* Properties.                                                             *)

Requests == [func : Codes \union {"none"}, call : Nat, intact : BOOLEAN]
Units == [kind : Kinds, func : Codes \union {"none"}, call : Nat]

TypeOK ==
  /\ hPhase \in Polling \union {"getfunc", "rxdata", "exec", "emit", "dead"}
  /\ hReq \in Requests
  /\ hWant \in Seq(Payload) /\ hTx \in Seq(Units) /\ searched \in BOOLEAN
  /\ wPhase \in Listening \union
       {"idle", "pong", "drain2", "sendcode", "call", "lost"}
  /\ wFunc \in Funcs \union {"none"}
  /\ wTx \in Seq(Payload) /\ wWant \in Seq(Payload)
  /\ up \in Seq(Units) /\ dn \in Seq(Units)
  /\ asked \in Seq(Funcs) /\ served \in Seq(Requests)
  /\ broken \in BOOLEAN /\ restarts \in 0..MaxRestarts
  /\ hPhase = "rxdata" => hWant # << >>
  /\ hPhase \in {"rxdata", "exec"} => hReq.func \in Codes
  /\ wPhase = "lost" => wWant # << >>
  /\ wPhase # "idle" => wFunc \in Funcs

\* Each call is executed at most once, in the order of the calls, as the
\* function it was made as and with the arguments it was made with.
ExactlyOnce ==
  ~broken =>
    /\ Len(served) <= Len(asked)
    /\ \A i \in 1..Len(served) :
         served[i] = [func |-> asked[i], call |-> i, intact |-> TRUE]

\* Whatever goes wrong with the timing, a request that the host received
\* unmixed is one that was made, is executed once and never after a later one.
IntactOnce ==
  \A i \in 1..Len(served) : served[i].intact =>
    /\ served[i].call \in 1..Len(asked)
    /\ served[i].func = asked[served[i].call]
    /\ \A j \in 1..(i - 1) : served[j].intact => served[j].call < served[i].call

\* What the host takes as code or argument of a request is just that.
RequestFraming ==
  ~broken =>
    /\ hPhase = "getfunc" /\ up # << >> => Head(up).kind = "code"
    /\ hPhase = "rxdata" /\ up # << >> =>
         Head(up).kind = Head(hWant) /\ Head(up).call = hReq.call

\* What a call takes as its reply is the host's reply to this very call:
\* never a poll, never the reply to an earlier call.
OwnReply ==
  ~broken /\ wPhase = "call" /\ wTx = << >> /\ wWant # << >> /\ dn # << >> =>
    Head(dn).kind = Head(wWant) /\ Head(dn).call = Len(asked)

\* The host does not go back to polling a workstation whose call is still
\* waiting for a reply that is not on its way.
AnsweredBeforePolling ==
  ~broken /\ hPhase \in {"poll", "pollF4"} /\ wPhase = "call" =>
    wTx = << >> /\ Len(wWant) <= Len(dn)

\* The workstation answers the poll that the host is waiting on, and no
\* other poll is on its way to it then.
PongAnswersPoll == ~broken /\ wPhase = "pong" => hPhase = "wait" /\ dn = << >>

\* A disk call returns to the program only when the host has executed it;
\* only a call that wants no reply may return before.
ReturnAfterExec ==
  [][ ~broken /\ wPhase = "call" /\ wPhase' = "idle" /\ Wanted[wFunc] # << >>
        => Len(served) = Len(asked) ]_vars

\* Every disk call returns to the program, once the workstation is polled, unless
\* it is itself one that may end the host program, and has ended it: a file that
\* cannot be opened, or 12h before any 11h in this run of the host.
CallReturns ==
  wPhase = "drain" ~> (wPhase = "idle" \/ (hPhase = "dead" /\ MayKill(wFunc)))

\* Every function code sent is executed by the host.
AskedIsServed ==
  \A n \in 1..MaxCalls : Len(asked) = n ~> Len(served) >= n
=============================================================================
