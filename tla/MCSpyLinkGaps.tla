--------------------------- MODULE MCSpyLinkGaps ---------------------------
(***************************************************************************)
(* SpyLink with the functions on whose formats the two programs differ:    *)
(* 24h, 26h, 28h and 30h.                                                  *)
(***************************************************************************)
EXTENDS SpyLink

\* While the host waits for an argument, one is on the way or is still sent.
ArgumentsComing ==
  ~broken /\ hPhase = "rxdata" => up # << >> \/ (wPhase = "call" /\ wTx # << >>)

\* The table that SpyTransport::ReceiveRequest keeps in its comments says of
\* each function what the host receives ("Rx") and sends back ("Tx"), spy.cpp:425
\* of 24h, spy.cpp:428 of 26h, spy.cpp:438 of 28h, spy.cpp:448 of 30h: it receives
\* that and nothing else, does not wait for what nobody sends, and does not poll
\* again before the reply that the workstation waits for is on its way.
CallsAsTabled == RequestFraming /\ ArgumentsComing /\ AnsweredBeforePolling
=============================================================================
