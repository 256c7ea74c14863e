------------------------------ MODULE Revdial ------------------------------
(***************************************************************************)
(* revdial/v2/revdial.go: the coordinator's Dialer opens connections to a  *)
(* machine that it cannot reach.  Dial asks the control loop (serve) to    *)
(* send conn-ready; the Listener's grabConn dials back, the coordinator's  *)
(* connHandler hijacks that connection and matchConn hands it to whichever *)
(* Dial is waiting.  What goes wrong on the listener's side comes back as  *)
(* pickup-failed, and the Dialer's read loop hands it to some Dial too.    *)
(*                                                                         *)
(* Channels without room are steps of both sides at once.  A connection    *)
(* that grabConn makes has a side at the coordinator (server) and one at   *)
(* the machine (client), which see it end at different times.              *)
(***************************************************************************)
EXTENDS Naturals, Sequences, FiniteSets

CONSTANTS Dial    \* the calls of Dial

VARIABLES dial,      \* where each Dial is
          dialer,    \* Dialer: "open", "closing" (unregistered), "closed" (donec)
          serving,   \* serve: "loop", "send" (connReady taken), "over"
          ready,     \* conn-ready messages under way to the listener
          server,    \* the coordinator's side of each connection
          client,    \* the grabConn goroutines, one for each conn-ready read
          failed,    \* pickup-failed messages under way to the dialer
          reader,    \* the dialer's read loop: "read", "hand" (has a failure), "over"
          listener,  \* Listener: "open", "closed"
          panicked   \* grabConn sent on the closed channel connc

revVars == <<dial, dialer, serving, ready, server, client, failed, reader, listener, panicked>>

conns == <<server, client>>

RevInit ==
  /\ dial = [d \in Dial |-> "idle"]
  /\ dialer = "open"
  /\ serving = "loop"
  /\ ready = 0
  /\ server = <<>>
  /\ client = <<>>
  /\ failed = 0
  /\ reader = "read"
  /\ listener = "open"
  /\ panicked = FALSE

DialTo(d, from, to) == dial[d] = from /\ dial' = [dial EXCEPT ![d] = to]

-----------------------------------------------------------------------------
(* Dialer: Dial, serve and the read loop *)

CallDial(d) ==
  /\ DialTo(d, "idle", "ask")
  /\ UNCHANGED <<dialer, serving, ready, conns, failed, reader, listener, panicked>>

\* d.connReady <- true meets <-d.connReady in serve.
AskServe(d) ==
  /\ DialTo(d, "ask", "wait")
  /\ serving = "loop"
  /\ serving' = "send"
  /\ UNCHANGED <<dialer, ready, conns, failed, reader, listener, panicked>>

\* sendMessage(conn-ready); the write fails when the connection is gone.
SendReady ==
  /\ serving = "send"
  /\ \/ dialer = "open" /\ serving' = "loop" /\ ready' = ready + 1
     \/ dialer # "open" /\ serving' = "over" /\ UNCHANGED ready
  /\ UNCHANGED <<dial, dialer, conns, failed, reader, listener, panicked>>

\* serve sees donec, or its keep-alive cannot be written.
ServeEnds ==
  /\ serving = "loop"
  /\ dialer # "open"
  /\ serving' = "over"
  /\ UNCHANGED <<dial, dialer, ready, conns, failed, reader, listener, panicked>>

\* The caller's context ends, in either select of Dial.
DialCanceled(d) ==
  /\ DialTo(d, "ask", "canceled") \/ DialTo(d, "wait", "canceled")
  /\ UNCHANGED <<dialer, serving, ready, conns, failed, reader, listener, panicked>>

DialSeesClose(d) ==
  /\ dialer = "closed"
  /\ DialTo(d, "ask", "closed") \/ DialTo(d, "wait", "closed")
  /\ UNCHANGED <<dialer, serving, ready, conns, failed, reader, listener, panicked>>

\* matchConn: d.incomingConn <- c meets the second select of some Dial.
MatchConn(d, c) ==
  /\ server[c] = "offered"
  /\ DialTo(d, "wait", "conn")
  /\ server' = [server EXCEPT ![c] = "used"]
  /\ UNCHANGED <<dialer, serving, ready, client, failed, reader, listener, panicked>>

\* matchConn gives up; it does not close the connection.
MatchSeesClose(c) ==
  /\ server[c] = "offered"
  /\ dialer = "closed"
  /\ server' = [server EXCEPT ![c] = "dropped"]
  /\ UNCHANGED <<dial, dialer, serving, ready, client, failed, reader, listener, panicked>>

ReadFailure ==
  /\ reader = "read"
  /\ failed > 0
  /\ failed' = failed - 1
  /\ reader' = "hand"
  /\ UNCHANGED <<dial, dialer, serving, ready, conns, listener, panicked>>

\* d.pickupFailed <- err meets the second select of some Dial.
HandFailure(d) ==
  /\ reader = "hand"
  /\ DialTo(d, "wait", "failed")
  /\ reader' = "read"
  /\ UNCHANGED <<dialer, serving, ready, conns, failed, listener, panicked>>

\* Mutant: the read loop ends and leaves the dialer open.
ReaderEndsAlone ==
  /\ \/ reader = "read" /\ (dialer # "open" \/ listener = "closed")
     \/ reader = "hand" /\ dialer = "closed"
  /\ reader' = "over"
  /\ UNCHANGED <<dial, dialer, serving, ready, conns, failed, listener, panicked>>

\* The read loop ends with the control connection, or with donec while it
\* holds a failure; both it and serve call Close on their way out.
ReaderEnds ==
  /\ \/ reader = "read" /\ (dialer # "open" \/ listener = "closed")
     \/ reader = "hand" /\ dialer = "closed"
  /\ reader' = "over"
  /\ dialer' = IF dialer = "open" THEN "closing" ELSE dialer
  /\ UNCHANGED <<dial, serving, ready, conns, failed, listener, panicked>>

\* Close: unregister and close the control connection, then close donec.
CloseDialer ==
  /\ dialer = "open"
  /\ dialer' = "closing"
  /\ UNCHANGED <<dial, serving, ready, conns, failed, reader, listener, panicked>>

CloseDone ==
  /\ dialer = "closing"
  /\ dialer' = "closed"
  /\ UNCHANGED <<dial, serving, ready, conns, failed, reader, listener, panicked>>

-----------------------------------------------------------------------------
(* Listener: run, grabConn and Close; connHandler at the coordinator *)

\* run reads conn-ready and starts a grabConn.
ReadReady ==
  /\ listener = "open"
  /\ ready > 0
  /\ ready' = ready - 1
  /\ server' = Append(server, "none")
  /\ client' = Append(client, "dial")
  /\ UNCHANGED <<dial, dialer, serving, failed, reader, listener, panicked>>

\* connHandler finds the dialer, hijacks the connection, answers 101 and calls
\* matchConn.  Without the dialer it answers 400, which is a failed pick-up.
Pickup(c) ==
  /\ client[c] = "dial"
  /\ IF dialer = "open"
     THEN /\ server' = [server EXCEPT ![c] = "offered"]
          /\ client' = [client EXCEPT ![c] = "switch"]
     ELSE /\ client' = [client EXCEPT ![c] = "fail"]
          /\ UNCHANGED server
  /\ UNCHANGED <<dial, dialer, serving, ready, failed, reader, listener, panicked>>

\* The machine cannot dial, write the request or read the answer; the last of
\* these may happen when the coordinator has the connection already.
PickupFails(c) ==
  /\ client[c] \in {"dial", "switch"}
  /\ client' = [client EXCEPT ![c] = "fail"]
  /\ UNCHANGED <<dial, dialer, serving, ready, server, failed, reader, listener, panicked>>

\* sendMessage(pickup-failed), written while the control connection is there.
SendFailure(c) ==
  /\ client[c] = "fail"
  /\ client' = [client EXCEPT ![c] = "ended"]
  /\ failed' = IF listener = "open" THEN failed + 1 ELSE failed
  /\ UNCHANGED <<dial, dialer, serving, ready, server, reader, listener, panicked>>

\* The answer 101 is read; the select of grabConn is next.
Switched(c) ==
  /\ client[c] = "switch"
  /\ server[c] # "none"
  /\ client' = [client EXCEPT ![c] = "deliver"]
  /\ UNCHANGED <<dial, dialer, serving, ready, server, failed, reader, listener, panicked>>

\* ln.connc <- c, and Accept takes it.
Accept(c) ==
  /\ client[c] = "deliver"
  /\ listener = "open"
  /\ client' = [client EXCEPT ![c] = "accepted"]
  /\ UNCHANGED <<dial, dialer, serving, ready, server, failed, reader, listener, panicked>>

\* After Close both cases of the select are ready: donec, and the send, which
\* panics because connc is closed too.
DeliverAfterClose(c) ==
  /\ client[c] = "deliver"
  /\ listener = "closed"
  /\ client' = [client EXCEPT ![c] = "ended"]
  /\ panicked' \in {panicked, TRUE}
  /\ UNCHANGED <<dial, dialer, serving, ready, server, failed, reader, listener>>

\* Close of the Listener: by run when the control connection ends, by its
\* write loop, or by the owner.
CloseListener ==
  /\ listener = "open"
  /\ listener' = "closed"
  /\ UNCHANGED <<dial, dialer, serving, ready, conns, failed, reader, panicked>>

-----------------------------------------------------------------------------
DialStep(d) == AskServe(d) \/ DialSeesClose(d) \/ HandFailure(d)
               \/ \E c \in DOMAIN server : MatchConn(d, c)

ServeStep == SendReady \/ ServeEnds
ReaderStep == ReadFailure \/ ReaderEnds
GrabStep(c) == Pickup(c) \/ PickupFails(c) \/ SendFailure(c) \/ Switched(c)
               \/ Accept(c) \/ DeliverAfterClose(c)

RevNext ==
  \/ \E d \in Dial : CallDial(d) \/ DialCanceled(d) \/ DialStep(d)
  \/ ServeStep \/ ReaderStep \/ CloseDialer \/ CloseDone \/ ReadReady \/ CloseListener
  \/ \E c \in DOMAIN client : GrabStep(c) \/ MatchSeesClose(c)

\* Goroutines go on, messages on an open control connection are read, and
\* grabConn's attempts end within its timeout.  Nobody has to cancel or to
\* close anything, but a listener whose dialer is gone notices.
RevFairness ==
  /\ \A d \in Dial : WF_revVars(DialStep(d))
  /\ WF_revVars(ServeStep) /\ WF_revVars(ReaderStep) /\ WF_revVars(CloseDone)
  /\ WF_revVars(ReadReady)
  /\ WF_revVars(\E c \in DOMAIN client : GrabStep(c))

RevSpec == RevInit /\ [][RevNext]_revVars /\ RevFairness

-----------------------------------------------------------------------------
\* Every Dial ends: with a connection, a failure, the end of its context or of
\* the Dialer, also when answers are taken by the wrong Dial.
DialEnds ==
  \A d \in Dial : dial[d] = "ask" ~> dial[d] \notin {"ask", "wait"}
=============================================================================
