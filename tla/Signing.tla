------------------------------- MODULE Signing -------------------------------
(***************************************************************************)
(* Remote signing of release artifacts: the tasks that run signArtifacts   *)
(* (src/internal/relui/workflows.go), the server that turns their calls    *)
(* into messages (src/internal/relui/sign/server.go), and the streams of   *)
(* signing clients, which come and go.  An answer finds its caller by the  *)
(* message's ID.  The client behind the streams is another program: it     *)
(* sees requests, starts and ends jobs, and answers when it likes, more    *)
(* than once, late, and over any stream.                                   *)
(***************************************************************************)
EXTENDS Integers, Sequences, FiniteSets

CONSTANTS
    Signer,         \* workflow tasks that sign
    Stream,         \* connections of signing clients; one that is over is made again
    MaxMessages     \* bound on the messages of a task

ASSUME SigningAssumption == MaxMessages \in Nat

Message == Signer \X (1 .. MaxMessages)
NoMessage == <<>>

VARIABLES
    stage,      \* signArtifacts: "idle", "sign", "status", "tick", "cancel", "signed"
    do,         \* the call of do in progress: "none", "send", "wait"
    sent,       \* messages made by each task
    job,        \* jobID, once SignArtifact has returned it
    asked,      \* the message of this attempt's SignArtifact (not in the code)
    outcome,    \* the job whose output signArtifacts returned
    stopSign,   \* the task's context is done
    expired,    \* the context of the call in progress is done
    callback,   \* rs.callback: the IDs that are registered
    respCh,     \* [Message -> response], NoAnswer if the channel is empty
    sender,     \* the goroutine of a stream that sends: "select", "send", "gone"
    held,       \* the request it sends
    receiver,   \* the goroutine of a stream that receives: "recv", "gone"
    seen,       \* requests that the client has received
    jobs        \* the client's jobs: "none", "refused", "running", "completed", "failed"

taskVars == <<stage, do, sent, job, asked, outcome, stopSign, expired>>
callbackVars == <<callback, respCh>>
streamVars == <<sender, held, receiver>>
clientVars == <<seen, jobs>>
signingVars == <<taskVars, callbackVars, streamVars, clientVars>>

NoAnswer == [status |-> "none", job |-> NoMessage]
NoRequest == [id |-> NoMessage, type |-> "none", job |-> NoMessage]

\* Mutant: a task's messages have one ID.
SameID(t, n) == <<t, 1>>

\* uuid.NewString
MessageID(t, n) == <<t, n>>

ID(t) == MessageID(t, sent[t])

SigningInit ==
    /\ stage = [t \in Signer |-> "idle"]
    /\ do = [t \in Signer |-> "none"]
    /\ sent = [t \in Signer |-> 0]
    /\ job = [t \in Signer |-> NoMessage]
    /\ asked = [t \in Signer |-> NoMessage]
    /\ outcome = [t \in Signer |-> NoMessage]
    /\ stopSign = [t \in Signer |-> FALSE]
    /\ expired = [t \in Signer |-> FALSE]
    /\ callback = {}
    /\ respCh = [m \in Message |-> NoAnswer]
    /\ sender = [s \in Stream |-> "gone"]
    /\ held = [s \in Stream |-> NoRequest]
    /\ receiver = [s \in Stream |-> "gone"]
    /\ seen = {}
    /\ jobs = [m \in Message |-> "none"]

-----------------------------------------------------------------------------
(* do *)

Move(t, next) == stage' = [stage EXCEPT ![t] = next]

\* The request of each stage.  The client names a job after the message that
\* asked for it.
Request(t, type, n) ==
    [id |-> MessageID(t, n), type |-> type,
     job |-> IF type = "sign" THEN <<t, n>> ELSE job[t]]

\* A new message with a channel of its own is registered.
Register(t, from, type) ==
    /\ stage[t] = from /\ do[t] = "none" /\ sent[t] < MaxMessages
    /\ Move(t, type)
    /\ do' = [do EXCEPT ![t] = "send"]
    /\ sent' = [sent EXCEPT ![t] = @ + 1]
    /\ expired' = [expired EXCEPT ![t] = stopSign[t] /\ type # "cancel"]
    /\ callback' = callback \cup {MessageID(t, sent[t] + 1)}
    /\ respCh' = [respCh EXCEPT ![MessageID(t, sent[t] + 1)] = NoAnswer]
    /\ asked' = [asked EXCEPT ![t] = IF type = "sign" THEN <<t, sent[t] + 1>> ELSE @]
    /\ UNCHANGED <<job, outcome, stopSign, streamVars, clientVars>>

\* case rs.requests <- req: some stream takes it.
Hand(t, s) ==
    /\ do[t] = "send" /\ sender[s] = "select"
    /\ do' = [do EXCEPT ![t] = "wait"]
    /\ sender' = [sender EXCEPT ![s] = "send"]
    /\ held' = [held EXCEPT ![s] = Request(t, stage[t], sent[t])]
    /\ UNCHANGED <<stage, sent, job, asked, outcome, stopSign, expired, callbackVars,
                   receiver, clientVars>>

\* Where signArtifacts goes after a call that failed: the first call fails the
\* task, which may be tried again from the start; a poll is repeated.
AfterError(t) == IF stage[t] = "status" THEN "tick" ELSE "idle"

\* Mutant: only the first select has the context.
GiveUpSending(t) ==
    /\ do[t] = "send" /\ expired[t]
    /\ do' = [do EXCEPT ![t] = "none"]
    /\ callback' = callback \ {ID(t)}
    /\ Move(t, AfterError(t))
    /\ stopSign' = [stopSign EXCEPT ![t] = @ /\ AfterError(t) # "idle"]
    /\ UNCHANGED <<sent, job, asked, outcome, expired, respCh, streamVars, clientVars>>

\* case <-ctx.Done() of both selects.
GiveUp(t) ==
    /\ do[t] \in {"send", "wait"} /\ expired[t]
    /\ do' = [do EXCEPT ![t] = "none"]
    /\ callback' = callback \ {ID(t)}
    /\ Move(t, AfterError(t))
    /\ stopSign' = [stopSign EXCEPT ![t] = @ /\ AfterError(t) # "idle"]
    /\ UNCHANGED <<sent, job, asked, outcome, expired, respCh, streamVars, clientVars>>

\* Where it goes after an answer.
AfterAnswer(t, status) ==
    CASE stage[t] = "sign" -> IF status = "started" THEN "status" ELSE "idle"
      [] stage[t] = "status" /\ status = "completed" -> "signed"
      [] stage[t] = "status" /\ status = "failed" -> IF stopSign[t] THEN "cancel" ELSE "idle"
      [] stage[t] = "status" /\ status \notin {"completed", "failed"} -> "tick"
      [] stage[t] = "cancel" -> "idle"

\* case resp := <-respCh, and what the caller makes of it.
Receive(t) ==
    LET r == respCh[ID(t)]
        next == AfterAnswer(t, r.status)
    IN  /\ do[t] = "wait" /\ r # NoAnswer
        /\ do' = [do EXCEPT ![t] = "none"]
        /\ respCh' = [respCh EXCEPT ![ID(t)] = NoAnswer]
        /\ Move(t, next)
        /\ job' = [job EXCEPT ![t] = IF next = "status" THEN r.job ELSE @]
        /\ outcome' = [outcome EXCEPT ![t] = IF next = "signed" THEN r.job ELSE @]
        /\ stopSign' = [stopSign EXCEPT ![t] = @ /\ next # "idle"]
        /\ UNCHANGED <<sent, asked, expired, callback, streamVars, clientVars>>

-----------------------------------------------------------------------------
(* signArtifacts *)

SignArtifact(t) == Register(t, "idle", "sign")
ArtifactSigningStatus(t) == Register(t, "status", "status")
CancelSigning(t) == Register(t, "cancel", "cancel")

\* AwaitCondition: the ticker, or the context; both may be ready.
Tick(t) ==
    /\ stage[t] = "tick"
    /\ \/ Move(t, "status")
       \/ stopSign[t] /\ Move(t, "cancel")
    /\ UNCHANGED <<do, sent, job, asked, outcome, stopSign, expired, callbackVars, streamVars,
                   clientVars>>

\* The task is stopped by a user or its watchdog.
StopTask(t) ==
    /\ stage[t] \in {"sign", "status", "tick"} /\ ~stopSign[t]
    /\ stopSign' = [stopSign EXCEPT ![t] = TRUE]
    /\ expired' = [expired EXCEPT ![t] = TRUE]
    /\ UNCHANGED <<stage, do, sent, job, asked, outcome, callbackVars, streamVars, clientVars>>

\* The minute of a status or a cancel call is over.
CallTimesOut(t) ==
    /\ stage[t] \in {"status", "cancel"} /\ do[t] # "none" /\ ~expired[t]
    /\ expired' = [expired EXCEPT ![t] = TRUE]
    /\ UNCHANGED <<stage, do, sent, job, asked, outcome, stopSign, callbackVars, streamVars,
                   clientVars>>

-----------------------------------------------------------------------------
(* UpdateSigningStatus *)

Connect(s) ==
    /\ sender[s] = "gone" /\ receiver[s] = "gone"
    /\ sender' = [sender EXCEPT ![s] = "select"]
    /\ receiver' = [receiver EXCEPT ![s] = "recv"]
    /\ UNCHANGED <<taskVars, callbackVars, held, clientVars>>

\* Under callbackMu.  The callback sends into a channel with room for one.
CallAndDeregister(m, r) ==
    /\ m \in callback => respCh[m] = NoAnswer
    /\ respCh' = IF m \in callback THEN [respCh EXCEPT ![m] = r] ELSE respCh
    /\ callback' = callback \ {m}

\* Send has returned.
Sent(s, next) ==
    /\ sender[s] = "send"
    /\ sender' = [sender EXCEPT ![s] = next]
    /\ held' = [held EXCEPT ![s] = NoRequest]

\* stream.Send returns nil, and the client sees the request.
SendArrives(s) ==
    LET req == held[s]
    IN  /\ Sent(s, "select")
        /\ seen' = seen \cup {req}
        /\ \/ req.type = "sign"
              /\ \E x \in {"running", "refused"} : jobs' = [jobs EXCEPT ![req.job] = x]
           \/ req.type # "sign" /\ UNCHANGED jobs
        /\ UNCHANGED <<taskVars, callbackVars, receiver>>

\* stream.Send returns nil, but the connection ends before the client has it.
SendIsLost(s) ==
    /\ Sent(s, "select")
    /\ receiver' = [receiver EXCEPT ![s] = "gone"]
    /\ UNCHANGED <<taskVars, callbackVars, clientVars>>

\* stream.Send fails: the caller is told.
SendFails(s) ==
    /\ Sent(s, "gone")
    /\ CallAndDeregister(held[s].id, [status |-> "error", job |-> NoMessage])
    /\ UNCHANGED <<taskVars, receiver, clientVars>>

\* case <-ctx.Done(), after the other goroutine has returned.
SenderEnds(s) ==
    /\ sender[s] = "select" /\ receiver[s] = "gone"
    /\ sender' = [sender EXCEPT ![s] = "gone"]
    /\ UNCHANGED <<taskVars, callbackVars, held, receiver, clientVars>>

\* Recv fails: the connection is over.
RecvFails(s) ==
    /\ receiver[s] = "recv"
    /\ receiver' = [receiver EXCEPT ![s] = "gone"]
    /\ UNCHANGED <<taskVars, callbackVars, sender, held, clientVars>>

\* What the client may say about a request: an answer can have been under way
\* while the job went on.
Answers(req) ==
    LET of(status) == [status |-> status, job |-> req.job]
    IN  CASE req.type = "sign" -> {of(IF jobs[req.job] = "refused" THEN "failed" ELSE "started")}
          [] req.type = "status" -> {of("running"), of(jobs[req.job])}
          [] req.type = "cancel" -> {of("running")}

\* A message from the client.
Recv(s) ==
    /\ receiver[s] = "recv"
    /\ \E req \in seen : \E r \in Answers(req) : CallAndDeregister(req.id, r)
    /\ UNCHANGED <<taskVars, streamVars, clientVars>>

\* A job of the client ends.
JobEnds ==
    /\ \E m \in Message, x \in {"completed", "failed"} :
          jobs[m] = "running" /\ jobs' = [jobs EXCEPT ![m] = x]
    /\ UNCHANGED <<taskVars, callbackVars, streamVars, seen>>

-----------------------------------------------------------------------------
DoStep(t) == GiveUp(t) \/ Receive(t)

SigningNext ==
    \/ \E t \in Signer :
          \/ SignArtifact(t) \/ ArtifactSigningStatus(t) \/ CancelSigning(t)
          \/ DoStep(t) \/ Tick(t) \/ StopTask(t) \/ CallTimesOut(t)
          \/ \E s \in Stream : Hand(t, s)
    \/ \E s \in Stream :
          \/ Connect(s) \/ SendArrives(s) \/ SendIsLost(s) \/ SendFails(s)
          \/ SenderEnds(s) \/ RecvFails(s) \/ Recv(s)
    \/ JobEnds

SigningSpec == SigningInit /\ [][SigningNext]_signingVars

\* Status and cancel calls have a timeout, and the watchdog stops a task that
\* hangs in SignArtifact; a context that is done, and an answer, are seen.
SigningFairness ==
    \A t \in Signer :
        /\ WF_signingVars(DoStep(t))
        /\ WF_signingVars(CallTimesOut(t))
        /\ WF_signingVars(stage[t] = "sign" /\ StopTask(t))

-----------------------------------------------------------------------------
(* Properties *)

\* An ID is registered exactly while its caller is in do and has no answer, so
\* that an answer always has room in its channel and the callback never blocks
\* under callbackMu, and nothing of a call that gave up is left behind.
RegisteredWhileAwaited ==
    callback = {ID(t) : t \in {u \in Signer : do[u] # "none" /\ respCh[ID(u)] = NoAnswer}}

\* What signArtifacts returns is the output of the job it started in this very
\* attempt, which the client has completed: late, repeated and crossed answers
\* to other messages never count.
SignedIsOwn ==
    \A t \in Signer : stage[t] = "signed" =>
        /\ outcome[t] = asked[t]
        /\ jobs[asked[t]] = "completed"

\* Every call returns, whatever becomes of the streams.
CallsReturn == \A t \in Signer : do[t] # "none" ~> do[t] = "none"
=============================================================================
