---------------------------- MODULE ReluiWorker ----------------------------
(***************************************************************************)
(* relui's worker around one workflow: src/internal/relui/worker.go and    *)
(* listener.go over the tables of queries/workflows.sql, started by        *)
(* cmd/relui/main.go.  The engine is module Workflow, whose `rows' is the  *)
(* tasks table.  Added here: the workflow's own row, the worker's loop and *)
(* errgroup, the user's stop button, crashes of the process at any point,  *)
(* and ResumeAll after a restart.                                          *)
(***************************************************************************)
EXTENDS Workflow

CONSTANTS
    MaxCrashes,     \* bound on the crashes of the process
    RecordMayFail   \* may the write of WorkflowFinished fail?

ASSUME ReluiAssumption == /\ MaxCrashes \in Nat /\ RecordMayFail \in BOOLEAN
                          /\ IsFiniteSet(Caller) /\ "none" \notin Name

VARIABLES
    proc,           \* "up" or "down"
    worker,         \* Worker.Run: "running", "cancelled" (its context is), "stopped"
    phase,          \* how far this workflow got in this process
    wfRow,          \* the workflow's row: absent, unfinished, ok, error
    stopped,        \* a user asked for the workflow to be stopped
    crashes,        \* crashes so far
    starts,         \* executions started of each name, over all processes
    interrupted,    \* tasks whose execution a crash cut off, until retried
    definition      \* what this process has under the workflow's name: one that
                    \* fits its row ("fits"), none, or none that the stored
                    \* parameters and results fit ("gone"), or one again ("back")

reluiVars == <<proc, worker, phase, wfRow, stopped, crashes, starts, interrupted, definition>>
allVars == <<vars, reluiVars>>

RowOK(n) == n \in DOMAIN rows /\ rows[n].finished /\ ~rows[n].failed

ReluiInit ==
    /\ Init
    /\ proc = "up"
    /\ worker = "running"
    /\ phase = "none"
    /\ wfRow = "absent"
    /\ stopped = FALSE
    /\ crashes = 0
    /\ starts = [n \in Name |-> 0]
    /\ interrupted = {}
    /\ definition = "fits"

-----------------------------------------------------------------------------
(* Starting *)

\* StartWorkflow: workflow.Start and the insert of WorkflowStarted.
StartWorkflow ==
    /\ proc = "up" /\ phase = "none" /\ wfRow = "absent" /\ definition # "gone"
    /\ tasks' = [d \in InitialDefs |-> Fresh]
    /\ attempts' = [d \in InitialDefs |-> 0]
    /\ wdef' = InitialDefs
    /\ wfRow' = "unfinished"
    /\ phase' = "loaded"
    /\ UNCHANGED <<pending, retryCommands, pc, runningExpansion, doneOnce, stateChan,
                   answer, cancelled, execs, calls, rows, proc, worker, stopped,
                   crashes, starts, interrupted, definition>>

\* Worker.run: into the pending channel, or "worker stopped".  Both cases of
\* the select can be ready.
Enqueue ==
    /\ proc = "up" /\ phase = "loaded"
    /\ \/ phase' = "queued"
       \/ worker = "stopped" /\ phase' = "ended"
    /\ UNCHANGED <<vars, proc, worker, wfRow, stopped, crashes, starts, interrupted, definition>>

\* Worker.Run receives the workflow; markRunning; wf.Run starts.
Dequeue ==
    /\ proc = "up" /\ phase = "queued" /\ worker # "stopped"
    /\ phase' = "running"
    /\ cancelled' = (worker = "cancelled")
    /\ UNCHANGED <<engineVars, calls, rows, proc, worker, wfRow, stopped, crashes,
                   starts, interrupted, definition>>

-----------------------------------------------------------------------------
(* Running *)

\* A step of the engine.  RetryTask finds the workflow in Worker.running only
\* while it runs.
EngineStep ==
    /\ proc = "up" /\ phase = "running"
    /\ \/ RunStep
       \/ \E x \in execs : ExecutionStep(x)
       \/ \E c \in Caller : \/ \E name \in Name : RequestRetry(c, name)
                            \/ AbandonRetry(c)
    /\ starts' = [n \in Name |->
                    starts[n] + Cardinality({x \in execs' \ execs : x.def[1] = n})]
    /\ interrupted' = IF pc = "send" /\ pc' = "reply"
                      THEN interrupted \ {calls[answer.to].name} ELSE interrupted
    /\ UNCHANGED <<proc, worker, phase, wfRow, stopped, crashes, definition>>

\* stopWorkflowHandler, cancelWorkflow
StopWorkflow ==
    /\ proc = "up" /\ phase = "running"
    /\ Cancel
    /\ stopped' = TRUE
    /\ UNCHANGED <<proc, worker, phase, wfRow, crashes, starts, interrupted, definition>>

\* Run has returned: WorkflowFinished and markStopped.  The write uses the
\* errgroup's context and fails when that is done.
Finish ==
    /\ proc = "up" /\ phase = "running" /\ Returned /\ worker = "running"
    /\ wfRow' = IF pc = "done" THEN "ok" ELSE "error"
    /\ phase' = "ended"
    /\ UNCHANGED <<vars, proc, worker, stopped, crashes, starts, interrupted, definition>>

\* An error of WorkflowFinished is the errgroup's: its context is cancelled.
FinishFails ==
    /\ proc = "up" /\ phase = "running" /\ Returned
    /\ worker # "running" \/ RecordMayFail
    /\ worker' = IF worker = "running" THEN "cancelled" ELSE worker
    /\ phase' = "ended"
    /\ UNCHANGED <<vars, proc, wfRow, stopped, crashes, starts, interrupted, definition>>

\* Another workflow's WorkflowFinished fails, which cancels this one's context.
OtherFinishFails ==
    /\ RecordMayFail
    /\ proc = "up" /\ worker = "running"
    /\ worker' = "cancelled"
    /\ cancelled' = (cancelled \/ phase = "running")
    /\ UNCHANGED <<engineVars, calls, rows, proc, phase, wfRow, stopped, crashes,
                   starts, interrupted, definition>>

\* Worker.Run leaves its loop and closes done.  main ignores what it returns.
WorkerStops ==
    /\ proc = "up" /\ worker = "cancelled"
    /\ worker' = "stopped"
    /\ UNCHANGED <<vars, proc, phase, wfRow, stopped, crashes, starts, interrupted, definition>>

-----------------------------------------------------------------------------
(* Crash and restart *)

\* The process dies with its goroutines, channels and HTTP requests.  What the
\* listener wrote stays.
Crash ==
    /\ proc = "up" /\ crashes < MaxCrashes
    /\ crashes' = crashes + 1
    /\ proc' = "down"
    /\ worker' = "stopped"
    /\ phase' = "none"
    /\ interrupted' = interrupted \cup {d[1] : d \in {t \in Running : ~IsExpansion(t)}}
    /\ tasks' = EmptyFcn /\ attempts' = EmptyFcn /\ wdef' = {} /\ pending' = EmptyFcn
    /\ execs' = {} /\ stateChan' = <<>> /\ retryCommands' = <<>> /\ answer' = NoReply
    /\ pc' = "create" /\ runningExpansion' = FALSE /\ doneOnce' = TRUE
    /\ cancelled' = FALSE
    /\ calls' = [c \in Caller |->
                   IF calls[c].pc = "waiting" THEN [calls[c] EXCEPT !.pc = "gone"]
                   ELSE calls[c]]
    /\ UNCHANGED <<rows, wfRow, stopped, starts, definition>>

\* The process that comes up may be another version of the program.
Redeploy == definition' \in IF definition = "fits" THEN {"fits", "gone"} ELSE {"gone", "back"}


\* main: NewWorker, go w.Run.
Restart ==
    /\ proc = "down"
    /\ proc' = "up"
    /\ worker' = "running"
    /\ phase' = IF wfRow = "unfinished" THEN "resume" ELSE "none"
    /\ Redeploy
    /\ UNCHANGED <<vars, wfRow, stopped, crashes, starts, interrupted>>

\* Mutant: interrupted tasks stay as they are.
FailNothing ==
    /\ proc = "up" /\ phase = "resume"
    /\ phase' = "marked"
    /\ UNCHANGED <<vars, proc, worker, wfRow, stopped, crashes, starts, interrupted, definition>>

\* Resume: FailUnfinishedTasks.  The queries run on w.db, not on the
\* transaction, so this is committed on its own.
FailUnfinishedTasks ==
    /\ proc = "up" /\ phase = "resume"
    /\ rows' = [n \in DOMAIN rows |->
                  IF rows[n].started /\ ~rows[n].finished
                  THEN [rows[n] EXCEPT !.finished = TRUE, !.failed = TRUE]
                  ELSE rows[n]]
    /\ phase' = "marked"
    /\ UNCHANGED <<engineVars, cancelled, calls, proc, worker, wfRow, stopped,
                   crashes, starts, interrupted, definition>>

\* The definition is there, UnmarshalWorkflow succeeds, and workflow.Resume finds
\* a row for each initial task.
CanResume == definition # "gone" /\ Initial \subseteq DOMAIN rows

\* Resume: the rest.
Resume ==
    /\ proc = "up" /\ phase = "marked"
    /\ CanResume
    /\ pending' = rows
    /\ tasks' = [d \in InitialDefs |-> LoadTaskState(rows, d)]
    /\ attempts' = [d \in InitialDefs |-> 0]
    /\ wdef' = InitialDefs
    /\ phase' = "loaded"
    /\ UNCHANGED <<retryCommands, pc, runningExpansion, doneOnce, stateChan, answer,
                   cancelled, execs, calls, rows, proc, worker, wfRow, stopped,
                   crashes, starts, interrupted, definition>>

\* "no workflow named", "UnmarshalWorkflow", "task state not found": the workflow is
\* recorded as finished with an error.  Whether that succeeds is not looked at.
ResumeFails ==
    /\ proc = "up" /\ phase = "marked"
    /\ ~CanResume
    /\ wfRow' = "error" \/ (RecordMayFail /\ wfRow' = wfRow)
    /\ phase' = "ended"
    /\ UNCHANGED <<vars, proc, worker, stopped, crashes, starts, interrupted, definition>>

-----------------------------------------------------------------------------
WorkerStep ==
    \/ Enqueue \/ Dequeue \/ Finish \/ FinishFails \/ WorkerStops
    \/ Restart \/ FailUnfinishedTasks \/ Resume \/ ResumeFails

ReluiNext ==
    \/ StartWorkflow
    \/ EngineStep
    \/ StopWorkflow
    \/ OtherFinishFails
    \/ Crash
    \/ WorkerStep

\* The supervisor restarts a process that died.
ReluiSpec == ReluiInit /\ [][ReluiNext]_allVars
ReluiFairness ==
    /\ WF_allVars(WorkerStep)
    /\ WF_allVars(EngineStep /\ RunStep)

-----------------------------------------------------------------------------
(* Properties *)

\* "Any started but unfinished tasks are in an unknown state.  Mark them as
\* such for human review": a task that a crash interrupted does not execute
\* again until a user has retried it.
InterruptedAwaitsReview == \A x \in execs : x.def[1] \notin interrupted

\* The executions of a task over all processes, crashes included, stay within
\* MaxRetries for the start and for each RetryTask call that names it.
LifetimeBudget ==
    \A n \in Name \ Expansion :
        starts[n] <= MaxRetries * (1 + Cardinality({c \in Caller : calls[c].name = n}))

\* A workflow recorded as successful has every task, those of its expansions
\* included, recorded as successful, and nothing of a recorded workflow is still
\* executing.  One is recorded as failed only if a user stopped it, a crash came
\* before all its first rows were written, or it was to be resumed by a process
\* without a definition that fits: neither a crash later on nor the end of the
\* worker does that, so whatever was running can be resumed.
RecordedOutcome ==
    /\ wfRow \in {"ok", "error"} => execs = {}
    /\ wfRow = "ok" => \A n \in Initial \cup UNION {Adds[e] : e \in Expansion} : RowOK(n)
    /\ wfRow = "error" => stopped \/ ~(Initial \subseteq DOMAIN rows) \/ definition # "fits"

\* A task whose success is in the database never changes there again, crashes
\* and resumptions included, so no process executes it again.
RecordedSuccessIsFinal ==
    [][\A n \in DOMAIN rows \ Expansion : RowOK(n) => rows'[n] = rows[n]]_allVars

\* The process is up, and nobody in it will take the workflow further: its own or
\* another WorkflowFinished write failed, which ended the worker, or the one of a
\* resumption that was given up did.  The next process resumes it.
Abandoned ==
    /\ proc = "up"
    /\ \/ worker = "stopped" /\ phase \in {"queued", "ended"}
       \/ phase = "ended" /\ ~CanResume

=============================================================================
