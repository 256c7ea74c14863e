------------------------------ MODULE Workflow ------------------------------
(***************************************************************************)
(* The release workflow engine, src/internal/workflow/workflow.go: one     *)
(* instantiated Workflow, the goroutine that executes Workflow.Run, the    *)
(* goroutines it starts for tasks and expansions (runTask, runExpansion),  *)
(* the callers of RetryTask, and the rows a Listener persists on           *)
(* TaskStateChanged.                                                       *)
(*                                                                         *)
(* A task definition is a pair <<name, gen>>.  The definitions the         *)
(* workflow was started with have gen 0; the ones an expansion adds have   *)
(* the number of the expansion's execution that built them, because every  *)
(* execution builds fresh *taskDefinition values with the same names.      *)
(* Task arguments and results are left out: a task is ready when its       *)
(* dependencies are, and succeeds or fails.                                *)
(***************************************************************************)
EXTENDS Integers, Sequences, FiniteSets

CONSTANTS
    Name,               \* names of tasks and expansions
    Initial,            \* the names in the definition passed to Start
    Expansion,          \* the initial names that are expansions
    Deps,               \* [Name -> SUBSET Name]: arguments and After options
    Adds,               \* [Expansion -> SUBSET Name]: tasks an expansion adds
    Result,             \* [Expansion -> SUBSET Name]: tasks its value is made of
    MaxRetries,         \* workflow.MaxRetries
    Caller,             \* one RetryTask call each: bounds the manual retries
    OverlappingRetries, \* may a task be retried again before a retry took effect?
    ImpatientCallers    \* may RetryTask's context end before the reply?

ASSUME WorkflowAssumption ==
    /\ Initial \subseteq Name
    /\ Expansion \subseteq Initial
    /\ Deps \in [Name -> SUBSET Name]
    /\ Adds \in [Expansion -> SUBSET (Name \ Initial)]
    /\ Result \in [Expansion -> SUBSET Name]
    /\ \A e \in Expansion : Result[e] \subseteq Adds[e]
    \* A task depends on initial tasks and on tasks of its own expansion.
    /\ \A n \in Initial : Deps[n] \subseteq Initial
    /\ \A e \in Expansion : \A n \in Adds[e] : Deps[n] \subseteq Initial \cup Adds[e]
    /\ MaxRetries \in Nat \ {0}
    /\ IsFiniteSet(Initial)
    /\ OverlappingRetries \in BOOLEAN
    /\ ImpatientCallers \in BOOLEAN

VARIABLES
    \* The Workflow value.
    tasks,          \* w.tasks: taskDefinition -> taskState
    wdef,           \* w.def.tasks, the definitions that have a name to retry by
    pending,        \* w.pendingStates: name -> stored row
    retryCommands,  \* w.retryCommands, a queue of callers
    \* Run's goroutine.
    pc,             \* where it is
    runningExpansion,
    doneOnce,       \* doneOnce # nil
    stateChan,      \* results and resets on their way to Run
    answer,         \* the reply Run is sending: [to, res]
    \* The rest of the program.
    cancelled,      \* the context passed to Run is done
    execs,          \* task and expansion goroutines that have not finished
    attempts,       \* executions started of each definition (numbers them)
    calls,          \* the RetryTask calls
    rows            \* the listener's table: name -> exported TaskState

engineVars == <<tasks, wdef, pending, retryCommands, pc, runningExpansion,
                doneOnce, stateChan, answer, execs, attempts>>
vars == <<tasks, wdef, pending, retryCommands, pc, runningExpansion, doneOnce,
          stateChan, answer, cancelled, execs, attempts, calls, rows>>

-----------------------------------------------------------------------------
(* Values *)

Def == Name \X Nat
DefOf(n) == <<n, 0>>
InitialDefs == {DefOf(n) : n \in Initial}
IsExpansion(d) == d[1] \in Expansion

\* taskState: `failed' is err # nil, `run' identifies the execution whose
\* resultValue the state carries.
TaskState == [created : BOOLEAN, started : BOOLEAN, finished : BOOLEAN,
              failed : BOOLEAN, retryCount : Nat, run : Nat]

Fresh == [created |-> FALSE, started |-> FALSE, finished |-> FALSE,
          failed |-> FALSE, retryCount |-> 0, run |-> 0]

\* Mutant: the reset forgets `started'.
ResetStateKeepsStarted(retryCount) ==
    [Fresh EXCEPT !.created = TRUE, !.started = TRUE, !.retryCount = retryCount]

\* The state runTask returns for an automatic retry, and Run sends itself for
\* a manual one.
ResetState(retryCount) == [created |-> TRUE, started |-> FALSE, finished |-> FALSE,
                           failed |-> FALSE, retryCount |-> retryCount, run |-> 0]

\* taskState.toExported
Row == [started : BOOLEAN, finished : BOOLEAN, failed : BOOLEAN, retryCount : Nat]
ToExported(t) == [started |-> t.started, finished |-> t.finished,
                  failed |-> t.failed, retryCount |-> t.retryCount]

Put(f, k, v) == [x \in DOMAIN f \cup {k} |-> IF x = k THEN v ELSE f[x]]
EmptyFcn == [x \in {} |-> x]

NoReply == [to |-> "none", res |-> "none"]

StateChanCap == 2 * Cardinality(Initial)
RetryCommandsCap == Cardinality(Initial)

-----------------------------------------------------------------------------
(* Readiness *)

TaskReady(d) == d \in DOMAIN tasks /\ tasks[d].finished /\ ~tasks[d].failed

\* Mutant: an expansion's value counts as ready with the expansion itself.
ValueReadyShallow(d) == TaskReady(d)

\* Value.ready: an expansion's value is ready when the expansion is and the
\* tasks that its result stands for are.
ValueReady(d) ==
    /\ TaskReady(d)
    /\ IsExpansion(d) => \A n \in Result[d[1]] : TaskReady(<<n, tasks[d].run>>)

DepsOf(d) == {<<n, IF n \in Initial THEN 0 ELSE d[2]>> : n \in Deps[d[1]]}

\* taskArgs
ArgsReady(d) == \A dep \in DepsOf(d) : ValueReady(dep)

Running == {d \in DOMAIN tasks : tasks[d].started /\ ~tasks[d].finished}
AllDone == \A d \in DOMAIN tasks : tasks[d].finished /\ ~tasks[d].failed

-----------------------------------------------------------------------------
(* Start *)

\* Mutants: the stored retry count is lost; a finished expansion is not run
\* again; a stored success is run again.
LoadForgetsRetries(stored, d) ==
    IF d[1] \in DOMAIN stored
    THEN LET row == stored[d[1]]
             fin == row.finished /\ ~IsExpansion(d)
         IN  [created |-> TRUE, started |-> fin, finished |-> fin,
              failed |-> row.failed, retryCount |-> 0, run |-> 0]
    ELSE Fresh
LoadSkipsExpansions(stored, d) ==
    IF d[1] \in DOMAIN stored
    THEN LET row == stored[d[1]]
         IN  [created |-> TRUE, started |-> row.finished, finished |-> row.finished,
              failed |-> row.failed, retryCount |-> row.retryCount, run |-> 0]
    ELSE Fresh
LoadRerunsSuccess(stored, d) ==
    IF d[1] \in DOMAIN stored
    THEN LET row == stored[d[1]]
             fin == row.finished /\ row.failed /\ ~IsExpansion(d)
         IN  [created |-> TRUE, started |-> fin, finished |-> fin,
              failed |-> row.failed, retryCount |-> row.retryCount, run |-> 0]
    ELSE Fresh

\* loadTaskState.  Stored task rows are never "started": an unfinished one is
\* new again; expansions run every time.
LoadTaskState(stored, d) ==
    IF d[1] \in DOMAIN stored
    THEN LET row == stored[d[1]]
             fin == row.finished /\ ~IsExpansion(d)
         IN  [created |-> TRUE, started |-> fin, finished |-> fin,
              failed |-> row.failed, retryCount |-> row.retryCount, run |-> 0]
    ELSE Fresh

\* Start (nothing is stored) and the start of Run.
Init ==
    /\ tasks = [d \in InitialDefs |-> Fresh]
    /\ wdef = InitialDefs
    /\ pending = EmptyFcn
    /\ retryCommands = <<>>
    /\ pc = "create"
    /\ runningExpansion = FALSE
    /\ doneOnce = TRUE
    /\ stateChan = <<>>
    /\ answer = NoReply
    /\ cancelled = FALSE
    /\ execs = {}
    /\ attempts = [d \in InitialDefs |-> 0]
    /\ calls = [c \in Caller |-> [pc |-> "idle", name |-> "none", res |-> "none"]]
    /\ rows = EmptyFcn

-----------------------------------------------------------------------------
(* Run's goroutine: the first loop over w.tasks *)

\* A task that Run sees for the first time is announced to the listener.
CreateTask(d) ==
    /\ pc = "create"
    /\ ~tasks[d].created
    /\ tasks' = [tasks EXCEPT ![d].created = TRUE]
    /\ rows' = Put(rows, d[1], ToExported(tasks'[d]))
    /\ UNCHANGED <<wdef, pending, retryCommands, pc, runningExpansion, doneOnce,
                   stateChan, answer, cancelled, execs, attempts, calls>>

\* Where Run goes once it has started what it could: out, if the context is
\* done and nothing runs, else into the select.
AfterStarts == IF Running = {} /\ cancelled THEN "stopped" ELSE "select"

\* End of the first loop: leave with the outputs, or start tasks, or skip
\* starting them because the context is done.
Counted ==
    /\ pc = "create"
    /\ \A d \in DOMAIN tasks : tasks[d].created
    /\ runningExpansion' = FALSE
    /\ pc' = IF AllDone THEN "done"
             ELSE IF ~cancelled THEN "start" ELSE AfterStarts
    /\ UNCHANGED <<tasks, wdef, pending, retryCommands, doneOnce, stateChan,
                   answer, cancelled, execs, attempts, calls, rows>>

-----------------------------------------------------------------------------
(* Run's goroutine: the second loop *)

MayStart(d) ==
    /\ ~tasks[d].started
    /\ ArgsReady(d)
    /\ ~(IsExpansion(d) /\ runningExpansion)

\* The goroutine gets a copy of the state; an expansion's also gets a clone of
\* the definition to add to.
Execution(d) == [def |-> d, run |-> attempts[d] + 1, failed |-> tasks[d].failed,
                 retryCount |-> tasks[d].retryCount,
                 base |-> IF IsExpansion(d) THEN wdef ELSE {}]

StartTask(d) ==
    /\ pc = "start"
    /\ MayStart(d)
    /\ tasks' = [tasks EXCEPT ![d].started = TRUE]
    /\ rows' = Put(rows, d[1], ToExported(tasks'[d]))
    /\ attempts' = [attempts EXCEPT ![d] = @ + 1]
    /\ execs' = execs \cup {Execution(d)}
    /\ runningExpansion' = (runningExpansion \/ IsExpansion(d))
    /\ UNCHANGED <<wdef, pending, retryCommands, pc, doneOnce, stateChan, answer,
                   cancelled, calls>>

Started ==
    /\ pc = "start"
    /\ \A d \in DOMAIN tasks : ~MayStart(d)
    /\ pc' = AfterStarts
    /\ UNCHANGED <<tasks, wdef, pending, retryCommands, runningExpansion,
                   doneOnce, stateChan, answer, cancelled, execs, attempts,
                   calls, rows>>

-----------------------------------------------------------------------------
(* Run's goroutine: the select *)

\* w.tasks after expand: the definitions not known yet get a state, a stored
\* one if there is one.
Expand(expanded) ==
    [d \in DOMAIN tasks \cup expanded |->
        IF d \in DOMAIN tasks THEN tasks[d] ELSE LoadTaskState(pending, d)]

IsSuccessfulExpansion(m) == IsExpansion(m.def) /\ m.state.finished /\ ~m.state.failed

\* case state := <-stateChan, for a task, a reset, or an expansion that failed.
ReceiveState ==
    /\ pc = "select"
    /\ stateChan # <<>>
    /\ ~IsSuccessfulExpansion(Head(stateChan))
    /\ LET m == Head(stateChan) IN
        /\ tasks' = [tasks EXCEPT ![m.def] = m.state]
        /\ rows' = Put(rows, m.def[1], ToExported(m.state))
    /\ stateChan' = Tail(stateChan)
    /\ pc' = "create"
    /\ UNCHANGED <<wdef, pending, retryCommands, runningExpansion, doneOnce,
                   answer, cancelled, execs, attempts, calls>>

\* The same case for an expansion that succeeded: its clone becomes w.def.
ReceiveExpansion ==
    /\ pc = "select"
    /\ stateChan # <<>>
    /\ IsSuccessfulExpansion(Head(stateChan))
    /\ LET m == Head(stateChan) IN
        /\ wdef' = m.expanded
        /\ tasks' = [Expand(m.expanded) EXCEPT ![m.def] = m.state]
        /\ attempts' = [d \in DOMAIN tasks \cup m.expanded |->
                          IF d \in DOMAIN tasks THEN attempts[d] ELSE 0]
        /\ rows' = Put(rows, m.def[1], ToExported(m.state))
    /\ runningExpansion' = FALSE
    /\ stateChan' = Tail(stateChan)
    /\ pc' = "create"
    /\ UNCHANGED <<pending, retryCommands, doneOnce, answer, cancelled, execs,
                   calls>>

\* w.def.tasks[name]
RetryTarget(name) == CHOOSE d \in wdef : d[1] = name

\* Mutants: a task that is running, or one that succeeded, can be retried.
RetryVerdictAnyUnfinished(name) ==
    IF \A d \in wdef : d[1] # name THEN "unknown"
    ELSE LET d == RetryTarget(name)
         IN  IF tasks[d].finished => tasks[d].failed THEN "ok" ELSE "not failed"
RetryVerdictAnyFinished(name) ==
    IF \A d \in wdef : d[1] # name THEN "unknown"
    ELSE LET d == RetryTarget(name)
         IN  IF tasks[d].finished THEN "ok" ELSE "not failed"

\* case retry := <-w.retryCommands.  The name is looked up in w.def; a task
\* that did not finish in error is refused.
RetryVerdict(name) ==
    IF \A d \in wdef : d[1] # name THEN "unknown"
    ELSE LET d == RetryTarget(name)
         IN  IF tasks[d].finished /\ tasks[d].failed THEN "ok" ELSE "not failed"

ReceiveRetry ==
    /\ pc = "select"
    /\ retryCommands # <<>>
    /\ LET c == Head(retryCommands)
           verdict == RetryVerdict(calls[c].name)
       IN  /\ answer' = [to |-> c, res |-> verdict]
           /\ pc' = IF verdict = "ok" THEN "send" ELSE "reply"
    /\ retryCommands' = Tail(retryCommands)
    /\ UNCHANGED <<tasks, wdef, pending, runningExpansion, doneOnce, stateChan,
                   cancelled, execs, attempts, calls, rows>>

\* stateChan <- taskState{def: def, created: true}: Run sends to the channel
\* that only Run receives from.
SendReset ==
    /\ pc = "send"
    /\ Len(stateChan) < StateChanCap
    /\ stateChan' = Append(stateChan,
          [def |-> RetryTarget(calls[answer.to].name), state |-> ResetState(0),
           expanded |-> {}])
    /\ pc' = "reply"
    /\ UNCHANGED <<tasks, wdef, pending, retryCommands, runningExpansion,
                   doneOnce, answer, cancelled, execs, attempts, calls, rows>>

\* retry.reply <- err on an unbuffered channel: the caller must be receiving.
SendReply ==
    /\ pc = "reply"
    /\ calls[answer.to].pc = "waiting"
    /\ calls' = [calls EXCEPT ![answer.to].pc = "done", ![answer.to].res = answer.res]
    /\ answer' = NoReply
    /\ pc' = "create"
    /\ UNCHANGED <<tasks, wdef, pending, retryCommands, runningExpansion,
                   doneOnce, stateChan, cancelled, execs, attempts, rows>>


\* case <-doneOnce
ReceiveDone ==
    /\ pc = "select"
    /\ cancelled
    /\ doneOnce
    /\ doneOnce' = FALSE
    /\ pc' = "create"
    /\ UNCHANGED <<tasks, wdef, pending, retryCommands, runningExpansion,
                   stateChan, answer, cancelled, execs, attempts, calls, rows>>

-----------------------------------------------------------------------------
(* The goroutines of tasks and expansions *)

\* The error of the copied state is only ever overwritten by another one.
\* runTask: a failure is reset for an automatic retry unless the task called
\* DisableRetries or used up MaxRetries.  A fired watchdog is a failure.
TaskOutcome(x, err, disableRetries) ==
    IF (x.failed \/ err) /\ ~disableRetries /\ x.retryCount + 1 < MaxRetries
    THEN ResetState(x.retryCount + 1)
    ELSE [created |-> TRUE, started |-> TRUE, finished |-> TRUE,
          failed |-> x.failed \/ err, retryCount |-> x.retryCount, run |-> x.run]

TaskFinishes(x, err, disableRetries) ==
    /\ ~IsExpansion(x.def)
    /\ Len(stateChan) < StateChanCap
    /\ stateChan' = Append(stateChan,
          [def |-> x.def, state |-> TaskOutcome(x, err, disableRetries),
           expanded |-> {}])
    /\ execs' = execs \ {x}
    /\ UNCHANGED <<tasks, wdef, pending, retryCommands, pc, runningExpansion,
                   doneOnce, answer, cancelled, attempts, calls, rows>>

\* runExpansion: never retried automatically.  A clone that w.validate would
\* refuse counts as a failed execution.
ExpansionOutcome(x, err) ==
    [created |-> TRUE, started |-> TRUE, finished |-> TRUE,
     failed |-> x.failed \/ err, retryCount |-> x.retryCount, run |-> x.run]

ExpansionFinishes(x, err) ==
    /\ IsExpansion(x.def)
    /\ Len(stateChan) < StateChanCap
    /\ stateChan' = Append(stateChan,
          [def |-> x.def, state |-> ExpansionOutcome(x, err),
           expanded |-> IF err THEN {}
                        ELSE x.base \cup {<<n, x.run>> : n \in Adds[x.def[1]]}])
    /\ execs' = execs \ {x}
    /\ UNCHANGED <<tasks, wdef, pending, retryCommands, pc, runningExpansion,
                   doneOnce, answer, cancelled, attempts, calls, rows>>

-----------------------------------------------------------------------------
(* Callers of RetryTask, and the context *)

\* A retry of the named task is on its way: requested and not looked at yet,
\* or granted and not applied to w.tasks yet.
RetryInFlight(name) ==
    \/ \E c \in Caller : /\ calls[c].name = name
                         /\ \/ \E i \in DOMAIN retryCommands : retryCommands[i] = c
                            \/ pc = "send" /\ answer.to = c
    \/ \E i \in DOMAIN stateChan : /\ stateChan[i].def[1] = name
                                   /\ tasks[stateChan[i].def].finished

\* w.retryCommands <- retryCommand{name, reply}
RequestRetry(c, name) ==
    /\ calls[c].pc = "idle"
    /\ Len(retryCommands) < RetryCommandsCap
    /\ OverlappingRetries \/ ~RetryInFlight(name)
    /\ retryCommands' = Append(retryCommands, c)
    /\ calls' = [calls EXCEPT ![c].pc = "waiting", ![c].name = name]
    /\ UNCHANGED <<tasks, wdef, pending, pc, runningExpansion, doneOnce,
                   stateChan, answer, cancelled, execs, attempts, rows>>

\* RetryTask's own context ends while it waits for the reply.
AbandonRetry(c) ==
    /\ ImpatientCallers
    /\ calls[c].pc = "waiting"
    /\ calls' = [calls EXCEPT ![c].pc = "gone"]
    /\ UNCHANGED <<tasks, wdef, pending, retryCommands, pc, runningExpansion,
                   doneOnce, stateChan, answer, cancelled, execs, attempts, rows>>

Cancel ==
    /\ ~cancelled
    /\ cancelled' = TRUE
    /\ UNCHANGED <<tasks, wdef, pending, retryCommands, pc, runningExpansion,
                   doneOnce, stateChan, answer, execs, attempts, calls, rows>>

-----------------------------------------------------------------------------
Returned == pc \in {"done", "stopped"}

RunStep ==
    \/ \E d \in DOMAIN tasks : CreateTask(d) \/ StartTask(d)
    \/ Counted
    \/ Started
    \/ ReceiveState
    \/ ReceiveExpansion
    \/ ReceiveRetry
    \/ SendReset
    \/ SendReply
    \/ ReceiveDone

ExecutionStep(x) ==
    \E err \in BOOLEAN :
        \/ \E disableRetries \in BOOLEAN : TaskFinishes(x, err, disableRetries)
        \/ ExpansionFinishes(x, err)

Next ==
    \/ RunStep
    \/ \E x \in execs : ExecutionStep(x)
    \/ \E c \in Caller : \/ \E name \in Name : RequestRetry(c, name)
                         \/ AbandonRetry(c)
    \/ Cancel

Spec == Init /\ [][Next]_vars

\* Run is a goroutine that is always scheduled.  Of the functions of tasks and
\* expansions nothing is assumed: one that awaits a person's approval resets its
\* watchdog for as long as it takes, and expansions have none.
FairSpec == Spec /\ WF_vars(RunStep)

-----------------------------------------------------------------------------
(* Properties *)

ExecType == [def : Def, run : Nat, failed : BOOLEAN, retryCount : Nat,
             base : SUBSET Def]
MessageType == [def : Def, state : TaskState, expanded : SUBSET Def]
CallType == [pc : {"idle", "waiting", "done", "gone"}, name : Name \cup {"none"},
             res : {"none", "ok", "not failed", "unknown"}]

\* Type invariant: w.tasks and the counters cover the same definitions, every
\* goroutine and message is about a known definition, and Run is at one of
\* its blocking points.
TypeOK ==
    /\ tasks \in [DOMAIN tasks -> TaskState]
    /\ DOMAIN tasks \subseteq Def
    /\ wdef \subseteq DOMAIN tasks
    /\ attempts \in [DOMAIN tasks -> Nat]
    /\ pending \in [DOMAIN pending -> Row]
    /\ retryCommands \in Seq(Caller)
    /\ pc \in {"create", "start", "select", "send", "reply", "done", "stopped"}
    /\ runningExpansion \in BOOLEAN
    /\ doneOnce \in BOOLEAN
    /\ stateChan \in Seq(MessageType)
    /\ answer \in [to : Caller \cup {"none"}, res : {"none", "ok", "not failed", "unknown"}]
    /\ cancelled \in BOOLEAN
    /\ execs \subseteq ExecType
    /\ calls \in [Caller -> CallType]
    /\ rows \in [DOMAIN rows -> Row]
    /\ \A x \in execs : x.def \in DOMAIN tasks
    /\ \A i \in DOMAIN stateChan : stateChan[i].def \in DOMAIN tasks

\* An execution in progress is the only one of its task: Run counts the task
\* as running and has no other state for it in stateChan.  Two executions of
\* one release step (tagging, signing, announcing) would do it twice.
OneExecutionPerTask ==
    \A x \in execs :
        /\ x.def \in Running
        /\ \A y \in execs : y.def = x.def => y = x
        /\ \A i \in DOMAIN stateChan : stateChan[i].def # x.def

Succeeded(d) == d \in DOMAIN tasks /\ tasks[d].finished /\ ~tasks[d].failed

\* Everything a task depends on, the tasks behind an expansion's value
\* included, stays finished and successful for as long as the task executes,
\* in spite of retries and expansions meanwhile.
DepsRespected ==
    \A x \in execs : \A dep \in DepsOf(x.def) :
        /\ Succeeded(dep)
        /\ IsExpansion(dep) =>
              \A n \in Result[dep[1]] : Succeeded(<<n, tasks[dep].run>>)

\* The state of a task that finished without error never changes again: the
\* result its dependents were given stays the result.
SuccessIsFinal == [][\A d \in DOMAIN tasks : Succeeded(d) => tasks'[d] = tasks[d]]_vars

\* "Honor context cancellation only after all tasks have exited": when Run has
\* returned because of its context, no goroutine is left.
StopsAfterTasksExit == pc = "stopped" => execs = {}

-----------------------------------------------------------------------------
(* The inductive invariant behind OneExecutionPerTask, DepsRespected and      *)
(* SuccessIsFinal: a task's state changes only by the one message that its    *)
(* only execution, or its only retry, sends.                                  *)

FinishedWasStarted ==
    /\ \A d \in DOMAIN tasks : tasks[d].finished => tasks[d].started /\ tasks[d].created
    /\ \A i \in DOMAIN stateChan :
          stateChan[i].state.finished =>
             stateChan[i].state.started /\ stateChan[i].state.created

\* A message is for a task that runs or failed, and is the only one for it.
SingleMessage ==
    \A i \in DOMAIN stateChan :
        /\ tasks[stateChan[i].def].started
        /\ tasks[stateChan[i].def].finished => tasks[stateChan[i].def].failed
        /\ \A j \in DOMAIN stateChan : stateChan[i].def = stateChan[j].def => i = j

\* A queued retry is the only one of its name, and none of that name has been
\* granted and not applied yet.
SingleRetry ==
    \A i \in DOMAIN retryCommands :
        /\ calls[retryCommands[i]].pc # "idle"
        /\ \A j \in DOMAIN retryCommands :
              calls[retryCommands[i]].name = calls[retryCommands[j]].name => i = j
        /\ \A k \in DOMAIN stateChan :
              stateChan[k].def[1] = calls[retryCommands[i]].name =>
                 ~tasks[stateChan[k].def].finished

\* What Run knows while it grants a retry.
GrantedRetry ==
    /\ pc \in {"send", "reply"} => answer.to \in Caller /\ calls[answer.to].pc # "idle"
    /\ pc = "send" =>
         LET name == calls[answer.to].name
             d == RetryTarget(name)
         IN  /\ d \in wdef /\ d[1] = name
             /\ tasks[d].finished /\ tasks[d].failed
             /\ \A k \in DOMAIN stateChan : stateChan[k].def # d
             /\ \A i \in DOMAIN retryCommands : calls[retryCommands[i]].name # name

IInv ==
    /\ TypeOK
    /\ FinishedWasStarted
    /\ SingleMessage
    /\ SingleRetry
    /\ GrantedRetry
    /\ OneExecutionPerTask
    /\ DepsRespected

-----------------------------------------------------------------------------
\* Run sleeps: no state and no retry is under way.
Asleep == pc = "select" /\ stateChan = <<>> /\ retryCommands = <<>>
FailedTask == \E d \in DOMAIN tasks : tasks[d].finished /\ tasks[d].failed

\* Run never waits for nothing: when it sleeps and nothing executes, a task has
\* failed and is there to be retried, whatever became of the graph through
\* expansions, resets and retries.
StallHasCause == Asleep /\ execs = {} /\ ~cancelled => FailedTask

\* Run waits for a task or an expansion that executes, or for a retry of one that
\* failed, which nobody can give once the context is done.
Waits == Asleep /\ (execs # {} \/ (FailedTask /\ ~cancelled))

\* The reply channel is unbuffered: Run, which answers a caller of RetryTask that
\* has left, blocks for good.
RepliesToNobody == pc = "reply" /\ calls[answer.to].pc = "gone"


\* "manual retry works on tasks that come from different expansions": RetryTask
\* never calls a task of the workflow unknown.
NoUnknownTask ==
    answer.res = "unknown" => \A d \in DOMAIN tasks : d[1] # calls[answer.to].name
=============================================================================
