--------------------------- MODULE WorkflowProofs ---------------------------
(***************************************************************************)
(* What holds of the workflow engine for every set of tasks, dependencies, *)
(* expansions, callers and retries, provided that no task is retried while *)
(* an earlier retry of it is still under way.                              *)
(***************************************************************************)
EXTENDS Workflow, SequenceTheorems, WellFoundedInduction, TLAPS

USE DEF Def

-----------------------------------------------------------------------------
(* Values *)

\* The states that tasks are created with and reset to are task states.
LEMMA StatesTyped ==
    /\ Fresh \in TaskState
    /\ \A n \in Nat : ResetState(n) \in TaskState
    /\ \A t \in TaskState : ToExported(t) \in Row
BY DEF Fresh, ResetState, TaskState, ToExported, Row

\* A stored row loads as a task state, finished only if it was started.
LEMMA LoadTyped ==
    ASSUME NEW stored, stored \in [DOMAIN stored -> Row], NEW d \in Def
    PROVE  /\ LoadTaskState(stored, d) \in TaskState
           /\ LoadTaskState(stored, d).finished =>
                LoadTaskState(stored, d).started /\ LoadTaskState(stored, d).created
<1>1. CASE d[1] \in DOMAIN stored
  <2>1. stored[d[1]] \in Row
    BY <1>1
  <2>. QED
    BY <1>1, <2>1 DEF LoadTaskState, TaskState, Row, IsExpansion
<1>2. CASE d[1] \notin DOMAIN stored
  BY <1>2 DEF LoadTaskState, TaskState, Fresh
<1>. QED
  BY <1>1, <1>2

\* Adding or replacing one value of a table keeps its type.
LEMMA PutTyped ==
    ASSUME NEW S, NEW f, f \in [DOMAIN f -> S], NEW k, NEW v \in S
    PROVE  Put(f, k, v) \in [DOMAIN Put(f, k, v) -> S]
BY DEF Put

\* The effect of Append on the entries of a sequence.
LEMMA AppendEntries ==
    ASSUME NEW S, NEW s \in Seq(S), NEW e \in S
    PROVE  /\ Append(s, e) \in Seq(S)
           /\ DOMAIN Append(s, e) = DOMAIN s \cup {Len(s) + 1}
           /\ Len(s) + 1 \notin DOMAIN s
           /\ \A i \in DOMAIN s : Append(s, e)[i] = s[i]
           /\ Append(s, e)[Len(s) + 1] = e
OBVIOUS

\* The effect of Tail on the entries of a sequence: they move down by one.
LEMMA TailEntries ==
    ASSUME NEW S, NEW s \in Seq(S), s # <<>>
    PROVE  /\ Tail(s) \in Seq(S)
           /\ 1 \in DOMAIN s
           /\ Head(s) = s[1]
           /\ Head(s) \in S
           /\ \A i \in DOMAIN Tail(s) : /\ i + 1 \in DOMAIN s
                                        /\ i + 1 # 1
                                        /\ i \in Nat
                                        /\ Tail(s)[i] = s[i + 1]
OBVIOUS

-----------------------------------------------------------------------------
(* Success is final *)

\* As long as a step leaves alone what has succeeded and starts nothing, the
\* dependencies of everything that executes stay successful.
LEMMA DepsKept ==
    ASSUME DepsRespected, execs' \subseteq execs,
           \A d \in DOMAIN tasks : Succeeded(d) => d \in DOMAIN tasks' /\ tasks'[d] = tasks[d]
    PROVE  DepsRespected'
BY DEF DepsRespected, Succeeded

\* No step changes the state of a task that finished without error.
LEMMA SuccessKept ==
    ASSUME IInv, [Next]_vars, NEW d \in DOMAIN tasks, Succeeded(d)
    PROVE  d \in DOMAIN tasks' /\ tasks'[d] = tasks[d]
<1>. USE DEF IInv, TypeOK, Succeeded
<1>1. CASE \E t \in DOMAIN tasks : CreateTask(t) \/ StartTask(t)
  <2>1. PICK t \in DOMAIN tasks : CreateTask(t) \/ StartTask(t)
    BY <1>1
  <2>2. t # d
    BY <2>1 DEF CreateTask, StartTask, MayStart, FinishedWasStarted
  <2>. QED
    BY <2>1, <2>2 DEF CreateTask, StartTask
<1>2. CASE ReceiveState
  <2>1. Head(stateChan) = stateChan[1] /\ 1 \in DOMAIN stateChan
    BY <1>2, TailEntries DEF ReceiveState
  <2>2. Head(stateChan).def # d
    BY <2>1 DEF SingleMessage
  <2>. QED
    BY <1>2, <2>2 DEF ReceiveState
<1>3. CASE ReceiveExpansion
  <2>1. Head(stateChan) = stateChan[1] /\ 1 \in DOMAIN stateChan
    BY <1>3, TailEntries DEF ReceiveExpansion
  <2>2. Head(stateChan).def # d
    BY <2>1 DEF SingleMessage
  <2>. QED
    BY <1>3, <2>2 DEF ReceiveExpansion, Expand
<1>4. CASE UNCHANGED tasks
  BY <1>4
<1>. QED
  BY <1>1, <1>2, <1>3, <1>4
  DEF Next, RunStep, ExecutionStep, vars, Counted, Started, ReceiveRetry, SendReset,
      SendReply, ReceiveDone, TaskFinishes, ExpansionFinishes, RequestRetry,
      AbandonRetry, Cancel

-----------------------------------------------------------------------------
(* The invariant, action by action *)

\* The entries of retryCommands are callers.
LEMMA QueueOfCallers ==
    ASSUME IInv
    PROVE  \A i \in DOMAIN retryCommands : retryCommands[i] \in Caller
<1>1. retryCommands \in Seq(Caller)
  BY DEF IInv, TypeOK
<1>. QED
  BY <1>1

\* Start establishes the invariant.
LEMMA InitIInv == Init => IInv
<1>. SUFFICES ASSUME Init PROVE IInv
  OBVIOUS
<1>1. InitialDefs \subseteq Def
  BY WorkflowAssumption DEF InitialDefs, DefOf
<1>2. TypeOK
  <2>1. /\ tasks \in [DOMAIN tasks -> TaskState]
        /\ DOMAIN tasks \subseteq Def
        /\ wdef \subseteq DOMAIN tasks
        /\ attempts \in [DOMAIN tasks -> Nat]
    BY <1>1, StatesTyped DEF Init
  <2>2. /\ pending \in [DOMAIN pending -> Row]
        /\ rows \in [DOMAIN rows -> Row]
    BY DEF Init, EmptyFcn
  <2>3. calls \in [Caller -> CallType]
    BY DEF Init, CallType
  <2>4. /\ retryCommands \in Seq(Caller)
        /\ stateChan \in Seq(MessageType)
        /\ DOMAIN stateChan = {}
    BY DEF Init
  <2>5. answer \in [to : Caller \cup {"none"},
                    res : {"none", "ok", "not failed", "unknown"}]
    BY DEF Init, NoReply
  <2>6. /\ pc = "create" /\ execs = {}
        /\ runningExpansion \in BOOLEAN /\ doneOnce \in BOOLEAN /\ cancelled \in BOOLEAN
    BY DEF Init
  <2>. QED
    BY <2>1, <2>2, <2>3, <2>4, <2>5, <2>6 DEF TypeOK
<1>. QED
  BY <1>2 DEF Init, IInv, FinishedWasStarted, Fresh, SingleMessage, SingleRetry,
              GrantedRetry, OneExecutionPerTask, DepsRespected

\* Announcing a new task changes neither its progress nor who may change it.
LEMMA CreateTaskIInv ==
    ASSUME IInv, NEW d \in DOMAIN tasks, CreateTask(d)
    PROVE  IInv'
<1>. USE DEF IInv
<1>1. /\ DOMAIN tasks' = DOMAIN tasks
      /\ tasks'[d] = [tasks[d] EXCEPT !.created = TRUE]
      /\ \A t \in DOMAIN tasks : t # d => tasks'[t] = tasks[t]
      /\ tasks'[d] \in TaskState
  BY DEF CreateTask, TypeOK, TaskState
<1>2. /\ tasks'[d].started = tasks[d].started
      /\ tasks'[d].finished = tasks[d].finished
      /\ tasks'[d].failed = tasks[d].failed
      /\ tasks'[d].run = tasks[d].run
      /\ tasks'[d].created
  BY <1>1 DEF TypeOK, TaskState
<1>3. \A t \in DOMAIN tasks : /\ tasks'[t].started <=> tasks[t].started
                              /\ tasks'[t].finished <=> tasks[t].finished
                              /\ tasks'[t].failed <=> tasks[t].failed
  BY <1>1, <1>2
<1>4. TypeOK'
  <2>1. rows' \in [DOMAIN rows' -> Row]
    BY <1>1, StatesTyped, PutTyped DEF TypeOK, CreateTask
  <2>2. tasks' \in [DOMAIN tasks' -> TaskState]
    BY <1>1 DEF TypeOK, CreateTask
  <2>. QED
    BY <1>1, <2>1, <2>2 DEF TypeOK, CreateTask
<1>5. FinishedWasStarted'
  BY <1>1, <1>2 DEF FinishedWasStarted, CreateTask
<1>6. SingleMessage'
  BY <1>3 DEF SingleMessage, CreateTask, TypeOK
<1>7. SingleRetry'
  BY <1>3 DEF SingleRetry, CreateTask, TypeOK
<1>8. GrantedRetry'
  BY DEF GrantedRetry, CreateTask
<1>9. OneExecutionPerTask'
  BY <1>1, <1>3 DEF OneExecutionPerTask, CreateTask, TypeOK, Running
<1>10. DepsRespected'
  BY DepsKept, <1>1 DEF CreateTask, FinishedWasStarted, Succeeded
<1>. QED
  BY <1>4, <1>5, <1>6, <1>7, <1>8, <1>9, <1>10

\* A step that moves Run without touching tasks, executions or messages.
LEMMA MoveIInv ==
    ASSUME IInv, UNCHANGED <<tasks, wdef, pending, stateChan, execs, attempts, rows,
                             retryCommands, calls>>,
           pc' \in {"create", "start", "select", "done", "stopped"},
           runningExpansion' \in BOOLEAN, doneOnce' \in BOOLEAN,
           cancelled' \in BOOLEAN,
           answer' \in [to : Caller \cup {"none"},
                        res : {"none", "ok", "not failed", "unknown"}]
    PROVE  IInv'
BY DEF IInv, TypeOK, FinishedWasStarted, SingleMessage, SingleRetry, GrantedRetry,
       OneExecutionPerTask, DepsRespected, Running, Succeeded

\* The first loop ends: Run goes on with its second loop, or returns.
LEMMA CountedIInv ==
    ASSUME IInv, Counted
    PROVE  IInv'
<1>1. pc' \in {"create", "start", "select", "done", "stopped"}
  BY DEF Counted, AfterStarts
<1>. QED
  BY <1>1, MoveIInv DEF Counted, IInv, TypeOK

\* The second loop ends: Run goes to its select, or returns.
LEMMA StartedIInv ==
    ASSUME IInv, Started
    PROVE  IInv'
<1>1. pc' \in {"create", "start", "select", "done", "stopped"}
  BY DEF Started, AfterStarts
<1>. QED
  BY <1>1, MoveIInv DEF Started, IInv, TypeOK

\* Run sees its context done and goes round once more.
LEMMA ReceiveDoneIInv ==
    ASSUME IInv, ReceiveDone
    PROVE  IInv'
BY MoveIInv DEF ReceiveDone, IInv, TypeOK

\* Starting a task: it was idle, so nothing executes it and no message is for
\* it, and its dependencies have all succeeded.
LEMMA StartTaskIInv ==
    ASSUME IInv, NEW d \in DOMAIN tasks, StartTask(d)
    PROVE  IInv'
<1>. USE DEF IInv
<1>1. /\ DOMAIN tasks' = DOMAIN tasks
      /\ tasks'[d] = [tasks[d] EXCEPT !.started = TRUE]
      /\ \A t \in DOMAIN tasks : t # d => tasks'[t] = tasks[t]
      /\ tasks'[d] \in TaskState
      /\ tasks[d] \in TaskState
      /\ ~tasks[d].started
      /\ ~tasks[d].finished
  BY DEF StartTask, MayStart, TypeOK, TaskState, FinishedWasStarted
<1>2. /\ tasks'[d].started
      /\ ~tasks'[d].finished
  BY <1>1 DEF TaskState
<1>3. /\ \A x \in execs : x.def # d
      /\ \A i \in DOMAIN stateChan : stateChan[i].def # d
  BY <1>1 DEF OneExecutionPerTask, SingleMessage, Running
<1>4. /\ Execution(d) \in ExecType
      /\ Execution(d).def = d
      /\ execs' = execs \cup {Execution(d)}
  <2>. attempts \in [DOMAIN tasks -> Nat] /\ wdef \subseteq DOMAIN tasks
       /\ DOMAIN tasks \subseteq Def
    BY DEF TypeOK
  <2>1. /\ d \in Def /\ attempts[d] + 1 \in Nat /\ wdef \in SUBSET Def
        /\ tasks[d].failed \in BOOLEAN /\ tasks[d].retryCount \in Nat
    BY <1>1 DEF TaskState
  <2>2. (IF IsExpansion(d) THEN wdef ELSE {}) \in SUBSET Def
    BY <2>1
  <2>. QED
    BY <2>1, <2>2 DEF StartTask, Execution, ExecType
<1>5. TypeOK'
  <2>1. rows' \in [DOMAIN rows' -> Row]
    BY <1>1, StatesTyped, PutTyped DEF TypeOK, StartTask
  <2>2. tasks' \in [DOMAIN tasks' -> TaskState]
    <3>1. \A t \in DOMAIN tasks : tasks'[t] \in TaskState
      BY <1>1 DEF TypeOK
    <3>. QED
      BY <1>1, <3>1 DEF StartTask
  <2>3. attempts' \in [DOMAIN tasks' -> Nat]
    <3>1. attempts \in [DOMAIN tasks -> Nat]
      BY DEF TypeOK
    <3>2. attempts' = [attempts EXCEPT ![d] = @ + 1]
      BY DEF StartTask
    <3>. QED
      BY <1>1, <3>1, <3>2
  <2>4. runningExpansion' \in BOOLEAN
    BY DEF StartTask, TypeOK
  <2>. QED
    BY <1>1, <1>4, <2>1, <2>2, <2>3, <2>4 DEF TypeOK, StartTask
<1>6. FinishedWasStarted'
  BY <1>1, <1>2 DEF FinishedWasStarted, StartTask
<1>7. SingleMessage'
  BY <1>1, <1>3 DEF SingleMessage, StartTask, TypeOK
<1>8. SingleRetry'
  BY <1>1, <1>3 DEF SingleRetry, StartTask, TypeOK
<1>9. GrantedRetry'
  BY DEF GrantedRetry, StartTask
<1>10. OneExecutionPerTask'
  BY <1>1, <1>2, <1>3, <1>4 DEF OneExecutionPerTask, StartTask, Running
<1>11. DepsRespected'
  <2>1. \A t \in DOMAIN tasks : Succeeded(t) => tasks'[t] = tasks[t]
    BY <1>1 DEF Succeeded
  <2>2. \A dep \in DepsOf(d) :
           /\ Succeeded(dep)
           /\ IsExpansion(dep) =>
                 \A n \in Result[dep[1]] : Succeeded(<<n, tasks[dep].run>>)
    BY DEF StartTask, MayStart, ArgsReady, ValueReady, TaskReady, Succeeded
  <2>. QED
    BY <1>1, <1>4, <2>1, <2>2 DEF DepsRespected, Succeeded
<1>. QED
  BY <1>5, <1>6, <1>7, <1>8, <1>9, <1>10, <1>11

\* The first message applied to w.tasks: it is the only one for its task, which
\* nothing executes any more.
LEMMA ReceiveStateIInv ==
    ASSUME IInv, ReceiveState
    PROVE  IInv'
<1>. DEFINE m == Head(stateChan)
<1>. USE DEF IInv
<1>1. /\ stateChan \in Seq(MessageType)
      /\ stateChan' = Tail(stateChan) /\ stateChan # <<>>
      /\ tasks' = [tasks EXCEPT ![m.def] = m.state]
      /\ rows' = Put(rows, m.def[1], ToExported(m.state))
  BY DEF ReceiveState, TypeOK
<1>2. /\ stateChan' \in Seq(MessageType)
      /\ 1 \in DOMAIN stateChan /\ m = stateChan[1] /\ m \in MessageType
      /\ \A i \in DOMAIN stateChan' : /\ i + 1 \in DOMAIN stateChan
                                      /\ i + 1 # 1
                                      /\ i \in Nat
                                      /\ stateChan'[i] = stateChan[i + 1]
  BY <1>1, TailEntries
<1>. HIDE DEF m
<1>3. /\ m.def \in DOMAIN tasks
      /\ m.state \in TaskState
      /\ m.state.finished => m.state.started /\ m.state.created
      /\ \A i \in DOMAIN stateChan' : stateChan'[i].def # m.def
      /\ \A x \in execs : x.def # m.def
  <2>1. m.def \in DOMAIN tasks /\ m.state \in TaskState
    BY <1>2 DEF TypeOK, MessageType
  <2>2. m.state.finished => m.state.started /\ m.state.created
    BY <1>2 DEF FinishedWasStarted
  <2>3. \A i \in DOMAIN stateChan' : stateChan'[i].def # m.def
    BY <1>2 DEF SingleMessage
  <2>4. \A x \in execs : x.def # m.def
    BY <1>2 DEF OneExecutionPerTask
  <2>. QED
    BY <2>1, <2>2, <2>3, <2>4
<1>4. /\ DOMAIN tasks' = DOMAIN tasks
      /\ tasks'[m.def] = m.state
      /\ \A t \in DOMAIN tasks : t # m.def => tasks'[t] = tasks[t]
  BY <1>1, <1>3 DEF TypeOK
<1>5. TypeOK'
  <2>1. rows' \in [DOMAIN rows' -> Row]
    BY <1>1, <1>3, StatesTyped, PutTyped DEF TypeOK
  <2>2. tasks' \in [DOMAIN tasks' -> TaskState]
    BY <1>1, <1>3, <1>4 DEF TypeOK
  <2>3. \A i \in DOMAIN stateChan' : stateChan'[i].def \in DOMAIN tasks'
    BY <1>2, <1>4 DEF TypeOK
  <2>4. /\ UNCHANGED <<wdef, pending, retryCommands, runningExpansion, doneOnce, answer,
                       cancelled, execs, attempts, calls>>
        /\ pc' = "create"
    BY DEF ReceiveState
  <2>. QED
    BY <1>2, <1>4, <2>1, <2>2, <2>3, <2>4 DEF TypeOK
<1>6. FinishedWasStarted'
  BY <1>2, <1>3, <1>4 DEF FinishedWasStarted
<1>7. SingleMessage'
  <2>. SUFFICES ASSUME NEW i \in DOMAIN stateChan'
                PROVE  /\ tasks'[stateChan'[i].def].started
                       /\ tasks'[stateChan'[i].def].finished => tasks'[stateChan'[i].def].failed
                       /\ \A j \in DOMAIN stateChan' :
                             stateChan'[i].def = stateChan'[j].def => i = j
    BY DEF SingleMessage
  <2>1. tasks'[stateChan'[i].def] = tasks[stateChan[i + 1].def]
    <3>1. stateChan'[i].def \in DOMAIN tasks /\ stateChan'[i].def # m.def
      BY <1>2, <1>3 DEF TypeOK
    <3>. QED
      BY <1>2, <1>4, <3>1
  <2>2. \A j \in DOMAIN stateChan' : stateChan'[i].def = stateChan'[j].def => i + 1 = j + 1
    BY <1>2 DEF SingleMessage
  <2>. QED
    BY <1>2, <2>1, <2>2 DEF SingleMessage
<1>8. SingleRetry'
  <2>1. \A k \in DOMAIN stateChan' : tasks'[stateChan'[k].def] = tasks[stateChan[k + 1].def]
    <3>1. \A k \in DOMAIN stateChan' : stateChan'[k].def \in DOMAIN tasks
      BY <1>2 DEF TypeOK
    <3>. QED
      BY <1>2, <1>3, <1>4, <3>1
  <2>. QED
    BY <1>2, <2>1 DEF SingleRetry, ReceiveState
<1>9. GrantedRetry'
  BY DEF GrantedRetry, ReceiveState
<1>10. OneExecutionPerTask'
  BY <1>2, <1>3, <1>4 DEF OneExecutionPerTask, ReceiveState, Running
<1>11. DepsRespected'
  <2>1. \A t \in DOMAIN tasks : Succeeded(t) => t # m.def
    BY <1>2 DEF SingleMessage, Succeeded
  <2>. QED
    BY <1>4, <2>1, DepsKept DEF ReceiveState
<1>. QED
  BY <1>5, <1>6, <1>7, <1>8, <1>9, <1>10, <1>11

\* An expansion's success: the tasks it adds are new and idle or done, and the
\* known ones keep their states.
LEMMA ReceiveExpansionIInv ==
    ASSUME IInv, ReceiveExpansion
    PROVE  IInv'
<1>. DEFINE m == Head(stateChan)
<1>. USE DEF IInv
<1>1. /\ stateChan \in Seq(MessageType)
      /\ stateChan' = Tail(stateChan) /\ stateChan # <<>>
      /\ tasks' = [Expand(m.expanded) EXCEPT ![m.def] = m.state]
      /\ rows' = Put(rows, m.def[1], ToExported(m.state))
      /\ wdef' = m.expanded
      /\ attempts' = [d \in DOMAIN tasks \cup m.expanded |->
                        IF d \in DOMAIN tasks THEN attempts[d] ELSE 0]
      /\ pc' = "create"
      /\ runningExpansion' = FALSE
      /\ UNCHANGED <<pending, retryCommands, doneOnce, answer, cancelled, execs, calls>>
  BY DEF ReceiveExpansion, TypeOK
<1>2. /\ stateChan' \in Seq(MessageType)
      /\ 1 \in DOMAIN stateChan /\ m = stateChan[1] /\ m \in MessageType
      /\ \A i \in DOMAIN stateChan' : /\ i + 1 \in DOMAIN stateChan
                                      /\ i + 1 # 1
                                      /\ i \in Nat
                                      /\ stateChan'[i] = stateChan[i + 1]
  BY <1>1, TailEntries
<1>. HIDE DEF m
<1>3. /\ m.def \in DOMAIN tasks
      /\ m.state \in TaskState
      /\ m.expanded \in SUBSET Def
      /\ m.state.finished => m.state.started /\ m.state.created
      /\ \A i \in DOMAIN stateChan' : stateChan'[i].def # m.def
      /\ \A x \in execs : x.def # m.def
  <2>1. m.def \in DOMAIN tasks /\ m.state \in TaskState /\ m.expanded \in SUBSET Def
    BY <1>2 DEF TypeOK, MessageType
  <2>2. m.state.finished => m.state.started /\ m.state.created
    BY <1>2 DEF FinishedWasStarted
  <2>3. \A i \in DOMAIN stateChan' : stateChan'[i].def # m.def
    BY <1>2 DEF SingleMessage
  <2>4. \A x \in execs : x.def # m.def
    BY <1>2 DEF OneExecutionPerTask
  <2>. QED
    BY <2>1, <2>2, <2>3, <2>4
<1>4. /\ DOMAIN tasks' = DOMAIN tasks \cup m.expanded
      /\ tasks'[m.def] = m.state
      /\ \A t \in DOMAIN tasks : t # m.def => tasks'[t] = tasks[t]
      /\ \A t \in m.expanded \ DOMAIN tasks : tasks'[t] = LoadTaskState(pending, t)
      /\ tasks' = [t \in DOMAIN tasks' |-> tasks'[t]]
  <2>. DEFINE E == Expand(m.expanded)
  <2>1. /\ E = [t \in DOMAIN E |-> E[t]]
        /\ DOMAIN E = DOMAIN tasks \cup m.expanded
        /\ \A t \in DOMAIN tasks : E[t] = tasks[t]
        /\ \A t \in m.expanded \ DOMAIN tasks : E[t] = LoadTaskState(pending, t)
    BY DEF Expand
  <2>2. tasks' = [E EXCEPT ![m.def] = m.state]
    BY <1>1
  <2>. HIDE DEF E
  <2>. QED
    BY <1>3, <2>1, <2>2
<1>5. /\ \A t \in DOMAIN tasks' : tasks'[t] \in TaskState
      /\ \A t \in DOMAIN tasks' :
            tasks'[t].finished => tasks'[t].started /\ tasks'[t].created
  <2>. SUFFICES ASSUME NEW t \in DOMAIN tasks'
                PROVE  /\ tasks'[t] \in TaskState
                       /\ tasks'[t].finished => tasks'[t].started /\ tasks'[t].created
    OBVIOUS
  <2>1. CASE t = m.def
    BY <1>3, <1>4, <2>1
  <2>2. CASE t \in DOMAIN tasks /\ t # m.def
    BY <1>4, <2>2 DEF TypeOK, FinishedWasStarted
  <2>3. CASE t \in m.expanded \ DOMAIN tasks
    <3>1. t \in Def /\ pending \in [DOMAIN pending -> Row]
      BY <1>3, <2>3 DEF TypeOK
    <3>2. /\ LoadTaskState(pending, t) \in TaskState
          /\ LoadTaskState(pending, t).finished =>
               LoadTaskState(pending, t).started /\ LoadTaskState(pending, t).created
      BY <3>1, LoadTyped
    <3>3. tasks'[t] = LoadTaskState(pending, t)
      BY <1>4, <2>3
    <3>. QED
      BY <3>2, <3>3
  <2>. QED
    BY <1>4, <2>1, <2>2, <2>3
<1>6. TypeOK'
  <2>1. rows' \in [DOMAIN rows' -> Row]
    BY <1>1, <1>3, StatesTyped, PutTyped DEF TypeOK
  <2>2. tasks' \in [DOMAIN tasks' -> TaskState]
    BY <1>4, <1>5
  <2>3. attempts' \in [DOMAIN tasks' -> Nat]
    <3>1. \A d \in DOMAIN tasks : attempts[d] \in Nat
      BY DEF TypeOK
    <3>. QED
      BY <1>1, <1>4, <3>1
  <2>4. /\ \A i \in DOMAIN stateChan' : stateChan'[i].def \in DOMAIN tasks'
        /\ \A x \in execs' : x.def \in DOMAIN tasks'
        /\ DOMAIN tasks' \subseteq Def
        /\ wdef' \subseteq DOMAIN tasks'
    <3>1. /\ DOMAIN tasks \subseteq Def
          /\ \A x \in execs : x.def \in DOMAIN tasks
          /\ \A i \in DOMAIN stateChan : stateChan[i].def \in DOMAIN tasks
      BY DEF TypeOK
    <3>2. DOMAIN tasks' \subseteq Def /\ wdef' \subseteq DOMAIN tasks'
      BY <1>1, <1>3, <1>4, <3>1
    <3>3. \A i \in DOMAIN stateChan' : stateChan'[i].def \in DOMAIN tasks'
      BY <1>2, <1>4, <3>1
    <3>. QED
      BY <1>1, <1>4, <3>1, <3>2, <3>3
  <2>. QED
    BY <1>1, <1>2, <2>1, <2>2, <2>3, <2>4 DEF TypeOK
<1>7. FinishedWasStarted'
  BY <1>2, <1>5 DEF FinishedWasStarted
<1>8. \A k \in DOMAIN stateChan' : /\ stateChan'[k].def = stateChan[k + 1].def
                                   /\ tasks'[stateChan'[k].def] = tasks[stateChan[k + 1].def]
  <2>1. \A k \in DOMAIN stateChan' : stateChan'[k].def \in DOMAIN tasks
    BY <1>2 DEF TypeOK
  <2>. QED
    BY <1>2, <1>3, <1>4, <2>1
<1>9. SingleMessage'
  <2>. SUFFICES ASSUME NEW i \in DOMAIN stateChan'
                PROVE  /\ tasks'[stateChan'[i].def].started
                       /\ tasks'[stateChan'[i].def].finished => tasks'[stateChan'[i].def].failed
                       /\ \A j \in DOMAIN stateChan' :
                             stateChan'[i].def = stateChan'[j].def => i = j
    BY DEF SingleMessage
  <2>1. \A j \in DOMAIN stateChan' : stateChan'[i].def = stateChan'[j].def => i + 1 = j + 1
    BY <1>2 DEF SingleMessage
  <2>. QED
    BY <1>2, <1>8, <2>1 DEF SingleMessage
<1>10. SingleRetry'
  BY <1>1, <1>2, <1>8 DEF SingleRetry
<1>11. GrantedRetry'
  BY <1>1 DEF GrantedRetry
<1>12. OneExecutionPerTask'
  <2>1. \A x \in execs : x.def \in DOMAIN tasks
    BY DEF TypeOK
  <2>. QED
    BY <1>1, <1>2, <1>3, <1>4, <2>1 DEF OneExecutionPerTask, Running
<1>13. DepsRespected'
  <2>1. \A t \in DOMAIN tasks : Succeeded(t) => t # m.def
    BY <1>2 DEF SingleMessage, Succeeded
  <2>. QED
    BY <1>1, <1>4, <2>1, DepsKept
<1>. QED
  BY <1>6, <1>7, <1>9, <1>10, <1>11, <1>12, <1>13

\* Looking at a retry: the queue had no other one of that name, and no granted
\* one is under way, so a grant finds a failed task without messages.
LEMMA ReceiveRetryIInv ==
    ASSUME IInv, ReceiveRetry
    PROVE  IInv'
<1>. DEFINE c == Head(retryCommands)
            name == calls[c].name
            verdict == RetryVerdict(name)
<1>. USE DEF IInv
<1>1. /\ retryCommands \in Seq(Caller)
      /\ retryCommands' = Tail(retryCommands) /\ retryCommands # <<>>
      /\ answer' = [to |-> c, res |-> verdict]
      /\ pc' = IF verdict = "ok" THEN "send" ELSE "reply"
      /\ UNCHANGED <<tasks, wdef, pending, runningExpansion, doneOnce, stateChan,
                     cancelled, execs, attempts, calls, rows>>
  BY DEF ReceiveRetry, TypeOK
<1>2. /\ retryCommands' \in Seq(Caller)
      /\ 1 \in DOMAIN retryCommands /\ c = retryCommands[1] /\ c \in Caller
      /\ \A i \in DOMAIN retryCommands' : /\ i + 1 \in DOMAIN retryCommands
                                          /\ i + 1 # 1
                                          /\ i \in Nat
                                          /\ retryCommands'[i] = retryCommands[i + 1]
  BY <1>1, TailEntries
<1>3. verdict \in {"ok", "not failed", "unknown"}
  BY DEF RetryVerdict
<1>4. verdict = "ok" =>
         LET d == RetryTarget(name)
         IN  d \in wdef /\ d[1] = name /\ tasks[d].finished /\ tasks[d].failed
  BY DEF RetryVerdict, RetryTarget
<1>. HIDE DEF c, verdict
<1>5. TypeOK'
  BY <1>1, <1>2, <1>3 DEF TypeOK
<1>6. FinishedWasStarted' /\ SingleMessage' /\ OneExecutionPerTask' /\ DepsRespected'
  BY <1>1 DEF FinishedWasStarted, SingleMessage, OneExecutionPerTask, DepsRespected,
              Running, Succeeded
<1>7. SingleRetry'
  <2>. SUFFICES ASSUME NEW i \in DOMAIN retryCommands'
                PROVE  /\ calls[retryCommands'[i]].pc # "idle"
                       /\ \A j \in DOMAIN retryCommands' :
                            calls[retryCommands'[i]].name = calls[retryCommands'[j]].name
                              => i = j
                       /\ \A k \in DOMAIN stateChan :
                            stateChan[k].def[1] = calls[retryCommands'[i]].name =>
                              ~tasks[stateChan[k].def].finished
    BY <1>1 DEF SingleRetry
  <2>1. \A j \in DOMAIN retryCommands' :
           calls[retryCommands'[i]].name = calls[retryCommands'[j]].name => i + 1 = j + 1
    BY <1>2 DEF SingleRetry
  <2>. QED
    BY <1>2, <2>1 DEF SingleRetry
<1>8. GrantedRetry'
  <2>1. /\ calls[c].pc # "idle"
        /\ \A i \in DOMAIN retryCommands' : calls[retryCommands'[i]].name # name
        /\ \A k \in DOMAIN stateChan :
              stateChan[k].def[1] = name => ~tasks[stateChan[k].def].finished
    BY <1>2 DEF SingleRetry
  <2>2. answer'.to = c /\ calls' = calls /\ wdef' = wdef
    BY <1>1
  <2>4. verdict = "ok" => \A k \in DOMAIN stateChan : stateChan[k].def # RetryTarget(name)
    BY <1>4, <2>1
  <2>. QED
    BY <1>1, <1>2, <1>4, <2>1, <2>2, <2>4 DEF GrantedRetry, RetryTarget
<1>. QED
  BY <1>5, <1>6, <1>7, <1>8

\* Sending a manual reset: the task is failed and has no message yet.
LEMMA SendResetIInv ==
    ASSUME IInv, SendReset
    PROVE  IInv'
<1>. DEFINE d == RetryTarget(calls[answer.to].name)
            e == [def |-> d, state |-> ResetState(0), expanded |-> {}]
<1>. USE DEF IInv
<1>1. /\ stateChan \in Seq(MessageType)
      /\ stateChan' = Append(stateChan, e)
      /\ pc = "send" /\ pc' = "reply"
      /\ UNCHANGED <<tasks, wdef, pending, retryCommands, runningExpansion, doneOnce,
                     answer, cancelled, execs, attempts, calls, rows>>
  BY DEF SendReset, TypeOK
<1>2. /\ d \in DOMAIN tasks /\ d \in Def
      /\ d[1] = calls[answer.to].name
      /\ tasks[d].finished /\ tasks[d].failed
      /\ \A k \in DOMAIN stateChan : stateChan[k].def # d
      /\ \A i \in DOMAIN retryCommands : calls[retryCommands[i]].name # d[1]
      /\ answer.to \in Caller /\ calls[answer.to].pc # "idle"
  BY <1>1 DEF GrantedRetry, TypeOK
<1>. HIDE DEF d
<1>3. e \in MessageType
  BY <1>2, StatesTyped DEF MessageType
<1>4. /\ e.def = d /\ ~e.state.finished
  BY DEF ResetState
<1>. HIDE DEF e
<1>5. /\ stateChan' \in Seq(MessageType)
      /\ DOMAIN stateChan' = DOMAIN stateChan \cup {Len(stateChan) + 1}
      /\ \A i \in DOMAIN stateChan : stateChan'[i] = stateChan[i]
      /\ stateChan'[Len(stateChan) + 1] = e
  BY <1>1, <1>3, AppendEntries
<1>6. TypeOK'
  <2>1. \A i \in DOMAIN stateChan' : stateChan'[i].def \in DOMAIN tasks'
    BY <1>1, <1>2, <1>4, <1>5 DEF TypeOK
  <2>. QED
    BY <1>1, <1>5, <2>1 DEF TypeOK
<1>7. FinishedWasStarted'
  BY <1>1, <1>4, <1>5 DEF FinishedWasStarted
<1>8. tasks[d].started
  BY <1>2 DEF FinishedWasStarted
<1>9. SingleMessage'
  BY <1>1, <1>2, <1>4, <1>5, <1>8 DEF SingleMessage
<1>10. SingleRetry'
  BY <1>1, <1>2, <1>4, <1>5 DEF SingleRetry
<1>11. GrantedRetry'
  BY <1>1, <1>2 DEF GrantedRetry
<1>12. OneExecutionPerTask'
  <2>1. \A x \in execs : x.def # d
    BY <1>2 DEF OneExecutionPerTask, Running
  <2>. QED
    BY <1>1, <1>4, <1>5, <2>1 DEF OneExecutionPerTask, Running
<1>13. DepsRespected'
  BY <1>1 DEF DepsRespected, Succeeded
<1>. QED
  BY <1>6, <1>7, <1>9, <1>10, <1>11, <1>12, <1>13

\* An execution ends: its message takes its place as the only one for its task.
LEMMA FinishIInv ==
    ASSUME IInv, NEW x \in execs, NEW e \in MessageType, e.def = x.def,
           e.state.finished => e.state.started /\ e.state.created,
           stateChan' = Append(stateChan, e), execs' = execs \ {x},
           UNCHANGED <<tasks, wdef, pending, retryCommands, pc, runningExpansion,
                       doneOnce, answer, cancelled, attempts, calls, rows>>
    PROVE  IInv'
<1>. USE DEF IInv
<1>1. stateChan \in Seq(MessageType)
  BY DEF TypeOK
<1>2. /\ stateChan' \in Seq(MessageType)
      /\ DOMAIN stateChan' = DOMAIN stateChan \cup {Len(stateChan) + 1}
      /\ \A i \in DOMAIN stateChan : stateChan'[i] = stateChan[i]
      /\ stateChan'[Len(stateChan) + 1] = e
  BY <1>1, AppendEntries
<1>3. /\ x.def \in DOMAIN tasks
      /\ tasks[x.def].started /\ ~tasks[x.def].finished
      /\ \A i \in DOMAIN stateChan : stateChan[i].def # x.def
      /\ \A y \in execs : y.def = x.def => y = x
  BY DEF OneExecutionPerTask, Running
<1>4. TypeOK'
  <2>1. \A i \in DOMAIN stateChan' : stateChan'[i].def \in DOMAIN tasks'
    BY <1>2, <1>3 DEF TypeOK
  <2>. QED
    BY <1>2, <2>1 DEF TypeOK
<1>5. FinishedWasStarted'
  BY <1>2 DEF FinishedWasStarted
<1>6. SingleMessage'
  BY <1>2, <1>3 DEF SingleMessage
<1>7. SingleRetry'
  BY <1>2, <1>3 DEF SingleRetry
<1>8. GrantedRetry'
  <2>1. pc = "send" => RetryTarget(calls[answer.to].name) # x.def
    BY <1>3 DEF GrantedRetry
  <2>. QED
    BY <1>2, <2>1 DEF GrantedRetry, RetryTarget
<1>9. OneExecutionPerTask'
  BY <1>2, <1>3 DEF OneExecutionPerTask, Running
<1>10. DepsRespected'
  BY DEF DepsRespected, Succeeded
<1>. QED
  BY <1>4, <1>5, <1>6, <1>7, <1>8, <1>9, <1>10

\* A plain task ends: its message finishes it or resets it for a retry.
LEMMA TaskFinishesIInv ==
    ASSUME IInv, NEW x \in execs, NEW err \in BOOLEAN, NEW disableRetries \in BOOLEAN,
           TaskFinishes(x, err, disableRetries)
    PROVE  IInv'
<1>. DEFINE s == TaskOutcome(x, err, disableRetries)
            e == [def |-> x.def, state |-> s, expanded |-> {}]
<1>1. x \in ExecType
  BY DEF IInv, TypeOK
<1>2. /\ x.def \in Def /\ x.run \in Nat /\ x.failed \in BOOLEAN
      /\ x.retryCount \in Nat /\ x.retryCount + 1 \in Nat
  BY <1>1 DEF ExecType
<1>3. s \in TaskState /\ (s.finished => s.started /\ s.created)
  <2>1. ResetState(x.retryCount + 1) \in TaskState /\ ~ResetState(x.retryCount + 1).finished
    BY <1>2, StatesTyped DEF ResetState
  <2>2. CASE s = ResetState(x.retryCount + 1)
    BY <2>1, <2>2
  <2>3. CASE s # ResetState(x.retryCount + 1)
    <3>1. s = [created |-> TRUE, started |-> TRUE, finished |-> TRUE,
               failed |-> x.failed \/ err, retryCount |-> x.retryCount, run |-> x.run]
      BY <2>3 DEF TaskOutcome
    <3>2. (x.failed \/ err) \in BOOLEAN
      OBVIOUS
    <3>. HIDE DEF s
    <3>. QED
      BY <1>2, <3>1, <3>2 DEF TaskState
  <2>. QED
    BY <2>2, <2>3
<1>. HIDE DEF s
<1>4. e \in MessageType
  BY <1>2, <1>3 DEF MessageType
<1>. QED
  BY <1>3, <1>4, FinishIInv DEF TaskFinishes, s

\* An expansion ends: its message brings definitions that exist.
LEMMA ExpansionFinishesIInv ==
    ASSUME IInv, NEW x \in execs, NEW err \in BOOLEAN, ExpansionFinishes(x, err)
    PROVE  IInv'
<1>. DEFINE s == ExpansionOutcome(x, err)
            added == IF err THEN {} ELSE x.base \cup {<<n, x.run>> : n \in Adds[x.def[1]]}
            e == [def |-> x.def, state |-> s, expanded |-> added]
<1>1. x \in ExecType
  BY DEF IInv, TypeOK
<1>2. /\ x.def \in Def /\ x.run \in Nat /\ x.failed \in BOOLEAN
      /\ x.retryCount \in Nat /\ x.base \in SUBSET Def
  BY <1>1 DEF ExecType
<1>3. s \in TaskState /\ (s.finished => s.started /\ s.created)
  <2>1. (x.failed \/ err) \in BOOLEAN
    OBVIOUS
  <2>. QED
    BY <1>2, <2>1 DEF ExpansionOutcome, TaskState
<1>4. added \in SUBSET Def
  <2>1. Adds[x.def[1]] \subseteq Name
    BY WorkflowAssumption DEF ExpansionFinishes, IsExpansion
  <2>. QED
    BY <1>2, <2>1
<1>. HIDE DEF s, added
<1>5. e \in MessageType
  BY <1>2, <1>3, <1>4 DEF MessageType
<1>. QED
  BY <1>3, <1>5, FinishIInv DEF ExpansionFinishes, s, added

\* Handing over the reply ends the call.
LEMMA SendReplyIInv ==
    ASSUME IInv, SendReply
    PROVE  IInv'
<1>. USE DEF IInv
<1>1. answer.to \in Caller /\ answer.res \in {"none", "ok", "not failed", "unknown"}
  BY DEF SendReply, GrantedRetry, TypeOK
<1>2. /\ DOMAIN calls' = Caller
      /\ calls' \in [Caller -> CallType]
      /\ \A c \in Caller : calls'[c].name = calls[c].name
      /\ \A c \in Caller : calls[c].pc # "idle" => calls'[c].pc # "idle"
  BY <1>1 DEF SendReply, TypeOK, CallType
<1>3. TypeOK'
  BY <1>2 DEF SendReply, TypeOK, NoReply
<1>4. SingleRetry'
  <2>1. \A i \in DOMAIN retryCommands : retryCommands[i] \in Caller
    BY QueueOfCallers
  <2>. QED
    BY <1>2, <2>1 DEF SendReply, SingleRetry
<1>5. GrantedRetry'
  BY DEF SendReply, GrantedRetry
<1>6. FinishedWasStarted' /\ SingleMessage' /\ OneExecutionPerTask' /\ DepsRespected'
  BY DEF SendReply, FinishedWasStarted, SingleMessage, OneExecutionPerTask,
         DepsRespected, Running, Succeeded
<1>. QED
  BY <1>3, <1>4, <1>5, <1>6

\* A call enters the queue only when no retry of that name is under way.
LEMMA RequestRetryIInv ==
    ASSUME IInv, ~OverlappingRetries, NEW c \in Caller, NEW name \in Name,
           RequestRetry(c, name)
    PROVE  IInv'
<1>. USE DEF IInv
<1>1. /\ retryCommands \in Seq(Caller)
      /\ retryCommands' = Append(retryCommands, c)
      /\ calls[c].pc = "idle"
      /\ ~RetryInFlight(name)
      /\ UNCHANGED <<tasks, wdef, pending, pc, runningExpansion, doneOnce, stateChan,
                     answer, cancelled, execs, attempts, rows>>
  BY DEF RequestRetry, TypeOK
<1>2. /\ retryCommands' \in Seq(Caller)
      /\ DOMAIN retryCommands' = DOMAIN retryCommands \cup {Len(retryCommands) + 1}
      /\ \A i \in DOMAIN retryCommands : retryCommands'[i] = retryCommands[i]
      /\ retryCommands'[Len(retryCommands) + 1] = c
  BY <1>1, AppendEntries
<1>3. /\ calls' \in [Caller -> CallType]
      /\ calls'[c].name = name /\ calls'[c].pc = "waiting"
      /\ \A b \in Caller : b # c => calls'[b] = calls[b]
  BY DEF RequestRetry, TypeOK, CallType
<1>4. \A i \in DOMAIN retryCommands : /\ retryCommands[i] \in Caller
                                      /\ retryCommands[i] # c
                                      /\ calls[retryCommands[i]].name # name
  <2>1. \A i \in DOMAIN retryCommands : retryCommands[i] \in Caller
    BY QueueOfCallers
  <2>. QED
    BY <1>1, <2>1 DEF SingleRetry, RetryInFlight
<1>5. \A i \in DOMAIN stateChan :
         stateChan[i].def[1] = name => ~tasks[stateChan[i].def].finished
  BY <1>1 DEF RetryInFlight
<1>6. TypeOK'
  BY <1>1, <1>2, <1>3 DEF TypeOK
<1>7. SingleRetry'
  <2>1. \A i \in DOMAIN retryCommands : calls'[retryCommands'[i]] = calls[retryCommands[i]]
    BY <1>2, <1>3, <1>4
  <2>. QED
    BY <1>1, <1>2, <1>3, <1>4, <1>5, <2>1 DEF SingleRetry
<1>8. GrantedRetry'
  <2>1. pc \in {"send", "reply"} => answer.to \in Caller /\ answer.to # c
    BY <1>1 DEF GrantedRetry
  <2>2. pc \in {"send", "reply"} => calls'[answer.to] = calls[answer.to]
    BY <1>3, <2>1
  <2>3. pc = "send" => calls[answer.to].name # name
    BY <1>1, <2>1 DEF RetryInFlight
  <2>4. \A i \in DOMAIN retryCommands : calls'[retryCommands'[i]] = calls[retryCommands[i]]
    BY <1>2, <1>3, <1>4
  <2>5. CASE pc = "send"
    <3>. DEFINE n == calls[answer.to].name
                d == RetryTarget(n)
    <3>1. calls'[answer'.to].name = n /\ RetryTarget(n)' = d
      BY <1>1, <2>2, <2>5 DEF RetryTarget
    <3>2. /\ d \in wdef /\ d[1] = n /\ tasks[d].finished /\ tasks[d].failed
          /\ \A k \in DOMAIN stateChan : stateChan[k].def # d
          /\ \A i \in DOMAIN retryCommands : calls[retryCommands[i]].name # n
      BY <2>5 DEF GrantedRetry
    <3>3. \A i \in DOMAIN retryCommands' : calls'[retryCommands'[i]].name # n
      BY <1>2, <1>3, <2>3, <2>4, <2>5, <3>2
    <3>4. /\ pc' = "send" /\ answer' = answer /\ wdef' = wdef /\ tasks' = tasks
          /\ stateChan' = stateChan
      BY <1>1, <2>5
    <3>5. answer'.to \in Caller /\ calls'[answer'.to].pc # "idle"
      BY <2>1, <2>2, <2>5, <3>4 DEF GrantedRetry
    <3>6. RetryTarget(calls[answer.to].name)' = d
      BY <3>1, <3>4 DEF RetryTarget
    <3>. HIDE DEF n, d
    <3>. QED
      BY <3>1, <3>2, <3>3, <3>4, <3>5, <3>6 DEF GrantedRetry
  <2>. QED
    BY <1>1, <2>1, <2>2, <2>5 DEF GrantedRetry
<1>9. FinishedWasStarted' /\ SingleMessage' /\ OneExecutionPerTask' /\ DepsRespected'
  BY <1>1 DEF FinishedWasStarted, SingleMessage, OneExecutionPerTask,
              DepsRespected, Running, Succeeded
<1>. QED
  BY <1>6, <1>7, <1>8, <1>9

\* Giving up on a call leaves its request in the queue.
LEMMA AbandonRetryIInv ==
    ASSUME IInv, NEW c \in Caller, AbandonRetry(c)
    PROVE  IInv'
<1>. USE DEF IInv
<1>1. /\ calls' \in [Caller -> CallType]
      /\ \A b \in Caller : calls'[b].name = calls[b].name
      /\ \A b \in Caller : calls[b].pc # "idle" => calls'[b].pc # "idle"
  BY DEF AbandonRetry, TypeOK, CallType
<1>2. \A i \in DOMAIN retryCommands : retryCommands[i] \in Caller
  BY QueueOfCallers
<1>3. TypeOK'
  BY <1>1 DEF AbandonRetry, TypeOK
<1>4. SingleRetry'
  BY <1>1, <1>2 DEF AbandonRetry, SingleRetry
<1>5. GrantedRetry'
  <2>1. \A b \in Caller : RetryTarget(calls[b].name)' = RetryTarget(calls[b].name)
    BY <1>1 DEF AbandonRetry, RetryTarget
  <2>2. \A i \in DOMAIN retryCommands : calls'[retryCommands[i]].name = calls[retryCommands[i]].name
    BY <1>1, <1>2
  <2>. QED
    BY <1>1, <2>1, <2>2 DEF AbandonRetry, GrantedRetry
<1>6. FinishedWasStarted' /\ SingleMessage' /\ OneExecutionPerTask' /\ DepsRespected'
  BY DEF AbandonRetry, FinishedWasStarted, SingleMessage, OneExecutionPerTask,
         DepsRespected, Running, Succeeded
<1>. QED
  BY <1>3, <1>4, <1>5, <1>6

\* The context may end in any state.
LEMMA CancelIInv ==
    ASSUME IInv, Cancel
    PROVE  IInv'
<1>. USE DEF IInv
<1>1. TypeOK'
  BY DEF Cancel, TypeOK
<1>2. SingleRetry' /\ GrantedRetry'
  BY DEF Cancel, SingleRetry, GrantedRetry, RetryTarget
<1>3. FinishedWasStarted' /\ SingleMessage' /\ OneExecutionPerTask' /\ DepsRespected'
  BY DEF Cancel, FinishedWasStarted, SingleMessage, OneExecutionPerTask,
         DepsRespected, Running, Succeeded
<1>. QED
  BY <1>1, <1>2, <1>3

\* A step that changes nothing preserves the invariant.
LEMMA StutterIInv ==
    ASSUME IInv, UNCHANGED vars
    PROVE  IInv'
<1>. USE DEF IInv, vars
<1>1. TypeOK'
  BY DEF TypeOK
<1>2. SingleRetry' /\ GrantedRetry'
  BY DEF SingleRetry, GrantedRetry, RetryTarget
<1>3. FinishedWasStarted' /\ SingleMessage' /\ OneExecutionPerTask' /\ DepsRespected'
  BY DEF FinishedWasStarted, SingleMessage, OneExecutionPerTask,
         DepsRespected, Running, Succeeded
<1>. QED
  BY <1>1, <1>2, <1>3

\* Every step of the engine preserves the invariant.
LEMMA NextIInv ==
    ASSUME ~OverlappingRetries, IInv, [Next]_vars
    PROVE  IInv'
<1>1. CASE \E d \in DOMAIN tasks : CreateTask(d) \/ StartTask(d)
  BY <1>1, CreateTaskIInv, StartTaskIInv
<1>2. CASE RunStep
  BY <1>1, <1>2, CountedIInv, StartedIInv, ReceiveStateIInv, ReceiveExpansionIInv,
     ReceiveRetryIInv, SendResetIInv, SendReplyIInv, ReceiveDoneIInv
  DEF RunStep
<1>3. CASE \E x \in execs : ExecutionStep(x)
  BY <1>3, TaskFinishesIInv, ExpansionFinishesIInv DEF ExecutionStep
<1>4. CASE \E c \in Caller : \/ \E name \in Name : RequestRetry(c, name)
                             \/ AbandonRetry(c)
  BY <1>4, RequestRetryIInv, AbandonRetryIInv
<1>5. CASE Cancel
  BY <1>5, CancelIInv
<1>6. CASE UNCHANGED vars
  BY <1>6, StutterIInv
<1>. QED
  BY <1>2, <1>3, <1>4, <1>5, <1>6 DEF Next

-----------------------------------------------------------------------------
(* Theorems *)

\* The invariant holds of every behaviour in which retries do not overlap.
THEOREM InvariantHolds ==
    ASSUME ~OverlappingRetries
    PROVE  Spec => []IInv
BY InitIInv, NextIInv, PTL DEF Spec

\* Type correctness of the engine.
THEOREM TypeCorrect ==
    ASSUME ~OverlappingRetries
    PROVE  Spec => []TypeOK
<1>1. IInv => TypeOK
  BY DEF IInv
<1>. QED
  BY <1>1, InvariantHolds, PTL

\* No task is ever executed twice at the same time, and Run counts as running
\* every task that executes.
THEOREM ExecutionsDoNotOverlap ==
    ASSUME ~OverlappingRetries
    PROVE  Spec => []OneExecutionPerTask
<1>1. IInv => OneExecutionPerTask
  BY DEF IInv
<1>. QED
  BY <1>1, InvariantHolds, PTL

\* No task executes unless everything it depends on has succeeded.
THEOREM DependenciesHold ==
    ASSUME ~OverlappingRetries
    PROVE  Spec => []DepsRespected
<1>1. IInv => DepsRespected
  BY DEF IInv
<1>. QED
  BY <1>1, InvariantHolds, PTL

\* When Run has returned because its context is done, no task executes.
THEOREM StopIsQuiet ==
    ASSUME ~OverlappingRetries
    PROVE  Spec => []StopsAfterTasksExit
<1>1. Init => StopsAfterTasksExit
  BY DEF Init, StopsAfterTasksExit
<1>2. IInv /\ StopsAfterTasksExit /\ [Next]_vars => StopsAfterTasksExit'
  <2>. SUFFICES ASSUME IInv, StopsAfterTasksExit, [Next]_vars, pc' = "stopped"
                PROVE  execs' = {}
    BY DEF StopsAfterTasksExit
  <2>1. CASE Counted \/ Started
    <3>1. Running = {}
      BY <2>1 DEF Counted, Started, AfterStarts
    <3>. QED
      BY <2>1, <3>1 DEF Counted, Started, IInv, OneExecutionPerTask
  <2>2. CASE \E x \in execs : ExecutionStep(x)
    BY <2>2 DEF ExecutionStep, TaskFinishes, ExpansionFinishes, StopsAfterTasksExit
  <2>3. CASE pc = "stopped" /\ UNCHANGED execs
    BY <2>3 DEF StopsAfterTasksExit
  <2>4. CASE ReceiveRetry
    BY <2>4 DEF ReceiveRetry
  <2>. QED
    BY <2>1, <2>2, <2>3, <2>4
    DEF Next, RunStep, vars, CreateTask, StartTask, ReceiveState, ReceiveExpansion,
        SendReset, SendReply, ReceiveDone, RequestRetry, AbandonRetry, Cancel
<1>. QED
  BY <1>1, <1>2, InvariantHolds, PTL DEF Spec

\* The state of a task that succeeded never changes again.
THEOREM SuccessStays ==
    ASSUME ~OverlappingRetries
    PROVE  Spec => SuccessIsFinal
<1>1. IInv /\ [Next]_vars =>
        [\A d \in DOMAIN tasks : Succeeded(d) => tasks'[d] = tasks[d]]_vars
  BY SuccessKept
<1>. QED
  BY <1>1, InvariantHolds, PTL DEF Spec, SuccessIsFinal

-----------------------------------------------------------------------------
(* Run never waits for nothing *)

\* A task's rank is above that of everything whose value it waits for: no task
\* waits for itself, directly or through the tasks that an expansion adds.
Acyclic ==
    \E rank \in [Name -> Nat] : \A n \in Name : \A m \in Deps[n] :
        /\ rank[m] < rank[n]
        /\ m \in Expansion => \A k \in Result[m] : rank[k] < rank[n]

\* What a message says of its task.
MessagesSay ==
    \A i \in DOMAIN stateChan :
        /\ stateChan[i].state.started => stateChan[i].state.finished
        /\ stateChan[i].state.finished => ~tasks[stateChan[i].def].finished

\* A running task has a goroutine or a message.
Accounted ==
    \A d \in Running : \/ \E x \in execs : x.def = d
                       \/ \E i \in DOMAIN stateChan : stateChan[i].def = d

\* What a task was started with stays successful.
StartedAfterDeps ==
    \A d \in DOMAIN tasks : tasks[d].started => \A dep \in DepsOf(d) : Succeeded(dep)

\* Every task that another one may wait for is known.
NoneMissing ==
    /\ \A d \in DOMAIN tasks : d[1] \in Initial => d[2] = 0
    /\ \A d \in DOMAIN tasks : DepsOf(d) \subseteq DOMAIN tasks
    /\ InitialDefs \subseteq DOMAIN tasks
    /\ \A d \in DOMAIN tasks : IsExpansion(d) /\ Succeeded(d) =>
          \A n \in Result[d[1]] : <<n, tasks[d].run>> \in DOMAIN tasks

\* What an expansion that succeeded adds.
NewTasks(m) == {<<n, m.state.run>> : n \in Adds[m.def[1]]}

\* An expansion brings what it adds, and nothing else that is new.
ExpansionsAdd ==
    /\ \A x \in execs : IsExpansion(x.def) => x.base \subseteq DOMAIN tasks
    /\ \A i \in DOMAIN stateChan : IsSuccessfulExpansion(stateChan[i]) =>
          DOMAIN tasks \cup stateChan[i].expanded = DOMAIN tasks \cup NewTasks(stateChan[i])

\* Run sleeps only after it has started all that it could.
StartsAll ==
    /\ pc \in {"start", "select"} => ~AllDone
    /\ pc \in {"start", "select"} /\ runningExpansion => \E d \in Running : IsExpansion(d)
    /\ pc = "select" /\ ~cancelled => \A d \in DOMAIN tasks : ~MayStart(d)

StallInv ==
    /\ pending = EmptyFcn
    /\ MessagesSay /\ Accounted /\ StartedAfterDeps
    /\ NoneMissing /\ ExpansionsAdd
    /\ StartsAll

\* A step that leaves the tasks as they are, and their messages and executions.
LEMMA AlikeStall ==
    ASSUME StallInv, DOMAIN tasks' = DOMAIN tasks,
           \A d \in DOMAIN tasks : /\ tasks'[d].started = tasks[d].started
                                   /\ tasks'[d].finished = tasks[d].finished
                                   /\ tasks'[d].failed = tasks[d].failed
                                   /\ tasks'[d].run = tasks[d].run,
           \A i \in DOMAIN stateChan : stateChan[i].def \in DOMAIN tasks,
           UNCHANGED <<wdef, pending, stateChan, execs>>
    PROVE  /\ pending' = EmptyFcn
           /\ MessagesSay' /\ Accounted' /\ StartedAfterDeps'
           /\ NoneMissing' /\ ExpansionsAdd'
<1>. USE DEF StallInv
<1>1. \A d : Succeeded(d)' = Succeeded(d)
  BY DEF Succeeded
<1>2. Running' = Running
  BY DEF Running
<1>3. MessagesSay'
  BY DEF MessagesSay
<1>4. Accounted'
  BY <1>2 DEF Accounted
<1>5. StartedAfterDeps'
  BY <1>1 DEF StartedAfterDeps
<1>6. NoneMissing'
  BY <1>1 DEF NoneMissing
<1>7. ExpansionsAdd'
  BY DEF ExpansionsAdd, IsSuccessfulExpansion
<1>. QED
  BY <1>3, <1>4, <1>5, <1>6, <1>7

\* A step that leaves all of them alone.
LEMMA SameStall ==
    ASSUME IInv, StallInv, UNCHANGED <<tasks, wdef, pending, stateChan, execs>>
    PROVE  /\ pending' = EmptyFcn
           /\ MessagesSay' /\ Accounted' /\ StartedAfterDeps'
           /\ NoneMissing' /\ ExpansionsAdd'
BY AlikeStall DEF IInv, TypeOK

\* Announcing a task changes nothing that Run waits for.
LEMMA CreateStall ==
    ASSUME IInv, StallInv, NEW d \in DOMAIN tasks, CreateTask(d)
    PROVE  StallInv'
<1>1. tasks' = [tasks EXCEPT ![d].created = TRUE] /\ tasks \in [DOMAIN tasks -> TaskState]
      /\ UNCHANGED <<wdef, pending, stateChan, execs, answer, calls>> /\ pc = "create" /\ pc' = "create"
  BY DEF CreateTask, IInv, TypeOK
<1>2. /\ DOMAIN tasks' = DOMAIN tasks
      /\ \A t \in DOMAIN tasks : /\ tasks'[t].started = tasks[t].started
                                 /\ tasks'[t].finished = tasks[t].finished
                                 /\ tasks'[t].failed = tasks[t].failed
                                 /\ tasks'[t].run = tasks[t].run
  BY <1>1 DEF TaskState
<1>3. /\ pending' = EmptyFcn
      /\ MessagesSay' /\ Accounted' /\ StartedAfterDeps'
      /\ NoneMissing' /\ ExpansionsAdd'
  BY <1>1, <1>2, AlikeStall DEF IInv, TypeOK
<1>4. StartsAll'
  BY <1>1 DEF StartsAll
<1>. QED
  BY <1>3, <1>4 DEF StallInv

\* Run moves, or somebody else does, and the tasks stay as they are.
LEMMA MoveStall ==
    ASSUME IInv, StallInv,
           \/ Counted \/ Started \/ ReceiveDone \/ ReceiveRetry \/ SendReply \/ Cancel
           \/ \E c \in Caller : (\E name \in Name : RequestRetry(c, name)) \/ AbandonRetry(c)
           \/ UNCHANGED vars
    PROVE  StallInv'
<1>0. UNCHANGED <<tasks, wdef, pending, stateChan, execs>>
  BY DEF Counted, Started, ReceiveDone, ReceiveRetry, SendReply, Cancel, RequestRetry, AbandonRetry, vars
<1>1. /\ pending' = EmptyFcn
      /\ MessagesSay' /\ Accounted' /\ StartedAfterDeps'
      /\ NoneMissing' /\ ExpansionsAdd'
  BY <1>0, SameStall
<1>2. AllDone' = AllDone /\ Running' = Running
  BY <1>0 DEF AllDone, Running
<1>3. ASSUME runningExpansion' = runningExpansion PROVE \A d : MayStart(d)' = MayStart(d)
  BY <1>0, <1>3 DEF MayStart, ArgsReady, ValueReady, TaskReady
<1>4. StartsAll'
  <2>1. CASE Counted
    <3>1. pc' \in {"start", "select"} => ~AllDone
      BY <2>1 DEF Counted
    <3>2. pc' = "select" => cancelled'
      BY <2>1 DEF Counted
    <3>3. ~runningExpansion'
      BY <2>1 DEF Counted
    <3>. QED
      BY <1>2, <3>1, <3>2, <3>3 DEF StartsAll
  <2>2. CASE Started
    <3>1. pc = "start" /\ (\A d \in DOMAIN tasks : ~MayStart(d)) /\ runningExpansion' = runningExpansion
      BY <2>2 DEF Started
    <3>2. \A d \in DOMAIN tasks' : ~MayStart(d)'
      BY <1>0, <1>3, <3>1
    <3>. QED
      BY <1>2, <3>1, <3>2 DEF StartsAll, StallInv
  <2>3. CASE ReceiveDone \/ ReceiveRetry \/ SendReply
    <3>1. pc' \notin {"start", "select"}
      BY <2>3 DEF ReceiveDone, ReceiveRetry, SendReply
    <3>. QED
      BY <3>1 DEF StartsAll
  <2>4. CASE pc' = pc /\ runningExpansion' = runningExpansion /\ (cancelled' = cancelled \/ cancelled' = TRUE)
    BY <1>0, <1>2, <1>3, <2>4 DEF StartsAll, StallInv
  <2>5. ASSUME Cancel \/ UNCHANGED vars
               \/ \E c \in Caller : (\E name \in Name : RequestRetry(c, name)) \/ AbandonRetry(c)
        PROVE  pc' = pc /\ runningExpansion' = runningExpansion /\ (cancelled' = cancelled \/ cancelled' = TRUE)
    BY <2>5 DEF Cancel, RequestRetry, AbandonRetry, vars
  <2>. QED
    BY <2>1, <2>2, <2>3, <2>4, <2>5
<1>. QED
  BY <1>1, <1>4 DEF StallInv

\* A task starts with all that it depends on.
LEMMA StartStall ==
    ASSUME IInv, StallInv, NEW d \in DOMAIN tasks, StartTask(d)
    PROVE  StallInv'
<1>. USE DEF StallInv
<1>0. /\ pc = "start" /\ pc' = "start" /\ MayStart(d)
      /\ execs' = execs \cup {Execution(d)}
      /\ runningExpansion' = (runningExpansion \/ IsExpansion(d))
      /\ UNCHANGED <<wdef, pending, stateChan, answer, calls>>
      /\ tasks' = [tasks EXCEPT ![d].started = TRUE] /\ tasks \in [DOMAIN tasks -> TaskState]
  BY DEF StartTask, IInv, TypeOK
<1>1. /\ DOMAIN tasks' = DOMAIN tasks
      /\ \A t \in DOMAIN tasks : /\ t # d => tasks'[t] = tasks[t]
                                 /\ tasks'[t].finished = tasks[t].finished
                                 /\ tasks'[t].failed = tasks[t].failed
                                 /\ tasks'[t].run = tasks[t].run
      /\ tasks'[d].started = TRUE
      /\ ~tasks[d].started /\ ~tasks[d].finished
  BY <1>0 DEF TaskState, MayStart, IInv, FinishedWasStarted
<1>2. \A t : Succeeded(t)' = Succeeded(t)
  BY <1>1 DEF Succeeded
<1>3. Running' = Running \cup {d}
  BY <1>1 DEF Running
<1>4. Execution(d).def = d /\ (IsExpansion(d) => Execution(d).base = wdef)
  BY DEF Execution
<1>5. MessagesSay'
  <2>1. \A i \in DOMAIN stateChan : stateChan[i].def \in DOMAIN tasks
    BY DEF IInv, TypeOK
  <2>. QED
    BY <1>0, <1>1, <2>1 DEF MessagesSay
<1>6. Accounted'
  BY <1>0, <1>3, <1>4 DEF Accounted
<1>7. StartedAfterDeps'
  <2>1. \A dep \in DepsOf(d) : Succeeded(dep)
    BY <1>0 DEF MayStart, ArgsReady, ValueReady, TaskReady, Succeeded
  <2>. QED
    BY <1>1, <1>2, <2>1 DEF StartedAfterDeps
<1>8. NoneMissing'
  BY <1>1, <1>2 DEF NoneMissing
<1>9. ExpansionsAdd'
  <2>1. wdef \subseteq DOMAIN tasks
    BY DEF IInv, TypeOK
  <2>. QED
    BY <1>0, <1>1, <1>4, <2>1 DEF ExpansionsAdd, IsSuccessfulExpansion
<1>10. StartsAll'
  <2>1. ~AllDone'
    BY <1>1 DEF AllDone
  <2>2. runningExpansion' => \E t \in Running' : IsExpansion(t)
    BY <1>0, <1>3 DEF StartsAll
  <2>. QED
    BY <1>0, <2>1, <2>2 DEF StartsAll
<1>. QED
  BY <1>0, <1>5, <1>6, <1>7, <1>8, <1>9, <1>10

\* Messages that stay where they are, but for one behind them.
LEMMA SendStall ==
    ASSUME IInv, StallInv, NEW e \in MessageType, stateChan' = Append(stateChan, e),
           UNCHANGED <<tasks, wdef, pending, runningExpansion, calls, answer, cancelled>>,
           execs' \subseteq execs, \A x \in execs \ execs' : x.def = e.def,
           e.state.started => e.state.finished,
           e.state.finished => ~tasks[e.def].finished,
           IsSuccessfulExpansion(e) => DOMAIN tasks \cup e.expanded = DOMAIN tasks \cup NewTasks(e),
           pc' = pc \/ (pc = "send" /\ pc' = "reply")
    PROVE  StallInv'
<1>. USE DEF StallInv
<1>1. stateChan \in Seq(MessageType)
  BY DEF IInv, TypeOK
<1>2. /\ DOMAIN stateChan' = DOMAIN stateChan \cup {Len(stateChan) + 1}
      /\ \A i \in DOMAIN stateChan : stateChan'[i] = stateChan[i]
      /\ stateChan'[Len(stateChan) + 1] = e
  BY <1>1, AppendEntries
<1>3. MessagesSay'
  BY <1>2 DEF MessagesSay
<1>4. Accounted'
  <2>. SUFFICES ASSUME NEW d \in Running
                PROVE  \/ \E x \in execs' : x.def = d
                       \/ \E i \in DOMAIN stateChan' : stateChan'[i].def = d
    BY DEF Accounted, Running
  <2>1. CASE \E x \in execs : x.def = d
    <3>1. PICK x \in execs : x.def = d
      BY <2>1
    <3>2. CASE x \in execs'
      BY <3>1, <3>2
    <3>3. CASE x \notin execs'
      <4>1. e.def = d
        BY <3>1, <3>3
      <4>. QED
        BY <1>2, <4>1
    <3>. QED
      BY <3>2, <3>3
  <2>2. CASE \E i \in DOMAIN stateChan : stateChan[i].def = d
    BY <1>2, <2>2
  <2>. QED
    BY <2>1, <2>2 DEF Accounted
<1>5. StartedAfterDeps' /\ NoneMissing'
  BY DEF StartedAfterDeps, NoneMissing, Succeeded
<1>6. ExpansionsAdd'
  BY <1>2 DEF ExpansionsAdd, IsSuccessfulExpansion
<1>7. StartsAll'
  <2>1. AllDone' = AllDone /\ Running' = Running
    BY DEF AllDone, Running
  <2>2. \A d : MayStart(d)' = MayStart(d)
    BY DEF MayStart, ArgsReady, ValueReady, TaskReady
  <2>. QED
    BY <2>1, <2>2 DEF StartsAll
<1>. QED
  BY <1>3, <1>4, <1>5, <1>6, <1>7

\* The message that Run sends itself for a retry.
LEMMA ResetStall ==
    ASSUME IInv, StallInv, SendReset
    PROVE  StallInv'
<1>1. PICK e : e = [def |-> RetryTarget(calls[answer.to].name), state |-> ResetState(0), expanded |-> {}]
  OBVIOUS
<1>2. e \in MessageType /\ ~e.state.started /\ ~e.state.finished
  <2>1. RetryTarget(calls[answer.to].name) \in Def
    BY DEF SendReset, IInv, GrantedRetry, TypeOK
  <2>2. ResetState(0) \in TaskState /\ ~ResetState(0).started /\ ~ResetState(0).finished
    BY StatesTyped DEF ResetState
  <2>. QED
    BY <1>1, <2>1, <2>2 DEF MessageType
<1>3. /\ stateChan' = Append(stateChan, e) /\ execs' = execs /\ pc = "send" /\ pc' = "reply"
      /\ UNCHANGED <<tasks, wdef, pending, runningExpansion, calls, answer, cancelled>>
  BY <1>1 DEF SendReset
<1>4. ~IsSuccessfulExpansion(e)
  BY <1>2 DEF IsSuccessfulExpansion
<1>. QED
  BY <1>2, <1>3, <1>4, SendStall

\* The message of a task that returned.
LEMMA TaskFinishesStall ==
    ASSUME IInv, StallInv, NEW x \in execs, NEW err \in BOOLEAN, NEW disableRetries \in BOOLEAN,
           TaskFinishes(x, err, disableRetries)
    PROVE  StallInv'
<1>1. PICK s, e : s = TaskOutcome(x, err, disableRetries) /\ e = [def |-> x.def, state |-> s, expanded |-> {}]
  OBVIOUS
<1>2. /\ stateChan' = Append(stateChan, e) /\ execs' = execs \ {x} /\ ~IsExpansion(x.def) /\ pc' = pc
      /\ UNCHANGED <<tasks, wdef, pending, runningExpansion, calls, answer, cancelled>>
  BY <1>1 DEF TaskFinishes
<1>3. e.def = x.def /\ e.state = s /\ ~tasks[x.def].finished /\ ~IsSuccessfulExpansion(e)
  BY <1>1, <1>2 DEF IInv, OneExecutionPerTask, Running, IsSuccessfulExpansion
<1>4. x.def \in Def /\ x.run \in Nat /\ x.failed \in BOOLEAN /\ x.retryCount \in Nat
  <2>1. x \in ExecType
    BY DEF IInv, TypeOK
  <2>. QED
    BY <2>1 DEF ExecType
<1>5. s \in TaskState /\ (s.started => s.finished)
  <2>1. x.retryCount + 1 \in Nat
    BY <1>4
  <2>2. ResetState(x.retryCount + 1) \in TaskState /\ ~ResetState(x.retryCount + 1).started
    BY <2>1, StatesTyped DEF ResetState
  <2>3. CASE s = ResetState(x.retryCount + 1)
    BY <2>2, <2>3
  <2>4. CASE s # ResetState(x.retryCount + 1)
    <3>1. s = [created |-> TRUE, started |-> TRUE, finished |-> TRUE,
               failed |-> x.failed \/ err, retryCount |-> x.retryCount, run |-> x.run]
      BY <1>1, <2>4 DEF TaskOutcome
    <3>2. (x.failed \/ err) \in BOOLEAN
      OBVIOUS
    <3>. QED
      BY <1>4, <3>1, <3>2 DEF TaskState
  <2>. QED
    BY <2>3, <2>4
<1>6. e \in MessageType
  BY <1>1, <1>4, <1>5 DEF MessageType
<1>7. execs' \subseteq execs /\ \A y \in execs \ execs' : y.def = e.def
  BY <1>2, <1>3
<1>. QED
  BY <1>2, <1>3, <1>5, <1>6, <1>7, SendStall

\* The message of an expansion that returned.
LEMMA ExpansionFinishesStall ==
    ASSUME IInv, StallInv, NEW x \in execs, NEW err \in BOOLEAN, ExpansionFinishes(x, err)
    PROVE  StallInv'
<1>1. PICK s, added, e : /\ s = ExpansionOutcome(x, err)
                         /\ added = (IF err THEN {} ELSE x.base \cup {<<n, x.run>> : n \in Adds[x.def[1]]})
                         /\ e = [def |-> x.def, state |-> s, expanded |-> added]
  OBVIOUS
<1>2. /\ stateChan' = Append(stateChan, e) /\ execs' = execs \ {x} /\ IsExpansion(x.def) /\ pc' = pc
      /\ UNCHANGED <<tasks, wdef, pending, runningExpansion, calls, answer, cancelled>>
  BY <1>1 DEF ExpansionFinishes
<1>3. e.def = x.def /\ e.state = s /\ e.expanded = added /\ ~tasks[x.def].finished
  BY <1>1, <1>2 DEF IInv, OneExecutionPerTask, Running
<1>4. x.def \in Def /\ x.run \in Nat /\ x.failed \in BOOLEAN /\ x.retryCount \in Nat /\ x.base \in SUBSET Def
  <2>1. x \in ExecType
    BY DEF IInv, TypeOK
  <2>. QED
    BY <2>1 DEF ExecType
<1>5. s \in TaskState /\ s.finished /\ s.run = x.run /\ s.failed = (x.failed \/ err)
  <2>1. (x.failed \/ err) \in BOOLEAN
    OBVIOUS
  <2>. QED
    BY <1>1, <1>4, <2>1 DEF ExpansionOutcome, TaskState
<1>6. e \in MessageType
  <2>1. Adds[x.def[1]] \subseteq Name
    BY <1>2, WorkflowAssumption DEF IsExpansion
  <2>2. added \in SUBSET Def
    BY <1>1, <1>4, <2>1
  <2>. QED
    BY <1>1, <1>4, <1>5, <2>2 DEF MessageType
<1>7. IsSuccessfulExpansion(e) => DOMAIN tasks \cup e.expanded = DOMAIN tasks \cup NewTasks(e)
  <2>. SUFFICES ASSUME IsSuccessfulExpansion(e)
                PROVE  DOMAIN tasks \cup added = DOMAIN tasks \cup {<<n, x.run>> : n \in Adds[x.def[1]]}
    BY <1>3, <1>5 DEF NewTasks
  <2>1. ~err
    BY <1>3, <1>5 DEF IsSuccessfulExpansion
  <2>2. x.base \subseteq DOMAIN tasks
    BY <1>2 DEF StallInv, ExpansionsAdd
  <2>. QED
    BY <1>1, <2>1, <2>2
<1>8. execs' \subseteq execs /\ \A y \in execs \ execs' : y.def = e.def
  BY <1>2, <1>3
<1>. QED
  BY <1>2, <1>3, <1>5, <1>6, <1>7, <1>8, SendStall

\* The message that is received, and the others.
LEMMA FirstMessage ==
    ASSUME IInv, StallInv, stateChan # <<>>, NEW m, m = Head(stateChan), stateChan' = Tail(stateChan)
    PROVE  /\ m \in MessageType /\ m.def \in DOMAIN tasks
           /\ tasks[m.def].started /\ ~Succeeded(m.def)
           /\ m.state.started => m.state.finished
           /\ m.state.finished => ~tasks[m.def].finished
           /\ \A i \in DOMAIN stateChan' : \E j \in DOMAIN stateChan : stateChan'[i] = stateChan[j] /\ j # 1
           /\ \A i \in DOMAIN stateChan : stateChan[i].def # m.def =>
                 \E j \in DOMAIN stateChan' : stateChan'[j] = stateChan[i]
           /\ \A i \in DOMAIN stateChan' : stateChan'[i].def # m.def /\ stateChan'[i].def \in DOMAIN tasks
           /\ \A x \in execs : x.def # m.def /\ x.def \in DOMAIN tasks
           /\ IsSuccessfulExpansion(m) => DOMAIN tasks \cup m.expanded = DOMAIN tasks \cup NewTasks(m)
<1>0. stateChan \in Seq(MessageType)
  BY DEF IInv, TypeOK
<1>1. /\ 1 \in DOMAIN stateChan /\ m = stateChan[1] /\ m \in MessageType
      /\ \A i \in DOMAIN stateChan' : /\ i + 1 \in DOMAIN stateChan
                                      /\ i + 1 # 1
                                      /\ stateChan'[i] = stateChan[i + 1]
  BY <1>0, TailEntries
<1>2. \A i \in DOMAIN stateChan : i # 1 => i - 1 \in DOMAIN stateChan' /\ stateChan'[i - 1] = stateChan[i]
  <2>1. /\ Len(stateChan) \in Nat /\ DOMAIN stateChan = 1 .. Len(stateChan)
        /\ stateChan' \in Seq(MessageType) /\ Len(stateChan') = Len(stateChan) - 1
    BY <1>0
  <2>2. DOMAIN stateChan' = 1 .. Len(stateChan')
    BY <2>1
  <2>. QED
    BY <1>1, <2>1, <2>2
<1>3. \A i \in DOMAIN stateChan : stateChan[i].def # m.def =>
         \E j \in DOMAIN stateChan' : stateChan'[j] = stateChan[i]
  BY <1>1, <1>2
<1>4. \A i \in DOMAIN stateChan' : stateChan'[i].def # m.def /\ stateChan'[i].def \in DOMAIN tasks
  BY <1>1 DEF IInv, SingleMessage, TypeOK
<1>5. \A x \in execs : x.def # m.def /\ x.def \in DOMAIN tasks
  BY <1>1 DEF IInv, OneExecutionPerTask, TypeOK
<1>6. m.def \in DOMAIN tasks /\ tasks[m.def].started /\ ~Succeeded(m.def)
  BY <1>1 DEF IInv, SingleMessage, TypeOK, Succeeded
<1>7. /\ m.state.started => m.state.finished
      /\ m.state.finished => ~tasks[m.def].finished
  BY <1>1 DEF StallInv, MessagesSay
<1>8. IsSuccessfulExpansion(m) => DOMAIN tasks \cup m.expanded = DOMAIN tasks \cup NewTasks(m)
  BY <1>1 DEF StallInv, ExpansionsAdd
<1>. QED
  BY <1>1, <1>3, <1>4, <1>5, <1>6, <1>7, <1>8

\* Run takes the message of a task, of a reset or of a failed expansion.
LEMMA ReceiveStall ==
    ASSUME IInv, StallInv, ReceiveState
    PROVE  StallInv'
<1>. USE DEF StallInv
<1>0. PICK m : /\ m = Head(stateChan) /\ tasks' = [tasks EXCEPT ![m.def] = m.state]
               /\ ~IsSuccessfulExpansion(m)
  BY DEF ReceiveState
<1>1. /\ stateChan # <<>> /\ stateChan' = Tail(stateChan) /\ pc = "select" /\ pc' = "create"
      /\ UNCHANGED <<wdef, pending, execs, answer, calls>>
      /\ tasks \in [DOMAIN tasks -> TaskState]
  BY DEF ReceiveState, IInv, TypeOK
<1>2. /\ m \in MessageType /\ m.def \in DOMAIN tasks
      /\ tasks[m.def].started /\ ~Succeeded(m.def)
      /\ m.state.started => m.state.finished
      /\ \A i \in DOMAIN stateChan' : \E j \in DOMAIN stateChan : stateChan'[i] = stateChan[j]
      /\ \A i \in DOMAIN stateChan : stateChan[i].def # m.def =>
            \E j \in DOMAIN stateChan' : stateChan'[j] = stateChan[i]
      /\ \A i \in DOMAIN stateChan' : stateChan'[i].def # m.def /\ stateChan'[i].def \in DOMAIN tasks
  BY <1>0, <1>1, FirstMessage
<1>3. /\ DOMAIN tasks' = DOMAIN tasks /\ tasks'[m.def] = m.state
      /\ \A t \in DOMAIN tasks : t # m.def => tasks'[t] = tasks[t]
  BY <1>0, <1>1, <1>2
<1>4. \A t : Succeeded(t) => Succeeded(t)'
  BY <1>2, <1>3 DEF Succeeded
<1>5. MessagesSay'
  BY <1>2, <1>3 DEF MessagesSay
<1>6. Accounted'
  <2>. SUFFICES ASSUME NEW d \in Running'
                PROVE  \/ \E x \in execs : x.def = d
                       \/ \E i \in DOMAIN stateChan' : stateChan'[i].def = d
    BY <1>1 DEF Accounted
  <2>1. d # m.def /\ d \in Running
    BY <1>2, <1>3 DEF Running
  <2>. QED
    BY <1>2, <2>1 DEF Accounted
<1>7. StartedAfterDeps'
  BY <1>2, <1>3, <1>4 DEF StartedAfterDeps
<1>8. NoneMissing'
  <2>1. \A d \in DOMAIN tasks : IsExpansion(d) /\ Succeeded(d)' => d # m.def /\ Succeeded(d)
    BY <1>0, <1>2, <1>3 DEF Succeeded, IsSuccessfulExpansion
  <2>. QED
    BY <1>3, <2>1 DEF NoneMissing
<1>9. ExpansionsAdd'
  BY <1>1, <1>2, <1>3 DEF ExpansionsAdd
<1>10. StartsAll'
  BY <1>1 DEF StartsAll
<1>. QED
  BY <1>1, <1>5, <1>6, <1>7, <1>8, <1>9, <1>10

\* An expansion's tasks come in.  Whatever else runs, w.tasks loses nothing.
LEMMA ExpandStall ==
    ASSUME IInv, StallInv, ReceiveExpansion
    PROVE  StallInv'
<1>. USE DEF StallInv
<1>0. PICK m : /\ m = Head(stateChan) /\ tasks' = [Expand(m.expanded) EXCEPT ![m.def] = m.state]
               /\ IsSuccessfulExpansion(m) /\ wdef' = m.expanded
  BY DEF ReceiveExpansion
<1>1. /\ stateChan # <<>> /\ stateChan' = Tail(stateChan) /\ pc = "select" /\ pc' = "create"
      /\ UNCHANGED <<pending, execs, answer, calls>>
      /\ tasks \in [DOMAIN tasks -> TaskState] /\ DOMAIN tasks \subseteq Def
  BY DEF ReceiveExpansion, IInv, TypeOK
<1>2. /\ m \in MessageType /\ m.def \in DOMAIN tasks
      /\ tasks[m.def].started /\ ~Succeeded(m.def)
      /\ m.state.started => m.state.finished
      /\ m.state.finished => ~tasks[m.def].finished
      /\ \A i \in DOMAIN stateChan' : \E j \in DOMAIN stateChan : stateChan'[i] = stateChan[j]
      /\ \A i \in DOMAIN stateChan : stateChan[i].def # m.def =>
            \E j \in DOMAIN stateChan' : stateChan'[j] = stateChan[i]
      /\ \A i \in DOMAIN stateChan' : stateChan'[i].def # m.def /\ stateChan'[i].def \in DOMAIN tasks
      /\ \A x \in execs : x.def # m.def /\ x.def \in DOMAIN tasks
      /\ DOMAIN tasks \cup m.expanded = DOMAIN tasks \cup NewTasks(m)
    BY <1>0, <1>1, FirstMessage
<1>3. PICK New : New = {<<n, m.state.run>> : n \in Adds[m.def[1]]}
  OBVIOUS
<1>4. /\ DOMAIN tasks' = DOMAIN tasks \cup New /\ DOMAIN tasks \subseteq DOMAIN tasks'
      /\ tasks'[m.def] = m.state
      /\ \A t \in DOMAIN tasks : t # m.def => tasks'[t] = tasks[t]
      /\ \A t \in DOMAIN tasks' \ DOMAIN tasks : tasks'[t] = Fresh
  <2>. DEFINE E == Expand(m.expanded)
  <2>1. /\ E = [t \in DOMAIN E |-> E[t]]
        /\ DOMAIN E = DOMAIN tasks \cup m.expanded
        /\ \A t \in DOMAIN tasks : E[t] = tasks[t]
        /\ \A t \in m.expanded \ DOMAIN tasks : E[t] = LoadTaskState(pending, t)
    BY DEF Expand
  <2>2. \A t : LoadTaskState(pending, t) = Fresh
    BY DEF LoadTaskState, EmptyFcn
  <2>3. tasks' = [E EXCEPT ![m.def] = m.state]
    BY <1>0
  <2>. HIDE DEF E
  <2>. QED
    BY <1>2, <1>3, <2>1, <2>2, <2>3 DEF NewTasks
<1>5. ~Fresh.started /\ ~Fresh.finished
  BY DEF Fresh
<1>6. \A t : Succeeded(t) => Succeeded(t)'
  BY <1>2, <1>4 DEF Succeeded
<1>7. /\ m.def[1] \in Expansion /\ m.def = <<m.def[1], 0>>
      /\ m.state.finished /\ ~m.state.failed
  <2>1. IsExpansion(m.def) /\ m.state.finished /\ ~m.state.failed
    BY <1>0 DEF IsSuccessfulExpansion
  <2>2. m.def[1] \in Expansion /\ m.def \in Def
    BY <1>1, <1>2, <2>1 DEF IsExpansion
  <2>3. m.def[2] = 0
    BY <1>2, <2>2, WorkflowAssumption DEF NoneMissing
  <2>. QED
    BY <2>1, <2>2, <2>3
<1>9. MessagesSay'
  BY <1>2, <1>4 DEF MessagesSay
<1>10. Accounted'
  <2>. SUFFICES ASSUME NEW d \in Running'
                PROVE  \/ \E x \in execs : x.def = d
                       \/ \E i \in DOMAIN stateChan' : stateChan'[i].def = d
    BY <1>1 DEF Accounted
  <2>1. d # m.def /\ d \in Running
    BY <1>2, <1>4, <1>5 DEF Running
  <2>. QED
    BY <1>2, <2>1 DEF Accounted
<1>11. StartedAfterDeps'
  BY <1>2, <1>4, <1>5, <1>6 DEF StartedAfterDeps
<1>12. NoneMissing'
  <2>1. \A n \in Adds[m.def[1]] : n \in Name \ Initial /\ Deps[n] \subseteq Initial \cup Adds[m.def[1]]
    BY <1>7, WorkflowAssumption
  <2>2. \A d \in DOMAIN tasks' : d[1] \in Initial => d[2] = 0
    BY <1>3, <1>4, <2>1 DEF NoneMissing
  <2>3. \A d \in DOMAIN tasks' : DepsOf(d) \subseteq DOMAIN tasks'
    <3>. SUFFICES ASSUME NEW d \in DOMAIN tasks', NEW dep \in DepsOf(d) PROVE dep \in DOMAIN tasks'
      OBVIOUS
    <3>1. CASE d \in DOMAIN tasks
      BY <1>4, <3>1 DEF NoneMissing
    <3>2. CASE d \in New
      <4>1. PICK n \in Adds[m.def[1]] : d = <<n, m.state.run>>
        BY <1>3, <3>2
      <4>2. PICK k \in Deps[n] : dep = <<k, IF k \in Initial THEN 0 ELSE m.state.run>>
        BY <4>1 DEF DepsOf
      <4>3. CASE k \in Initial
        <5>1. dep \in InitialDefs
          BY <4>2, <4>3 DEF InitialDefs, DefOf
        <5>. QED
          BY <1>4, <5>1 DEF NoneMissing
      <4>4. CASE k \notin Initial
        <5>1. k \in Adds[m.def[1]]
          BY <2>1, <4>2, <4>4
        <5>. QED
          BY <1>3, <1>4, <4>2, <4>4, <5>1
      <4>. QED
        BY <4>3, <4>4
    <3>. QED
      BY <1>4, <3>1, <3>2
  <2>4. InitialDefs \subseteq DOMAIN tasks'
    BY <1>4 DEF NoneMissing
  <2>5. ASSUME NEW d \in DOMAIN tasks', IsExpansion(d), Succeeded(d)', NEW n \in Result[d[1]]
        PROVE  <<n, tasks'[d].run>> \in DOMAIN tasks'
    <3>1. CASE d = m.def
      <4>1. n \in Adds[m.def[1]]
        BY <1>7, <2>5, <3>1, WorkflowAssumption
      <4>. QED
        BY <1>3, <1>4, <3>1, <4>1
    <3>2. CASE d # m.def
      <4>1. d \in DOMAIN tasks
        BY <1>4, <1>5, <2>5 DEF Succeeded
      <4>2. tasks'[d] = tasks[d]
        BY <1>4, <3>2, <4>1
      <4>3. Succeeded(d)
        BY <2>5, <4>1, <4>2 DEF Succeeded
      <4>4. <<n, tasks[d].run>> \in DOMAIN tasks
        BY <2>5, <4>1, <4>3 DEF NoneMissing
      <4>. QED
        BY <1>4, <4>2, <4>4
    <3>. QED
      BY <3>1, <3>2
  <2>. QED
    BY <2>2, <2>3, <2>4, <2>5 DEF NoneMissing
<1>13. ExpansionsAdd'
  <2>1. \A x \in execs : IsExpansion(x.def) => x.base \subseteq DOMAIN tasks'
    BY <1>4 DEF ExpansionsAdd
  <2>2. ASSUME NEW i \in DOMAIN stateChan', IsSuccessfulExpansion(stateChan'[i])
        PROVE  DOMAIN tasks' \cup stateChan'[i].expanded = DOMAIN tasks' \cup NewTasks(stateChan'[i])
    <3>1. PICK j \in DOMAIN stateChan : stateChan'[i] = stateChan[j]
      BY <1>2
    <3>2. DOMAIN tasks \cup stateChan[j].expanded = DOMAIN tasks \cup NewTasks(stateChan[j])
      BY <2>2, <3>1 DEF ExpansionsAdd
    <3>3. PICK E, A : E = stateChan[j].expanded /\ A = NewTasks(stateChan[j])
      OBVIOUS
    <3>4. stateChan'[i].expanded = E /\ NewTasks(stateChan'[i]) = A
      BY <3>1, <3>3 DEF NewTasks
    <3>. QED
      BY <1>4, <3>2, <3>3, <3>4
  <2>. QED
    BY <1>1, <2>1, <2>2 DEF ExpansionsAdd
<1>14. StartsAll'
  BY <1>1 DEF StartsAll
<1>. QED
  BY <1>1, <1>9, <1>10, <1>11, <1>12, <1>13, <1>14

\* A workflow just started has only its first definition.
LEMMA InitStall == Init => StallInv
<1>. SUFFICES ASSUME Init PROVE StallInv
  OBVIOUS
<1>1. /\ DOMAIN tasks = InitialDefs /\ wdef = InitialDefs /\ execs = {} /\ DOMAIN stateChan = {}
      /\ pc = "create" /\ pending = EmptyFcn /\ answer.res = "none"
      /\ \A d \in InitialDefs : ~tasks[d].started /\ ~tasks[d].finished
  BY DEF Init, NoReply, Fresh
<1>2. \A d \in InitialDefs : d[1] \in Initial /\ d[2] = 0
  BY DEF InitialDefs, DefOf
<1>3. ASSUME NEW d \in InitialDefs PROVE DepsOf(d) \subseteq InitialDefs
  <2>1. Deps[d[1]] \subseteq Initial
    BY <1>2, WorkflowAssumption
  <2>. QED
    BY <2>1 DEF DepsOf, InitialDefs, DefOf
<1>4. NoneMissing
  BY <1>1, <1>2, <1>3 DEF NoneMissing, Succeeded
<1>5. Accounted
  BY <1>1 DEF Accounted, Running
<1>6. MessagesSay /\ StartedAfterDeps /\ ExpansionsAdd /\ StartsAll
  BY <1>1 DEF MessagesSay, StartedAfterDeps, ExpansionsAdd, StartsAll
<1>. QED
  BY <1>1, <1>4, <1>5, <1>6 DEF StallInv

\* Every step preserves it.
LEMMA NextStall ==
    ASSUME IInv, StallInv, [Next]_vars
    PROVE  StallInv'
<1>1. CASE \E d \in DOMAIN tasks : CreateTask(d) \/ StartTask(d)
  BY <1>1, CreateStall, StartStall
<1>2. CASE RunStep
  BY <1>1, <1>2, MoveStall, ReceiveStall, ExpandStall, ResetStall DEF RunStep
<1>3. CASE \E x \in execs : ExecutionStep(x)
  BY <1>3, TaskFinishesStall, ExpansionFinishesStall DEF ExecutionStep
<1>4. CASE \/ \E c \in Caller : \/ \E name \in Name : RequestRetry(c, name)
                                \/ AbandonRetry(c)
           \/ Cancel \/ UNCHANGED vars
  BY <1>4, MoveStall
<1>. QED
  BY <1>2, <1>3, <1>4 DEF Next

\* There is no endless descent of ranks.
LEMMA RanksAreWellFounded ==
    ASSUME NEW S, S \subseteq Nat, S # {}
    PROVE  \E x \in S : \A y \in S : ~(y < x)
<1>. DEFINE R == {p \in Nat \X Nat : p[1] < p[2]}
<1>1. IsWellFoundedOn(R, Nat)
  BY NatLessThanWellFounded DEF OpToRel
<1>. HIDE DEF R
<1>2. PICK x \in S : \A y \in S : ~(<<y, x>> \in R)
  BY <1>1, WFMin
<1>. QED
  BY <1>2 DEF R

\* Among the tasks that did not start, one of the least rank waits for tasks that
\* all started: had they succeeded, it would have been started too.
LEMMA StallMeans ==
    ASSUME Acyclic, IInv, StallInv
    PROVE  StallHasCause
<1>. SUFFICES ASSUME Asleep, execs = {}, ~cancelled, ~FailedTask PROVE FALSE
  BY DEF StallHasCause
<1>. USE DEF StallInv
<1>1. pc = "select" /\ execs = {} /\ DOMAIN stateChan = {}
  BY DEF Asleep
<1>2. Running = {}
  BY <1>1 DEF Accounted
<1>3. \A d \in DOMAIN tasks : tasks[d].started => Succeeded(d)
  BY <1>1, <1>2 DEF Running, Succeeded, FailedTask
<1>4. ~runningExpansion
  BY <1>1, <1>2 DEF StartsAll
<1>. DEFINE U == {d \in DOMAIN tasks : ~tasks[d].started}
<1>5. U # {}
  BY <1>1, <1>3 DEF StartsAll, AllDone, Succeeded
<1>6. \A d \in U : ~ArgsReady(d)
  BY <1>1, <1>4 DEF StartsAll, MayStart
<1>7. PICK rank \in [Name -> Nat] : \A n \in Name : \A m \in Deps[n] :
                /\ rank[m] < rank[n]
                /\ m \in Expansion => \A k \in Result[m] : rank[k] < rank[n]
  BY DEF Acyclic
<1>8. \A d \in DOMAIN tasks : d[1] \in Name
  BY DEF IInv, TypeOK
<1>9. PICK d \in U : \A e \in U : ~(rank[e[1]] < rank[d[1]])
  <2>. DEFINE S == {rank[e[1]] : e \in U}
  <2>1. S \subseteq Nat /\ S # {}
    BY <1>5, <1>8
  <2>. HIDE DEF S
  <2>2. PICK x \in S : \A y \in S : ~(y < x)
    BY <2>1, RanksAreWellFounded
  <2>. QED
    BY <2>2 DEF S
<1>10. PICK dep \in DepsOf(d) : ~ValueReady(dep)
  BY <1>6, <1>9 DEF ArgsReady
<1>11. d \in DOMAIN tasks /\ dep \in DOMAIN tasks
  BY <1>9, <1>10 DEF NoneMissing
<1>12. dep[1] \in Deps[d[1]]
  BY <1>10 DEF DepsOf
<1>13. rank[dep[1]] < rank[d[1]]
  BY <1>7, <1>8, <1>11, <1>12
<1>14. Succeeded(dep)
  BY <1>3, <1>9, <1>11, <1>13
<1>15. PICK n \in Result[dep[1]] : IsExpansion(dep) /\ ~TaskReady(<<n, tasks[dep].run>>)
  BY <1>10, <1>14 DEF ValueReady, TaskReady, Succeeded
<1>16. <<n, tasks[dep].run>> \in DOMAIN tasks
  BY <1>11, <1>14, <1>15 DEF NoneMissing
<1>17. PICK e : e = <<n, tasks[dep].run>>
  OBVIOUS
<1>18. e \in U /\ e[1] = n
  BY <1>3, <1>15, <1>16, <1>17 DEF Succeeded, TaskReady
<1>19. rank[n] < rank[d[1]]
  BY <1>7, <1>8, <1>11, <1>12, <1>15 DEF IsExpansion
<1>. QED
  BY <1>9, <1>18, <1>19

\* When Run sleeps and nothing executes, a task has failed, in every graph in which
\* no task waits for itself: expansions that run at once included.
THEOREM NeverStuckForNothing ==
    ASSUME ~OverlappingRetries, Acyclic
    PROVE  Spec => []StallHasCause
<1>1. IInv /\ StallInv /\ [Next]_vars => StallInv'
  BY NextStall
<1>2. IInv /\ StallInv => StallHasCause
  BY StallMeans
<1>. QED
  BY <1>1, <1>2, InitStall, InvariantHolds, PTL DEF Spec

-----------------------------------------------------------------------------
(* What RetryTask knows *)

\* The definition has all the tasks, and so has what an expansion builds on.
DefinitionComplete ==
    /\ wdef = DOMAIN tasks
    /\ \A x \in execs : IsExpansion(x.def) => x.base = DOMAIN tasks
    /\ \A i \in DOMAIN stateChan : IsSuccessfulExpansion(stateChan[i]) =>
          stateChan[i].expanded
            = DOMAIN tasks \cup {<<n, stateChan[i].state.run>> : n \in Adds[stateChan[i].def[1]]}

\* An answer is under way.
AnswerIsFresh == (answer.res = "unknown" => pc = "reply") /\ NoUnknownTask

KnownInv == DefinitionComplete /\ AnswerIsFresh

\* "Don't start a new expansion until the currently running one completes."
OneExpansionRuns == \A d, e \in Running : IsExpansion(d) /\ IsExpansion(e) => d = e

\* A message behind the others, from an execution that ends or from Run itself.
LEMMA SendKnown ==
    ASSUME IInv, KnownInv, NEW e, stateChan' = Append(stateChan, e),
           UNCHANGED <<tasks, wdef>>, execs' \subseteq execs,
           IsSuccessfulExpansion(e) => e.expanded = DOMAIN tasks \cup NewTasks(e)
    PROVE  DefinitionComplete'
<1>1. stateChan \in Seq(MessageType)
  BY DEF IInv, TypeOK
<1>2. /\ DOMAIN stateChan' = DOMAIN stateChan \cup {Len(stateChan) + 1}
      /\ \A i \in DOMAIN stateChan : stateChan'[i] = stateChan[i]
      /\ stateChan'[Len(stateChan) + 1] = e
  BY <1>1, AppendEntries
<1>. QED
  BY <1>2 DEF KnownInv, DefinitionComplete, IsSuccessfulExpansion, NewTasks

\* What an execution sends.
LEMMA FinishKnown ==
    ASSUME IInv, KnownInv, NEW x \in execs, ExecutionStep(x)
    PROVE  DefinitionComplete'
<1>1. CASE \E err, disableRetries \in BOOLEAN : TaskFinishes(x, err, disableRetries)
  <2>1. PICK err \in BOOLEAN, disableRetries \in BOOLEAN : TaskFinishes(x, err, disableRetries)
    BY <1>1
  <2>2. PICK e : e = [def |-> x.def, state |-> TaskOutcome(x, err, disableRetries), expanded |-> {}]
    OBVIOUS
  <2>3. /\ stateChan' = Append(stateChan, e) /\ execs' \subseteq execs
        /\ UNCHANGED <<tasks, wdef>> /\ ~IsExpansion(x.def)
    BY <2>1, <2>2 DEF TaskFinishes
  <2>4. ~IsSuccessfulExpansion(e)
    BY <2>2, <2>3 DEF IsSuccessfulExpansion
  <2>. QED
    BY <2>3, <2>4, SendKnown
<1>2. CASE \E err \in BOOLEAN : ExpansionFinishes(x, err)
  <2>1. PICK err \in BOOLEAN : ExpansionFinishes(x, err)
    BY <1>2
  <2>2. PICK e : e = [def |-> x.def, state |-> ExpansionOutcome(x, err),
                      expanded |-> IF err THEN {}
                                   ELSE x.base \cup {<<n, x.run>> : n \in Adds[x.def[1]]}]
    OBVIOUS
  <2>3. /\ stateChan' = Append(stateChan, e) /\ execs' \subseteq execs
        /\ UNCHANGED <<tasks, wdef>> /\ IsExpansion(x.def)
    BY <2>1, <2>2 DEF ExpansionFinishes
  <2>4. IsSuccessfulExpansion(e) => e.expanded = DOMAIN tasks \cup NewTasks(e)
    <3>. SUFFICES ASSUME IsSuccessfulExpansion(e) PROVE e.expanded = DOMAIN tasks \cup NewTasks(e)
      OBVIOUS
    <3>1. e.state.run = x.run /\ e.state.failed = (x.failed \/ err) /\ e.def = x.def
      BY <2>2 DEF ExpansionOutcome
    <3>2. ~err
      BY <3>1 DEF IsSuccessfulExpansion
    <3>3. x.base = DOMAIN tasks
      BY <2>3 DEF KnownInv, DefinitionComplete
    <3>4. e.expanded = x.base \cup {<<n, x.run>> : n \in Adds[x.def[1]]}
      BY <2>2, <3>2
    <3>. QED
      BY <3>1, <3>3, <3>4 DEF NewTasks
  <2>. QED
    BY <2>3, <2>4, SendKnown
<1>. QED
  BY <1>1, <1>2 DEF ExecutionStep

\* The definition stays complete when no other expansion is under way.
LEMMA ExpandKnown ==
    ASSUME OneExpansionRuns, IInv, StallInv, KnownInv, ReceiveExpansion
    PROVE  DefinitionComplete'
<1>. USE DEF StallInv, KnownInv
<1>0. PICK m : /\ m = Head(stateChan) /\ tasks' = [Expand(m.expanded) EXCEPT ![m.def] = m.state]
               /\ IsSuccessfulExpansion(m) /\ wdef' = m.expanded
  BY DEF ReceiveExpansion
<1>1. stateChan # <<>> /\ stateChan' = Tail(stateChan) /\ execs' = execs
  BY DEF ReceiveExpansion
<1>2. /\ m.def \in DOMAIN tasks
      /\ tasks[m.def].started /\ (m.state.finished => ~tasks[m.def].finished)
      /\ \A i \in DOMAIN stateChan' : \E j \in DOMAIN stateChan : stateChan'[i] = stateChan[j]
      /\ \A i \in DOMAIN stateChan' : stateChan'[i].def # m.def
      /\ \A x \in execs : x.def # m.def
  BY <1>0, <1>1, FirstMessage
<1>3. 1 \in DOMAIN stateChan /\ m = stateChan[1]
  <2>1. stateChan \in Seq(MessageType)
    BY DEF IInv, TypeOK
  <2>. QED
    BY <1>0, <1>1, <2>1
<1>4. m.expanded = DOMAIN tasks \cup NewTasks(m)
  BY <1>0, <1>3 DEF DefinitionComplete, NewTasks
<1>5. DOMAIN tasks' = DOMAIN tasks \cup m.expanded
  BY <1>0 DEF Expand
<1>6. IsExpansion(m.def) /\ m.def \in Running
  BY <1>0, <1>2 DEF IsSuccessfulExpansion, Running
<1>7. \A x \in execs : ~IsExpansion(x.def)
  BY <1>2, <1>6 DEF IInv, OneExecutionPerTask, OneExpansionRuns
<1>8. ASSUME NEW i \in DOMAIN stateChan', IsSuccessfulExpansion(stateChan'[i]) PROVE FALSE
  <2>1. PICK j \in DOMAIN stateChan : stateChan'[i] = stateChan[j]
    BY <1>2
  <2>2. /\ tasks[stateChan[j].def].started
        /\ stateChan[j].state.finished => ~tasks[stateChan[j].def].finished
        /\ stateChan[j].def \in DOMAIN tasks
    BY DEF IInv, SingleMessage, MessagesSay, TypeOK
  <2>3. IsExpansion(stateChan[j].def) /\ stateChan[j].state.finished /\ stateChan[j].def # m.def
    BY <1>2, <1>8, <2>1 DEF IsSuccessfulExpansion
  <2>. QED
    BY <1>6, <2>2, <2>3 DEF OneExpansionRuns, Running
<1>. QED
  BY <1>0, <1>1, <1>4, <1>5, <1>7, <1>8 DEF DefinitionComplete

\* The definition stays complete in all other steps, whatever runs.
LEMMA DefinitionStep ==
    ASSUME OneExpansionRuns, IInv, StallInv, KnownInv, [Next]_vars
    PROVE  DefinitionComplete'
<1>1. CASE \E d \in DOMAIN tasks : CreateTask(d)
  <2>1. DOMAIN tasks' = DOMAIN tasks /\ UNCHANGED <<wdef, stateChan, execs>>
    BY <1>1 DEF CreateTask
  <2>. QED
    BY <2>1 DEF KnownInv, DefinitionComplete, IsSuccessfulExpansion
<1>2. CASE \E d \in DOMAIN tasks : StartTask(d)
  <2>1. PICK d \in DOMAIN tasks : StartTask(d)
    BY <1>2
  <2>2. /\ DOMAIN tasks' = DOMAIN tasks /\ UNCHANGED <<wdef, stateChan>>
        /\ execs' = execs \cup {Execution(d)}
    BY <2>1 DEF StartTask
  <2>3. Execution(d).def = d /\ (IsExpansion(d) => Execution(d).base = wdef)
    BY DEF Execution
  <2>. QED
    BY <2>2, <2>3 DEF KnownInv, DefinitionComplete, IsSuccessfulExpansion
<1>3. CASE ReceiveState
  <2>1. /\ DOMAIN tasks' = DOMAIN tasks /\ UNCHANGED <<wdef, execs>>
        /\ stateChan # <<>> /\ stateChan' = Tail(stateChan)
    BY <1>3 DEF ReceiveState
  <2>2. \A i \in DOMAIN stateChan' : \E j \in DOMAIN stateChan : stateChan'[i] = stateChan[j]
    BY <2>1, FirstMessage
  <2>. QED
    BY <2>1, <2>2 DEF KnownInv, DefinitionComplete, IsSuccessfulExpansion
<1>4. CASE ReceiveExpansion
  BY <1>4, ExpandKnown
<1>5. CASE SendReset
  <2>1. PICK e : e = [def |-> RetryTarget(calls[answer.to].name), state |-> ResetState(0), expanded |-> {}]
    OBVIOUS
  <2>2. stateChan' = Append(stateChan, e) /\ UNCHANGED <<tasks, wdef, execs>>
    BY <1>5, <2>1 DEF SendReset
  <2>3. ~IsSuccessfulExpansion(e)
    BY <2>1 DEF IsSuccessfulExpansion, ResetState
  <2>. QED
    BY <2>2, <2>3, SendKnown
<1>6. CASE \E x \in execs : ExecutionStep(x)
  BY <1>6, FinishKnown
<1>7. CASE \/ Counted \/ Started \/ ReceiveDone \/ ReceiveRetry \/ SendReply \/ Cancel
           \/ \E c \in Caller : (\E name \in Name : RequestRetry(c, name)) \/ AbandonRetry(c)
           \/ UNCHANGED vars
  <2>1. UNCHANGED <<tasks, wdef, stateChan, execs>>
    BY <1>7 DEF Counted, Started, ReceiveDone, ReceiveRetry, SendReply, Cancel, RequestRetry, AbandonRetry, vars
  <2>. QED
    BY <2>1 DEF KnownInv, DefinitionComplete, IsSuccessfulExpansion
<1>. QED
  BY <1>1, <1>2, <1>3, <1>4, <1>5, <1>6, <1>7 DEF Next, RunStep

\* Run answers from a complete definition.
LEMMA AnswerStep ==
    ASSUME IInv, KnownInv, [Next]_vars
    PROVE  AnswerIsFresh'
<1>. USE DEF KnownInv
<1>1. CASE ReceiveRetry
  <2>1. PICK c : c = Head(retryCommands) /\ answer' = [to |-> c, res |-> RetryVerdict(calls[c].name)]
                 /\ pc' = (IF RetryVerdict(calls[c].name) = "ok" THEN "send" ELSE "reply")
                 /\ calls' = calls /\ tasks' = tasks
    BY <1>1 DEF ReceiveRetry
  <2>2. RetryVerdict(calls[c].name) = "unknown" => \A d \in wdef : d[1] # calls[c].name
    BY DEF RetryVerdict
  <2>3. wdef = DOMAIN tasks
    BY DEF DefinitionComplete
  <2>. QED
    BY <2>1, <2>2, <2>3 DEF AnswerIsFresh, NoUnknownTask
<1>2. CASE SendReply
  BY <1>2 DEF SendReply, NoReply, AnswerIsFresh, NoUnknownTask
<1>3. CASE \/ Counted \/ Started \/ ReceiveDone \/ ReceiveState \/ ReceiveExpansion \/ SendReset
           \/ \E d \in DOMAIN tasks : CreateTask(d) \/ StartTask(d)
  <2>1. answer' = answer /\ pc # "reply"
    BY <1>3 DEF Counted, Started, ReceiveDone, ReceiveState, ReceiveExpansion, SendReset, CreateTask, StartTask
  <2>. QED
    BY <2>1 DEF AnswerIsFresh, NoUnknownTask
<1>4. CASE Cancel \/ UNCHANGED vars \/ \E x \in execs : ExecutionStep(x)
  <2>1. UNCHANGED <<answer, pc, calls, tasks>>
    BY <1>4 DEF Cancel, vars, ExecutionStep, TaskFinishes, ExpansionFinishes
  <2>. QED
    BY <2>1 DEF AnswerIsFresh, NoUnknownTask
<1>5. CASE \E c \in Caller : (\E name \in Name : RequestRetry(c, name)) \/ AbandonRetry(c)
  <2>1. PICK c \in Caller : (\E name \in Name : RequestRetry(c, name)) \/ AbandonRetry(c)
    BY <1>5
  <2>2. answer' = answer /\ pc' = pc /\ tasks' = tasks
    BY <2>1 DEF RequestRetry, AbandonRetry
  <2>3. pc = "reply" => answer.to \in Caller /\ calls[answer.to].pc # "idle"
    BY DEF IInv, GrantedRetry
  <2>4. pc = "reply" => calls'[answer.to].name = calls[answer.to].name
    <3>1. calls \in [Caller -> CallType]
      BY DEF IInv, TypeOK
    <3>2. CASE AbandonRetry(c)
      BY <2>3, <3>1, <3>2 DEF AbandonRetry, CallType
    <3>3. CASE \E name \in Name : RequestRetry(c, name)
      <4>1. pc = "reply" => answer.to # c
        BY <2>3, <3>3 DEF RequestRetry
      <4>. QED
        BY <2>3, <3>1, <3>3, <4>1 DEF RequestRetry
    <3>. QED
      BY <2>1, <3>2, <3>3
  <2>. QED
    BY <2>2, <2>4 DEF AnswerIsFresh, NoUnknownTask
<1>. QED
  BY <1>1, <1>2, <1>3, <1>4, <1>5 DEF Next, RunStep

\* RetryTask calls no task of the workflow unknown, as long as no two expansions run
\* at once: what wf_expansions finds is due to nothing but that, and the comment in
\* Run, if it were true, would be enough.
THEOREM OneAtATimeIsKnown ==
    ASSUME ~OverlappingRetries
    PROVE  Spec /\ []OneExpansionRuns => []NoUnknownTask
<1>1. Init => KnownInv
  BY DEF Init, NoReply, KnownInv, DefinitionComplete, AnswerIsFresh, NoUnknownTask
<1>2. IInv /\ StallInv /\ [Next]_vars => StallInv'
  BY NextStall
<1>3. OneExpansionRuns /\ IInv /\ StallInv /\ KnownInv /\ [Next]_vars => KnownInv'
  BY DefinitionStep, AnswerStep DEF KnownInv
<1>4. KnownInv => NoUnknownTask
  BY DEF KnownInv, AnswerIsFresh
<1>. QED
  BY <1>1, <1>2, <1>3, <1>4, InitStall, InvariantHolds, PTL DEF Spec
=============================================================================
