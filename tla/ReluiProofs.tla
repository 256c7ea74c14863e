----------------------------- MODULE ReluiProofs ----------------------------
(***************************************************************************)
(* relui: the worker's database and its restarts, the signing server, and  *)
(* the schedules.                                                          *)
(***************************************************************************)
EXTENDS ReluiWorker, Signing, Schedules, WorkflowProofs, FiniteSetTheorems

-----------------------------------------------------------------------------
(***************************************************************************)
(* Proofs about ReluiWorker: what the database says of a workflow, and     *)
(* what a process that was restarted makes of it, for every set of tasks,  *)
(* expansions and callers and any number of crashes, provided that no task *)
(* is retried while an earlier retry of it is under way and that the       *)
(* expansions of a workflow add tasks of different names.                  *)
(***************************************************************************)

Distinct == \A e, f \in Expansion : e # f => Adds[e] \cap Adds[f] = {}

Active == {"loaded", "queued", "running"}
Phases == {"none", "resume", "marked", "ended"} \cup Active

\* The engine of a workflow that does not run.
Idle == /\ pc = "create" /\ execs = {} /\ stateChan = <<>> /\ retryCommands = <<>>
        /\ phase # "loaded" /\ phase # "queued" /\ wfRow # "absent" => tasks = EmptyFcn

Control ==
    /\ phase \in Phases /\ wfRow \in {"absent", "unfinished", "ok", "error"}
    /\ proc = "down" => phase = "none" /\ tasks = EmptyFcn /\ ~cancelled
    /\ phase \in Active \cup {"resume", "marked"} => wfRow = "unfinished"
    /\ wfRow = "absent" => rows = EmptyFcn /\ phase = "none"
    /\ phase \notin {"running", "ended"} => Idle
    /\ phase \in {"none", "resume", "marked"} => pending = EmptyFcn
    /\ phase \in Active => InitialDefs \subseteq DOMAIN tasks
    /\ pc = "stopped" => cancelled /\ Running = {}
    /\ pc = "done" => AllDone
    /\ cancelled => stopped \/ worker # "running"

\* The tasks of a workflow are the initial ones, and those that an expansion
\* added in the one execution of it that succeeded.
Added(d, e, run) == d[1] \in Adds[e] /\ d[2] = run
Origin ==
    /\ \A d \in DOMAIN tasks :
         \/ d \in InitialDefs
         \/ \E e \in Expansion : Succeeded(DefOf(e)) /\ Added(d, e, tasks[DefOf(e)].run)
    /\ \A e \in Expansion : Succeeded(DefOf(e)) =>
         \A n \in Adds[e] : <<n, tasks[DefOf(e)].run>> \in DOMAIN tasks

\* The messages to Run carry what an expansion added, and no task that runs.
MessageOK(m) ==
    /\ m.state.started => m.state.finished
    /\ IsSuccessfulExpansion(m) =>
         /\ \A d \in m.expanded : d \in DOMAIN tasks \/ Added(d, m.def[1], m.state.run)
         /\ \A n \in Adds[m.def[1]] : <<n, m.state.run>> \in m.expanded
Work == /\ \A x \in execs : x.base \subseteq DOMAIN tasks
        /\ \A i \in DOMAIN stateChan : MessageOK(stateChan[i])

\* The table says of a task what Run knows of it.
RowsMatch ==
    \A d \in DOMAIN tasks :
        /\ Succeeded(d) => RowOK(d[1])
        /\ ~IsExpansion(d) /\ RowOK(d[1]) => Succeeded(d)
        /\ d \in Running => d[1] \in DOMAIN rows /\ rows[d[1]].started /\ ~rows[d[1]].finished

\* Of other tasks it says what it said when the workflow was resumed.
Unwritten ==
    phase \in Active =>
        \A n \in Name : (\A d \in DOMAIN tasks : d[1] # n) =>
            /\ n \in DOMAIN rows <=> n \in DOMAIN pending
            /\ n \in DOMAIN rows => rows[n] = pending[n]

\* An interrupted task is on record as unfinished until it is marked as failed,
\* and failed from then on.
Review ==
    \A n \in interrupted :
        /\ n \in DOMAIN rows /\ n \in Name \ Expansion
        /\ rows[n].started /\ (rows[n].finished => rows[n].failed)
        /\ phase \in Active \cup {"marked"} => rows[n].finished
        /\ \A d \in DOMAIN tasks : d[1] = n =>
             /\ tasks[d].finished /\ tasks[d].failed
             /\ \A i \in DOMAIN stateChan : stateChan[i].def # d

ReluiInv == /\ IInv /\ Control /\ Origin /\ Work /\ RowsMatch 
            /\ Unwritten /\ Review /\ RecordedOutcome

-----------------------------------------------------------------------------
(* Names *)

\* An initial task has generation 0, and no task that is added has its name.
LEMMA InitialNames ==
  /\ \A d \in InitialDefs : d[1] \in Initial /\ d = DefOf(d[1])
  /\ \A e \in Expansion : DefOf(e) \in InitialDefs
  /\ \A e \in Expansion : \A n \in Adds[e] : n \in Name \ Initial
BY WorkflowAssumption DEF InitialDefs, DefOf

\* The name of an expansion is the name of one task.
LEMMA ExpansionDef ==
  ASSUME IInv, Origin, NEW d \in DOMAIN tasks, IsExpansion(d)
  PROVE  d = DefOf(d[1])
  <1>1. d[1] \in Initial
    BY WorkflowAssumption DEF IsExpansion
  <1>2. d \in InitialDefs
    BY <1>1, InitialNames DEF Origin, Added
  <1>. QED BY <1>2, InitialNames

\* Names identify tasks.
LEMMA NamesIdentify ==
  ASSUME Distinct, IInv, Origin, NEW d \in DOMAIN tasks, NEW t \in DOMAIN tasks, d[1] = t[1]
  PROVE  d = t
  <1>0. d \in Name \X Nat /\ t \in Name \X Nat
    BY DEF IInv, TypeOK, Def
  <1>1. CASE d[1] \in Initial
    <2>1. d \in InitialDefs /\ t \in InitialDefs
      BY <1>1, InitialNames DEF Origin, Added
    <2>. QED BY <2>1, InitialNames
  <1>2. CASE d[1] \notin Initial
    <2>1. d \notin InitialDefs /\ t \notin InitialDefs
      BY <1>2, InitialNames
    <2>2. PICK e \in Expansion : Added(d, e, tasks[DefOf(e)].run)
      BY <2>1 DEF Origin
    <2>3. PICK f \in Expansion : Added(t, f, tasks[DefOf(f)].run)
      BY <2>1 DEF Origin
    <2>4. e = f
      BY <2>2, <2>3 DEF Added, Distinct
    <2>. QED BY <1>0, <2>2, <2>3, <2>4 DEF Added
  <1>. QED BY <1>1, <1>2

-----------------------------------------------------------------------------
(* The origin of tasks *)

LEMMA OriginKept ==
  ASSUME Origin, DOMAIN tasks' = DOMAIN tasks,
         \A e \in Expansion : /\ Succeeded(DefOf(e))' = Succeeded(DefOf(e))
                              /\ Succeeded(DefOf(e)) => tasks'[DefOf(e)].run = tasks[DefOf(e)].run
  PROVE  Origin'
BY DEF Origin, Added

LEMMA WorkKept ==
  ASSUME Work, DOMAIN tasks \subseteq DOMAIN tasks',
         \A x \in execs' : x \in execs \/ x.base \subseteq DOMAIN tasks',
         \A i \in DOMAIN stateChan' : \/ \E j \in DOMAIN stateChan : stateChan'[i] = stateChan[j]
                                      \/ MessageOK(stateChan[i])'
  PROVE  Work'
  <1>1. \A x \in execs' : x.base \subseteq DOMAIN tasks'
    BY DEF Work
  <1>2. \A j \in DOMAIN stateChan : \A m : m = stateChan[j] => MessageOK(m)'
    BY DEF Work, MessageOK, IsSuccessfulExpansion
  <1>. QED BY <1>1, <1>2 DEF Work

\* A step that writes the state st of one task, and tells the listener.
Writes(d, st) ==
    /\ d \in DOMAIN tasks /\ st \in TaskState
    /\ DOMAIN tasks' = DOMAIN tasks /\ tasks'[d] = st
    /\ \A t \in DOMAIN tasks : t # d => tasks'[t] = tasks[t]
    /\ rows' = Put(rows, d[1], ToExported(st))

LEMMA WritesRows ==
  ASSUME Distinct, IInv, Origin, RowsMatch, Unwritten, NEW d, NEW st, Writes(d, st),
         UNCHANGED <<pending, phase>>
  PROVE  RowsMatch' /\ Unwritten'
  <1>1. /\ DOMAIN rows' = DOMAIN rows \cup {d[1]} /\ rows'[d[1]] = ToExported(st)
        /\ \A n \in DOMAIN rows : n # d[1] => rows'[n] = rows[n]
    BY DEF Writes, Put
  <1>2. ASSUME NEW t \in DOMAIN tasks, t # d
        PROVE  /\ tasks'[t] = tasks[t] /\ t[1] # d[1]
               /\ RowOK(t[1])' = RowOK(t[1])
               /\ t[1] \in DOMAIN rows => t[1] \in DOMAIN rows' /\ rows'[t[1]] = rows[t[1]]
    <2>1. tasks'[t] = tasks[t] /\ t[1] # d[1]
      BY <1>2, NamesIdentify DEF Writes
    <2>. QED BY <1>1, <2>1 DEF RowOK
  <1>3. /\ RowOK(d[1])' = Succeeded(d)'
        /\ (d \in Running)' => rows'[d[1]].started /\ ~rows'[d[1]].finished
    BY <1>1 DEF RowOK, Succeeded, Running, ToExported, Writes
  <1>4. RowsMatch'
    <2>. SUFFICES ASSUME NEW t \in DOMAIN tasks
                  PROVE  /\ Succeeded(t)' => RowOK(t[1])'
                         /\ ~IsExpansion(t) /\ RowOK(t[1])' => Succeeded(t)'
                         /\ (t \in Running)' => t[1] \in DOMAIN rows' /\ rows'[t[1]].started
                                                                      /\ ~rows'[t[1]].finished
      BY DEF RowsMatch, Writes, IsExpansion
    <2>1. CASE t = d
      BY <1>1, <1>3, <2>1
    <2>2. CASE t # d
      <3>1. Succeeded(t)' = Succeeded(t) /\ (t \in Running)' = (t \in Running)
        BY <1>2, <2>2 DEF Succeeded, Running, Writes
      <3>. QED BY <1>2, <2>2, <3>1 DEF RowsMatch
    <2>. QED BY <2>1, <2>2
  <1>5. Unwritten'
    BY <1>1 DEF Unwritten, Writes
  <1>. QED BY <1>4, <1>5

LEMMA ReviewKept ==
  ASSUME Review, phase = "running", phase' = phase, interrupted' \subseteq interrupted,
         \A n \in interrupted' : n \in DOMAIN rows => n \in DOMAIN rows' /\ rows'[n] = rows[n],
         \A d \in DOMAIN tasks' : d[1] \in interrupted' =>
            \/ d \in DOMAIN tasks /\ tasks'[d] = tasks[d]
            \/ /\ tasks'[d].finished /\ tasks'[d].failed
               /\ \A i \in DOMAIN stateChan' : stateChan'[i].def # d,
         \A i \in DOMAIN stateChan' : \/ \E j \in DOMAIN stateChan : stateChan'[i] = stateChan[j]
                                      \/ stateChan'[i].def[1] \notin interrupted'
  PROVE  Review'
  <1>. SUFFICES ASSUME NEW n \in interrupted'
                PROVE  /\ n \in DOMAIN rows' /\ n \in Name \ Expansion
                       /\ rows'[n].started /\ (rows'[n].finished => rows'[n].failed)
                       /\ rows'[n].finished
                       /\ \A d \in DOMAIN tasks' : d[1] = n =>
                            /\ tasks'[d].finished /\ tasks'[d].failed
                            /\ \A i \in DOMAIN stateChan' : stateChan'[i].def # d
    BY DEF Review
  <1>1. /\ n \in DOMAIN rows /\ n \in Name \ Expansion
        /\ rows[n].started /\ rows[n].finished /\ rows[n].failed
        /\ \A d \in DOMAIN tasks : d[1] = n =>
             /\ tasks[d].finished /\ tasks[d].failed
             /\ \A i \in DOMAIN stateChan : stateChan[i].def # d
    BY DEF Review, Active
  <1>2. ASSUME NEW d \in DOMAIN tasks', d[1] = n, d \in DOMAIN tasks
        PROVE  \A i \in DOMAIN stateChan' : stateChan'[i].def # d
    BY <1>1, <1>2
  <1>. QED BY <1>1, <1>2

\* What the parts that are about tasks and rows need of a step of the engine.
Parts == Origin /\ Work /\ RowsMatch /\ Unwritten /\ Review

\* Steps that touch neither, and do not set the workflow going.
LEMMA MoveParts ==
  ASSUME Parts, UNCHANGED <<tasks, rows, pending, execs, stateChan, interrupted>>,
         phase' \in Active \cup {"marked"} => phase' = phase \/ phase \in Active
  PROVE  Parts'
  <1>1. Origin' /\ Work'
    BY DEF Parts, Origin, Added, Work, MessageOK, IsSuccessfulExpansion, Succeeded
  <1>2. RowsMatch' /\ Unwritten' /\ Review'
    BY DEF Parts, RowsMatch, Unwritten, Review, Succeeded, RowOK, Running
  <1>. QED BY <1>1, <1>2 DEF Parts

\* CreateTask and StartTask: nothing but `created' or `started' changes.
LEMMA BeginParts ==
  ASSUME Distinct, IInv, Parts, phase = "running", NEW d \in DOMAIN tasks,
         CreateTask(d) \/ StartTask(d), UNCHANGED <<phase, interrupted>>
  PROVE  Parts'
  <1>. PICK st : st = tasks'[d]
    OBVIOUS
  <1>0. tasks[d] \in TaskState
    BY DEF IInv, TypeOK
  <1>1. /\ Writes(d, st) /\ UNCHANGED <<pending, stateChan>>
        /\ st.finished = tasks[d].finished /\ st.failed = tasks[d].failed /\ st.run = tasks[d].run
    <2>1. \/ tasks' = [tasks EXCEPT ![d].created = TRUE]
          \/ tasks' = [tasks EXCEPT ![d].started = TRUE]
      BY DEF CreateTask, StartTask
    <2>2. /\ DOMAIN tasks' = DOMAIN tasks /\ st \in TaskState
          /\ \A t \in DOMAIN tasks : t # d => tasks'[t] = tasks[t]
          /\ st.finished = tasks[d].finished /\ st.failed = tasks[d].failed /\ st.run = tasks[d].run
      BY <1>0, <2>1 DEF TaskState
    <2>3. rows' = Put(rows, d[1], ToExported(st)) /\ UNCHANGED <<pending, stateChan>>
      BY DEF CreateTask, StartTask
    <2>. QED BY <2>2, <2>3 DEF Writes
  <1>2. \A t \in DOMAIN tasks : Succeeded(t)' = Succeeded(t) /\ tasks'[t].run = tasks[t].run
    BY <1>1 DEF Writes, Succeeded
  <1>3. Origin'
    <2>1. \A e : DefOf(e) \notin DOMAIN tasks => ~Succeeded(DefOf(e)) /\ ~Succeeded(DefOf(e))'
      BY <1>1 DEF Succeeded, Writes
    <2>2. \A e \in Expansion : /\ Succeeded(DefOf(e))' = Succeeded(DefOf(e))
                               /\ Succeeded(DefOf(e)) => tasks'[DefOf(e)].run = tasks[DefOf(e)].run
      BY <1>2, <2>1 DEF Succeeded
    <2>. QED BY <1>1, <2>2, OriginKept DEF Parts, Writes
  <1>4. Work'
    <2>1. \A x \in execs' : x \in execs \/ x.base \subseteq DOMAIN tasks
      <3>1. wdef \subseteq DOMAIN tasks
        BY DEF IInv, TypeOK
      <3>2. Execution(d).base \subseteq wdef
        BY DEF Execution
      <3>3. execs' \subseteq execs \cup {Execution(d)}
        BY DEF CreateTask, StartTask
      <3>. QED BY <3>1, <3>2, <3>3
    <2>. QED BY <1>1, <2>1, WorkKept DEF Parts, Writes
  <1>5. RowsMatch' /\ Unwritten'
    BY <1>1, WritesRows DEF Parts
  <1>6. Review'
    <2>1. d[1] \notin interrupted
      BY DEF Parts, Review, CreateTask, StartTask, MayStart, IInv, FinishedWasStarted
    <2>2. \A t \in DOMAIN tasks : t[1] \in interrupted => tasks'[t] = tasks[t]
      BY <1>1, <2>1 DEF Writes
    <2>3. \A n \in interrupted : n \in DOMAIN rows => n \in DOMAIN rows' /\ rows'[n] = rows[n]
      BY <1>1, <2>1 DEF Writes, Put
    <2>. QED BY <1>1, <2>2, <2>3, ReviewKept DEF Parts, Writes
  <1>. QED BY <1>3, <1>4, <1>5, <1>6 DEF Parts

\* The message that Run receives is for a task that did not succeed, and that no
\* crash interrupted.
LEMMA Received ==
  ASSUME IInv, Work, Review, stateChan # <<>>, NEW m, m = Head(stateChan), stateChan' = Tail(stateChan)
  PROVE  /\ m.def \in DOMAIN tasks /\ m.state \in TaskState /\ m.expanded \in SUBSET Def
         /\ ~Succeeded(m.def) /\ m.def[1] \notin interrupted /\ MessageOK(m)
         /\ \A i \in DOMAIN stateChan' : \E j \in DOMAIN stateChan : stateChan'[i] = stateChan[j]
  <1>1. stateChan \in Seq(MessageType)
    BY DEF IInv, TypeOK
  <1>2. /\ 1 \in DOMAIN stateChan /\ m = stateChan[1] /\ m \in MessageType
        /\ \A i \in DOMAIN stateChan' : i + 1 \in DOMAIN stateChan /\ stateChan'[i] = stateChan[i + 1]
    BY <1>1, TailEntries
  <1>3. m.def \in DOMAIN tasks /\ m.state \in TaskState /\ m.expanded \in SUBSET Def
    BY <1>2 DEF IInv, TypeOK, MessageType
  <1>4. ~Succeeded(m.def) /\ m.def[1] \notin interrupted
    BY <1>2, <1>3 DEF IInv, SingleMessage, Succeeded, Review
  <1>5. MessageOK(m)
    BY <1>2 DEF Work
  <1>. QED BY <1>2, <1>3, <1>4, <1>5

LEMMA ReceiveStateParts ==
  ASSUME Distinct, IInv, Parts, phase = "running", ReceiveState, UNCHANGED <<phase, interrupted>>
  PROVE  Parts'
  <1>. PICK m : m = Head(stateChan)
    OBVIOUS
  <1>0. /\ m.def \in DOMAIN tasks /\ m.state \in TaskState
        /\ ~Succeeded(m.def) /\ m.def[1] \notin interrupted
        /\ \A i \in DOMAIN stateChan' : \E j \in DOMAIN stateChan : stateChan'[i] = stateChan[j]
    BY Received DEF Parts, ReceiveState
  <1>1. /\ tasks' = [tasks EXCEPT ![m.def] = m.state]
        /\ rows' = Put(rows, m.def[1], ToExported(m.state))
        /\ UNCHANGED <<pending, execs>> /\ ~IsSuccessfulExpansion(m)
    BY DEF ReceiveState
  <1>2. Writes(m.def, m.state)
    BY <1>0, <1>1 DEF Writes, IInv, TypeOK
  <1>3. Origin'
    <2>1. ASSUME NEW e \in Expansion
          PROVE  /\ Succeeded(DefOf(e))' = Succeeded(DefOf(e))
                 /\ Succeeded(DefOf(e)) => tasks'[DefOf(e)].run = tasks[DefOf(e)].run
      <3>1. CASE DefOf(e) = m.def
        <4>1. IsExpansion(m.def)
          BY <3>1 DEF DefOf, IsExpansion
        <4>. QED BY <1>0, <1>1, <1>2, <3>1, <4>1 DEF Succeeded, Writes, IsSuccessfulExpansion
      <3>2. CASE DefOf(e) # m.def
        BY <1>2, <3>2 DEF Succeeded, Writes
      <3>. QED BY <3>1, <3>2
    <2>. QED BY <1>2, <2>1, OriginKept DEF Parts, Writes
  <1>4. Work'
    BY <1>0, <1>1, <1>2, WorkKept DEF Parts, Writes
  <1>5. RowsMatch' /\ Unwritten'
    BY <1>1, <1>2, WritesRows DEF Parts
  <1>6. Review'
    <2>1. \A t \in DOMAIN tasks : t[1] \in interrupted => tasks'[t] = tasks[t]
      BY <1>0, <1>2 DEF Writes
    <2>2. \A n \in interrupted : n \in DOMAIN rows => n \in DOMAIN rows' /\ rows'[n] = rows[n]
      BY <1>0, <1>1 DEF Put
    <2>. QED BY <1>0, <1>2, <2>1, <2>2, ReviewKept DEF Parts, Writes
  <1>. QED BY <1>3, <1>4, <1>5, <1>6 DEF Parts

\* Messages that a task, an expansion or a retry puts into the channel.
LEMMA SendParts ==
  ASSUME IInv, Parts, phase = "running", NEW e \in MessageType, stateChan' = Append(stateChan, e),
         UNCHANGED <<tasks, rows, pending, phase>>, execs' \subseteq execs,
         MessageOK(e), interrupted' \subseteq interrupted, e.def[1] \notin interrupted'
  PROVE  Parts'
  <1>1. /\ DOMAIN stateChan' = DOMAIN stateChan \cup {Len(stateChan) + 1}
        /\ \A i \in DOMAIN stateChan : stateChan'[i] = stateChan[i]
        /\ stateChan'[Len(stateChan) + 1] = e
    <2>1. stateChan \in Seq(MessageType)
      BY DEF IInv, TypeOK
    <2>. QED BY <2>1, AppendEntries
  <1>2. Origin' /\ RowsMatch' /\ Unwritten'
    BY DEF Parts, Origin, Added, Succeeded, RowsMatch, Unwritten, RowOK, Running
  <1>3. Work'
    <2>1. \A i \in DOMAIN stateChan' : MessageOK(stateChan[i])'
      BY <1>1 DEF Parts, Work, MessageOK, IsSuccessfulExpansion
    <2>. QED BY <2>1 DEF Parts, Work
  <1>4. Review'
    BY <1>1, ReviewKept DEF Parts
  <1>. QED BY <1>2, <1>3, <1>4 DEF Parts

LEMMA SendResetParts ==
  ASSUME IInv, Parts, phase = "running", SendReset, phase' = phase,
         interrupted' = interrupted \ {calls[answer.to].name}
  PROVE  Parts'
  <1>. DEFINE d == RetryTarget(calls[answer.to].name)
              e == [def |-> d, state |-> ResetState(0), expanded |-> {}]
  <1>1. d \in wdef /\ d[1] = calls[answer.to].name
    BY DEF IInv, GrantedRetry, SendReset
  <1>2. e \in MessageType
    BY <1>1, StatesTyped DEF MessageType, IInv, TypeOK
  <1>3. MessageOK(e)
    BY DEF MessageOK, IsSuccessfulExpansion, ResetState
  <1>4. stateChan' = Append(stateChan, e) /\ UNCHANGED <<tasks, rows, pending, execs>>
    BY DEF SendReset
  <1>. HIDE DEF d
  <1>5. e.def[1] \notin interrupted'
    BY <1>1
  <1>. HIDE DEF e
  <1>. QED BY <1>2, <1>3, <1>4, <1>5, SendParts

LEMMA FinishParts ==
  ASSUME IInv, Parts, phase = "running", NEW x \in execs, ExecutionStep(x),
         UNCHANGED <<phase, interrupted>>
  PROVE  Parts'
  <1>0. /\ x \in ExecType /\ x.def \in DOMAIN tasks /\ x.def \in Running
        /\ x.base \subseteq DOMAIN tasks
    BY DEF IInv, TypeOK, OneExecutionPerTask, Parts, Work
  <1>1. x.def[1] \notin interrupted
    BY <1>0 DEF Parts, Review, Running
  <1>2. x.def \in Def /\ x.run \in Nat /\ x.retryCount \in Nat /\ x.failed \in BOOLEAN
        /\ x.base \in SUBSET Def
    BY <1>0 DEF ExecType
  <1>3. ASSUME NEW err \in BOOLEAN, NEW dis \in BOOLEAN, TaskFinishes(x, err, dis) PROVE Parts'
    <2>. DEFINE e == [def |-> x.def, state |-> TaskOutcome(x, err, dis), expanded |-> {}]
    <2>1. TaskOutcome(x, err, dis) \in TaskState
      BY <1>2, StatesTyped DEF TaskOutcome, TaskState
    <2>2. TaskOutcome(x, err, dis).started => TaskOutcome(x, err, dis).finished
      BY DEF TaskOutcome, ResetState
    <2>3. e \in MessageType /\ e.def = x.def
      BY <1>2, <2>1 DEF MessageType
    <2>4. MessageOK(e)
      BY <1>3, <2>2 DEF MessageOK, IsSuccessfulExpansion, TaskFinishes
    <2>5. stateChan' = Append(stateChan, e) /\ UNCHANGED <<tasks, rows, pending>> /\ execs' \subseteq execs
      BY <1>3 DEF TaskFinishes
    <2>. HIDE DEF e
    <2>. QED BY <1>1, <2>3, <2>4, <2>5, SendParts
  <1>4. ASSUME NEW err \in BOOLEAN, ExpansionFinishes(x, err) PROVE Parts'
    <2>. DEFINE added == IF err THEN {} ELSE x.base \cup {<<n, x.run>> : n \in Adds[x.def[1]]}
                e == [def |-> x.def, state |-> ExpansionOutcome(x, err), expanded |-> added]
    <2>1. ExpansionOutcome(x, err) \in TaskState
      BY <1>2 DEF ExpansionOutcome, TaskState
    <2>2. x.def[1] \in Expansion /\ Adds[x.def[1]] \subseteq Name
      BY <1>4, WorkflowAssumption DEF ExpansionFinishes, IsExpansion
    <2>3. added \in SUBSET Def
      BY <1>2, <2>2 DEF Def
    <2>4. e \in MessageType /\ e.def = x.def
      BY <1>2, <2>1, <2>3 DEF MessageType
    <2>5. MessageOK(e)
      <3>1. /\ e.state.started /\ e.state.finished /\ e.state.run = x.run
            /\ e.state.failed = (x.failed \/ err)
        BY DEF ExpansionOutcome
      <3>2. ~err => /\ \A d \in added : d \in DOMAIN tasks \/ Added(d, x.def[1], x.run)
                    /\ \A n \in Adds[x.def[1]] : <<n, x.run>> \in added
        BY <1>0 DEF Added
      <3>. HIDE DEF added
      <3>3. e.expanded = added /\ e.def = x.def
        OBVIOUS
      <3>. HIDE DEF e
      <3>. QED BY <3>1, <3>2, <3>3 DEF MessageOK, IsSuccessfulExpansion
    <2>6. stateChan' = Append(stateChan, e) /\ UNCHANGED <<tasks, rows, pending>> /\ execs' \subseteq execs
      BY <1>4 DEF ExpansionFinishes
    <2>. HIDE DEF e
    <2>. QED BY <1>1, <2>4, <2>5, <2>6, SendParts
  <1>. QED BY <1>3, <1>4 DEF ExecutionStep

\* Rows and the states that are loaded from them.
LEMMA LoadedFacts ==
  ASSUME NEW stored, stored \in [DOMAIN stored -> Row], NEW d \in Def, NEW st, st = LoadTaskState(stored, d)
  PROVE  /\ st \in TaskState /\ (st.started <=> st.finished)
         /\ st.finished => d[1] \in DOMAIN stored /\ stored[d[1]].finished
         /\ st.finished => st.failed = stored[d[1]].failed
         /\ ~IsExpansion(d) /\ d[1] \in DOMAIN stored /\ stored[d[1]].finished => st.finished
         /\ IsExpansion(d) => ~st.finished
         /\ st.retryCount = (IF d[1] \in DOMAIN stored THEN stored[d[1]].retryCount ELSE 0)
  <1>1. st \in TaskState
    BY LoadTyped
  <1>2. CASE d[1] \in DOMAIN stored
    <2>1. stored[d[1]] \in Row
      BY <1>2
    <2>. QED BY <1>1, <1>2, <2>1 DEF LoadTaskState, Row
  <1>3. CASE d[1] \notin DOMAIN stored
    BY <1>1, <1>3 DEF LoadTaskState, Fresh
  <1>. QED BY <1>2, <1>3

\* The tasks that a successful expansion brings are new, by their names too.
Brings(m, e) ==
    /\ m.def \in DOMAIN tasks /\ m.state \in TaskState /\ m.expanded \in SUBSET Def
    /\ ~Succeeded(m.def) /\ e \notin interrupted
    /\ \A i \in DOMAIN stateChan' : \E j \in DOMAIN stateChan : stateChan'[i] = stateChan[j]
    /\ rows' = Put(rows, e, ToExported(m.state)) /\ UNCHANGED <<pending, execs>>
    /\ e \in Expansion /\ e \in Initial /\ m.def = DefOf(e)
    /\ m.state.finished /\ ~m.state.failed
    /\ \A d \in m.expanded : d \in DOMAIN tasks \/ Added(d, e, m.state.run)
    /\ \A n \in Adds[e] : <<n, m.state.run>> \in m.expanded
    /\ DOMAIN tasks' = DOMAIN tasks \cup m.expanded
    /\ tasks'[m.def] = m.state
    /\ \A t \in DOMAIN tasks : t # m.def => tasks'[t] = tasks[t]
    /\ \A t \in m.expanded \ DOMAIN tasks : tasks'[t] = LoadTaskState(pending, t)
    /\ \A t \in m.expanded \ DOMAIN tasks :
         /\ Added(t, e, m.state.run) /\ t \in Def /\ ~IsExpansion(t)
         /\ t[1] # e /\ \A d \in DOMAIN tasks : d[1] # t[1]

LEMMA ExpansionBrings ==
  ASSUME Distinct, IInv, Parts, ReceiveExpansion, NEW m, m = Head(stateChan), NEW e, e = m.def[1]
  PROVE  Brings(m, e)
  <1>0. /\ m.def \in DOMAIN tasks /\ m.state \in TaskState /\ m.expanded \in SUBSET Def
        /\ ~Succeeded(m.def) /\ e \notin interrupted /\ MessageOK(m)
        /\ \A i \in DOMAIN stateChan' : \E j \in DOMAIN stateChan : stateChan'[i] = stateChan[j]
    BY Received DEF Parts, ReceiveExpansion
  <1>1. /\ tasks' = [Expand(m.expanded) EXCEPT ![m.def] = m.state]
        /\ rows' = Put(rows, e, ToExported(m.state))
        /\ UNCHANGED <<pending, execs>> /\ IsSuccessfulExpansion(m)
    BY DEF ReceiveExpansion
  <1>2. /\ e \in Expansion /\ e \in Initial /\ m.def = DefOf(e)
        /\ m.state.finished /\ ~m.state.failed
        /\ \A d \in m.expanded : d \in DOMAIN tasks \/ Added(d, e, m.state.run)
        /\ \A n \in Adds[e] : <<n, m.state.run>> \in m.expanded
    <2>1. IsExpansion(m.def) /\ e \in Expansion
      BY <1>1 DEF IsSuccessfulExpansion, IsExpansion
    <2>2. m.def = DefOf(e)
      BY <1>0, <2>1, ExpansionDef DEF Parts
    <2>. QED BY <1>0, <1>1, <2>1, <2>2, WorkflowAssumption DEF MessageOK, IsSuccessfulExpansion
  <1>3. /\ DOMAIN tasks' = DOMAIN tasks \cup m.expanded
        /\ tasks'[m.def] = m.state
        /\ \A t \in DOMAIN tasks : t # m.def => tasks'[t] = tasks[t]
        /\ \A t \in m.expanded \ DOMAIN tasks : tasks'[t] = LoadTaskState(pending, t)
    <2>. DEFINE E == Expand(m.expanded)
    <2>1. /\ E = [t \in DOMAIN E |-> E[t]]
          /\ DOMAIN E = DOMAIN tasks \cup m.expanded
          /\ \A t \in DOMAIN tasks : E[t] = tasks[t]
          /\ \A t \in m.expanded \ DOMAIN tasks : E[t] = LoadTaskState(pending, t)
      BY DEF Expand
    <2>2. tasks' = [E EXCEPT ![m.def] = m.state]
      BY <1>1
    <2>. HIDE DEF E
    <2>. QED BY <1>0, <2>1, <2>2
  <1>4. ASSUME NEW t \in m.expanded, t \notin DOMAIN tasks
        PROVE  /\ Added(t, e, m.state.run) /\ t \in Def /\ ~IsExpansion(t)
               /\ t[1] # e /\ \A d \in DOMAIN tasks : d[1] # t[1]
    <2>1. Added(t, e, m.state.run) /\ t \in Def
      BY <1>0, <1>2, <1>4
    <2>2. t[1] \in Adds[e] /\ t[1] \notin Initial
      BY <1>2, <2>1, InitialNames DEF Added
    <2>3. ~IsExpansion(t) /\ t[1] # e
      BY <1>2, <2>2, WorkflowAssumption DEF IsExpansion
    <2>4. ASSUME NEW d \in DOMAIN tasks, d[1] = t[1] PROVE FALSE
      <3>1. d \notin InitialDefs
        BY <2>2, <2>4, InitialNames
      <3>2. PICK f \in Expansion : Succeeded(DefOf(f)) /\ Added(d, f, tasks[DefOf(f)].run)
        BY <3>1 DEF Parts, Origin
      <3>3. f = e
        BY <1>2, <2>2, <2>4, <3>2 DEF Added, Distinct
      <3>. QED BY <1>0, <1>2, <3>2, <3>3
    <2>. QED BY <2>1, <2>3, <2>4
  <1>. QED BY <1>0, <1>1, <1>2, <1>3, <1>4 DEF Brings

LEMMA ReceiveExpansionParts ==
  ASSUME Distinct, IInv, Parts, phase = "running", ReceiveExpansion, UNCHANGED <<phase, interrupted>>
  PROVE  Parts'
  <1>. PICK m : m = Head(stateChan)
    OBVIOUS
  <1>. PICK e : e = m.def[1]
    OBVIOUS
  <1>b. Brings(m, e)
    BY ExpansionBrings
  <1>0. /\ m.def \in DOMAIN tasks /\ m.state \in TaskState /\ m.expanded \in SUBSET Def
        /\ ~Succeeded(m.def) /\ e \notin interrupted
        /\ \A i \in DOMAIN stateChan' : \E j \in DOMAIN stateChan : stateChan'[i] = stateChan[j]
    BY <1>b DEF Brings
  <1>1. rows' = Put(rows, e, ToExported(m.state)) /\ UNCHANGED <<pending, execs>>
    BY <1>b DEF Brings
  <1>2. /\ e \in Expansion /\ e \in Initial /\ m.def = DefOf(e)
        /\ m.state.finished /\ ~m.state.failed
        /\ \A d \in m.expanded : d \in DOMAIN tasks \/ Added(d, e, m.state.run)
        /\ \A n \in Adds[e] : <<n, m.state.run>> \in m.expanded
    BY <1>b DEF Brings
  <1>3. /\ DOMAIN tasks' = DOMAIN tasks \cup m.expanded
        /\ tasks'[m.def] = m.state
        /\ \A t \in DOMAIN tasks : t # m.def => tasks'[t] = tasks[t]
        /\ \A t \in m.expanded \ DOMAIN tasks : tasks'[t] = LoadTaskState(pending, t)
    BY <1>b DEF Brings
  <1>4. ASSUME NEW t \in m.expanded, t \notin DOMAIN tasks
        PROVE  /\ Added(t, e, m.state.run) /\ t \in Def /\ ~IsExpansion(t)
               /\ t[1] # e /\ \A d \in DOMAIN tasks : d[1] # t[1]
    BY <1>b, <1>4 DEF Brings
  <1>5. ASSUME NEW f \in Expansion, f # e
        PROVE  /\ Succeeded(DefOf(f))' = Succeeded(DefOf(f))
               /\ Succeeded(DefOf(f)) => tasks'[DefOf(f)] = tasks[DefOf(f)]
    <2>1. DefOf(f) # m.def
      BY <1>2, <1>5 DEF DefOf
    <2>2. DefOf(f) \in DOMAIN tasks' => DefOf(f) \in DOMAIN tasks
      BY <1>3, <1>4 DEF DefOf, IsExpansion
    <2>. QED BY <1>3, <2>1, <2>2 DEF Succeeded
  <1>6. Succeeded(DefOf(e))' /\ tasks'[DefOf(e)].run = m.state.run
    BY <1>0, <1>2, <1>3 DEF Succeeded
  <1>7. Origin'
    <2>1. ASSUME NEW d \in DOMAIN tasks'
          PROVE  \/ d \in InitialDefs
                 \/ \E f \in Expansion : Succeeded(DefOf(f))' /\ Added(d, f, tasks'[DefOf(f)].run)
      <3>1. CASE d \in DOMAIN tasks /\ d \notin InitialDefs
        <4>1. PICK f \in Expansion : Succeeded(DefOf(f)) /\ Added(d, f, tasks[DefOf(f)].run)
          BY <3>1 DEF Parts, Origin
        <4>2. f # e
          BY <1>0, <1>2, <4>1
        <4>. QED BY <1>5, <4>1, <4>2
      <3>2. CASE d \notin DOMAIN tasks
        BY <1>2, <1>3, <1>4, <1>6, <3>2
      <3>. QED BY <3>1, <3>2
    <2>2. ASSUME NEW f \in Expansion, Succeeded(DefOf(f))', NEW n \in Adds[f]
          PROVE  <<n, tasks'[DefOf(f)].run>> \in DOMAIN tasks'
      <3>1. CASE f = e
        BY <1>2, <1>3, <1>6, <3>1
      <3>2. CASE f # e
        BY <1>3, <1>5, <2>2, <3>2 DEF Parts, Origin
      <3>. QED BY <3>1, <3>2
    <2>. QED BY <2>1, <2>2 DEF Origin, Added
  <1>8. Work'
    BY <1>0, <1>1, <1>3, WorkKept DEF Parts
  <1>9. /\ DOMAIN rows' = DOMAIN rows \cup {e} /\ rows'[e] = ToExported(m.state)
        /\ \A n \in DOMAIN rows : n # e => rows'[n] = rows[n]
    BY <1>1 DEF Put
  <1>10. ASSUME NEW t \in m.expanded, t \notin DOMAIN tasks
         PROVE  /\ Succeeded(t)' = RowOK(t[1])' /\ (t \notin Running)'
                /\ t[1] \in interrupted => tasks'[t].finished /\ tasks'[t].failed
    <2>1. tasks'[t] = LoadTaskState(pending, t) /\ t \in DOMAIN tasks'
      BY <1>3, <1>10
    <2>2. /\ t \in Def /\ t[1] \in Name /\ ~IsExpansion(t) /\ t[1] # e
          /\ \A d \in DOMAIN tasks : d[1] # t[1]
      BY <1>4, <1>10 DEF Def
    <2>3. /\ t[1] \in DOMAIN rows <=> t[1] \in DOMAIN pending
          /\ t[1] \in DOMAIN rows => rows[t[1]] = pending[t[1]]
      BY <2>2 DEF Parts, Unwritten, Active
    <2>4. pending \in [DOMAIN pending -> Row]
      BY DEF IInv, TypeOK
    <2>5. PICK st : st = LoadTaskState(pending, t)
      OBVIOUS
    <2>6. /\ st \in TaskState /\ (st.started <=> st.finished)
          /\ st.finished => t[1] \in DOMAIN pending /\ pending[t[1]].finished
          /\ st.finished => st.failed = pending[t[1]].failed
          /\ t[1] \in DOMAIN pending /\ pending[t[1]].finished => st.finished
      BY <2>2, <2>4, <2>5, LoadedFacts
    <2>7. RowOK(t[1])' = RowOK(t[1])
      BY <1>9, <2>2 DEF RowOK
    <2>8. Succeeded(t)' = RowOK(t[1]) /\ (t \notin Running)'
      BY <2>1, <2>3, <2>5, <2>6 DEF RowOK, Succeeded, Running
    <2>9. t[1] \in interrupted => st.finished /\ st.failed
      BY <2>3, <2>6 DEF Parts, Review, Active
    <2>. QED BY <2>1, <2>5, <2>7, <2>8, <2>9
  <1>11. ASSUME NEW t \in DOMAIN tasks, t # m.def
         PROVE  /\ tasks'[t] = tasks[t] /\ Succeeded(t)' = Succeeded(t)
                /\ (t \in Running)' = (t \in Running) /\ t[1] # e
                /\ RowOK(t[1])' = RowOK(t[1])
                /\ t[1] \in DOMAIN rows => t[1] \in DOMAIN rows' /\ rows'[t[1]] = rows[t[1]]
    <2>1. tasks'[t] = tasks[t] /\ t \in DOMAIN tasks'
      BY <1>3, <1>11
    <2>2. t[1] # e
      BY <1>0, <1>11, NamesIdentify DEF Parts
    <2>. QED BY <1>9, <2>1, <2>2 DEF Succeeded, Running, RowOK
  <1>12. RowsMatch'
    <2>. SUFFICES ASSUME NEW t \in DOMAIN tasks'
                  PROVE  /\ Succeeded(t)' => RowOK(t[1])'
                         /\ ~IsExpansion(t) /\ RowOK(t[1])' => Succeeded(t)'
                         /\ (t \in Running)' => t[1] \in DOMAIN rows' /\ rows'[t[1]].started
                                                                      /\ ~rows'[t[1]].finished
      BY DEF RowsMatch, IsExpansion
    <2>1. CASE t = m.def
      <3>1. RowOK(e)' /\ (t \notin Running)'
        BY <1>2, <1>3, <1>9, <2>1 DEF RowOK, Running, ToExported
      <3>. QED BY <1>2, <2>1, <3>1 DEF IsExpansion
    <2>2. CASE t \in DOMAIN tasks /\ t # m.def
      BY <1>11, <2>2 DEF Parts, RowsMatch
    <2>3. CASE t \notin DOMAIN tasks
      BY <1>3, <1>10, <2>3
    <2>. QED BY <2>1, <2>2, <2>3
  <1>13. Unwritten'
    <2>. SUFFICES ASSUME NEW n \in Name, \A d \in DOMAIN tasks' : d[1] # n
                  PROVE  /\ n \in DOMAIN rows' <=> n \in DOMAIN pending
                         /\ n \in DOMAIN rows' => rows'[n] = pending[n]
      BY <1>1 DEF Unwritten
    <2>1. n # e /\ \A d \in DOMAIN tasks : d[1] # n
      BY <1>0, <1>3
    <2>. QED BY <1>9, <2>1 DEF Parts, Unwritten, Active
  <1>14. Review'
    <2>1. ASSUME NEW d \in DOMAIN tasks', d[1] \in interrupted
          PROVE  \/ d \in DOMAIN tasks /\ tasks'[d] = tasks[d]
                 \/ /\ tasks'[d].finished /\ tasks'[d].failed
                    /\ \A i \in DOMAIN stateChan' : stateChan'[i].def # d
      <3>1. CASE d \in DOMAIN tasks
        BY <1>0, <1>3, <2>1, <3>1
      <3>2. CASE d \notin DOMAIN tasks
        <4>1. \A j \in DOMAIN stateChan : stateChan[j].def # d
          BY <3>2 DEF IInv, TypeOK
        <4>. QED BY <1>0, <1>3, <1>10, <2>1, <3>2, <4>1
      <3>. QED BY <3>1, <3>2
    <2>2. \A n \in interrupted : n \in DOMAIN rows => n \in DOMAIN rows' /\ rows'[n] = rows[n]
      BY <1>0, <1>9
    <2>. QED BY <1>0, <2>1, <2>2, ReviewKept DEF Parts
  <1>. QED BY <1>7, <1>8, <1>12, <1>13, <1>14 DEF Parts

-----------------------------------------------------------------------------
(* Steps of the engine *)

LEMMA EngineParts ==
  ASSUME Distinct, IInv, Parts, EngineStep
  PROVE  Parts'
  <1>0. phase = "running" /\ phase' = phase
    BY DEF EngineStep
  <1>1. CASE SendReset
    <2>1. interrupted' = interrupted \ {calls[answer.to].name}
      BY <1>1 DEF EngineStep, SendReset
    <2>. QED BY <1>0, <1>1, <2>1, SendResetParts
  <1>. SUFFICES ASSUME ~SendReset PROVE Parts'
    BY <1>1
  <1>2. CASE \E d \in DOMAIN tasks : CreateTask(d) \/ StartTask(d)
    <2>1. interrupted' = interrupted
      BY <1>2 DEF EngineStep, CreateTask, StartTask
    <2>. QED BY <1>0, <1>2, <2>1, BeginParts
  <1>3. CASE ReceiveState
    BY <1>0, <1>3, ReceiveStateParts DEF EngineStep, ReceiveState
  <1>4. CASE ReceiveExpansion
    BY <1>0, <1>4, ReceiveExpansionParts DEF EngineStep, ReceiveExpansion
  <1>5. CASE \E x \in execs : ExecutionStep(x)
    <2>1. pc' = pc
      BY <1>5 DEF ExecutionStep, TaskFinishes, ExpansionFinishes
    <2>2. interrupted' = interrupted
      BY <2>1 DEF EngineStep
    <2>. QED BY <1>0, <1>5, <2>2, FinishParts
  <1>6. CASE Counted \/ Started \/ ReceiveRetry \/ SendReply \/ ReceiveDone
    <2>1. UNCHANGED <<tasks, rows, pending, execs, stateChan>> /\ pc # "send"
      BY <1>6 DEF Counted, Started, ReceiveRetry, SendReply, ReceiveDone
    <2>2. interrupted' = interrupted
      BY <2>1 DEF EngineStep
    <2>. QED BY <1>0, <2>1, <2>2, MoveParts
  <1>7. CASE \E c \in Caller : (\E name \in Name : RequestRetry(c, name)) \/ AbandonRetry(c)
    <2>1. UNCHANGED <<tasks, rows, pending, execs, stateChan>> /\ pc' = pc
      BY <1>7 DEF RequestRetry, AbandonRetry
    <2>2. interrupted' = interrupted
      BY <2>1 DEF EngineStep
    <2>. QED BY <1>0, <2>1, <2>2, MoveParts
  <1>. QED BY <1>2, <1>3, <1>4, <1>5, <1>6, <1>7 DEF EngineStep, RunStep

\* Run returns when all is done, or when its context is and nothing runs.
LEMMA EngineControl ==
  ASSUME IInv, Control, EngineStep
  PROVE  Control'
  <1>0. /\ proc' = "up" /\ phase = "running" /\ wfRow = "unfinished"
        /\ UNCHANGED <<worker, phase, wfRow, stopped>>
        /\ cancelled' = cancelled
    <2>1. cancelled' = cancelled
      BY DEF EngineStep, RunStep, ExecutionStep, CreateTask, StartTask, Counted, Started,
             ReceiveState, ReceiveExpansion, ReceiveRetry, SendReset, SendReply, ReceiveDone,
             TaskFinishes, ExpansionFinishes, RequestRetry, AbandonRetry
    <2>. QED BY <2>1 DEF EngineStep, Control, Active
  <1>1. DOMAIN tasks \subseteq DOMAIN tasks'
    <2>1. CASE ReceiveExpansion
      <3>. DEFINE E == Expand(Head(stateChan).expanded)
      <3>1. DOMAIN E = DOMAIN tasks \cup Head(stateChan).expanded
        BY DEF Expand
      <3>2. DOMAIN tasks' = DOMAIN E
        BY <2>1 DEF ReceiveExpansion
      <3>. QED BY <3>1, <3>2
    <2>2. CASE ReceiveState
      BY <2>2 DEF ReceiveState
    <2>3. CASE \E d \in DOMAIN tasks : CreateTask(d) \/ StartTask(d)
      BY <2>3 DEF CreateTask, StartTask
    <2>4. CASE ~ReceiveExpansion /\ ~ReceiveState
               /\ ~\E d \in DOMAIN tasks : CreateTask(d) \/ StartTask(d)
      BY <2>4 DEF EngineStep, RunStep, ExecutionStep, Counted, Started,
             ReceiveRetry, SendReset, SendReply, ReceiveDone,
             TaskFinishes, ExpansionFinishes, RequestRetry, AbandonRetry
    <2>. QED BY <2>1, <2>2, <2>3, <2>4
  <1>2. \/ pc' \notin {"done", "stopped"}
        \/ UNCHANGED <<pc, tasks>>
        \/ UNCHANGED tasks /\ pc' = "stopped" /\ cancelled /\ Running = {}
        \/ UNCHANGED tasks /\ pc' = "done" /\ AllDone
    <2>1. CASE Counted \/ Started
      BY <2>1 DEF Counted, Started, AfterStarts
    <2>2. CASE \E d \in DOMAIN tasks : CreateTask(d) \/ StartTask(d)
      BY <2>2 DEF CreateTask, StartTask
    <2>3. CASE ReceiveState \/ ReceiveExpansion \/ ReceiveRetry \/ SendReset \/ SendReply \/ ReceiveDone
      BY <2>3 DEF ReceiveState, ReceiveExpansion, ReceiveRetry, SendReset, SendReply, ReceiveDone
    <2>4. CASE ~RunStep
      BY <2>4 DEF EngineStep, ExecutionStep, TaskFinishes, ExpansionFinishes, RequestRetry, AbandonRetry
    <2>. QED BY <2>1, <2>2, <2>3, <2>4 DEF RunStep
  <1>3. /\ pc' = "stopped" => cancelled' /\ Running' = {}
        /\ pc' = "done" => AllDone'
    BY <1>0, <1>2 DEF Control, Running, AllDone
  <1>4. InitialDefs \subseteq DOMAIN tasks' /\ (cancelled' => stopped' \/ worker' # "running")
    BY <1>0, <1>1 DEF Control, Active
  <1>. QED BY <1>0, <1>3, <1>4 DEF Control, Phases, Active

LEMMA EngineStepInv ==
  ASSUME ~OverlappingRetries, Distinct, ReluiInv, EngineStep
  PROVE  ReluiInv'
  <1>1. IInv'
    BY NextIInv DEF EngineStep, Next, ReluiInv
  <1>2. Parts'
    BY EngineParts DEF ReluiInv, Parts
  <1>3. Control'
    BY EngineControl DEF ReluiInv
  <1>4. RecordedOutcome'
    BY DEF ReluiInv, Control, Active, EngineStep, RecordedOutcome
  <1>. QED BY <1>1, <1>2, <1>3, <1>4 DEF ReluiInv, Parts

-----------------------------------------------------------------------------
(* Steps of the worker, which leave the engine alone *)

LEMMA StillIInv ==
  ASSUME IInv, UNCHANGED <<engineVars, calls, rows>>, cancelled' \in BOOLEAN
  PROVE  IInv'
  <1>1. TypeOK'
    BY DEF IInv, TypeOK, engineVars
  <1>2. FinishedWasStarted' /\ SingleMessage' /\ SingleRetry'
    BY DEF IInv, engineVars, FinishedWasStarted, SingleMessage, SingleRetry
  <1>3. GrantedRetry'
    BY DEF IInv, engineVars, GrantedRetry, RetryTarget
  <1>4. OneExecutionPerTask' /\ DepsRespected'
    BY DEF IInv, engineVars, OneExecutionPerTask, DepsRespected, Running, Succeeded
  <1>. QED BY <1>1, <1>2, <1>3, <1>4 DEF IInv

\* What such a step has to show.
LEMMA WorkerStepInv ==
  ASSUME ReluiInv, UNCHANGED <<engineVars, calls, rows, interrupted>>, cancelled' \in BOOLEAN,
         phase' \in Active \cup {"marked"} => phase' = phase \/ phase \in Active,
         Control', RecordedOutcome'
  PROVE  ReluiInv'
  <1>1. IInv'
    BY StillIInv DEF ReluiInv
  <1>2. Parts'
    BY MoveParts DEF ReluiInv, Parts, engineVars
  <1>. QED BY <1>1, <1>2 DEF ReluiInv, Parts

\* The outcome is not touched by a step that leaves the row of the workflow alone.
LEMMA OutcomeKept ==
  ASSUME RecordedOutcome, UNCHANGED <<rows, wfRow, execs>>, stopped => stopped',
         definition # "fits" => definition' # "fits"
  PROVE  RecordedOutcome'
BY DEF RecordedOutcome, RowOK

LEMMA LoopInv ==
  ASSUME ReluiInv, StopWorkflow \/ OtherFinishFails \/ Enqueue \/ Dequeue \/ FinishFails
                   \/ WorkerStops \/ Restart
  PROVE  ReluiInv'
  <1>. USE DEF Control, Phases, Active, Idle, Running, AllDone
  <1>0. cancelled \in BOOLEAN /\ Control
    BY DEF ReluiInv, IInv, TypeOK
  <1>1. UNCHANGED <<engineVars, calls, rows, interrupted, wfRow>> /\ (stopped => stopped')
        /\ (definition # "fits" => definition' # "fits")
    BY DEF StopWorkflow, Cancel, OtherFinishFails, Enqueue, Dequeue, FinishFails, WorkerStops,
           Restart, Redeploy, engineVars, vars
  <1>2. Control' /\ cancelled' \in BOOLEAN
        /\ (phase' \in Active \cup {"marked"} => phase' = phase \/ phase \in Active)
    <2>1. CASE StopWorkflow
      BY <1>0, <1>1, <2>1 DEF StopWorkflow, Cancel, engineVars
    <2>2. CASE OtherFinishFails
      BY <1>0, <1>1, <2>2 DEF OtherFinishFails, engineVars
    <2>3. CASE Enqueue
      BY <1>0, <1>1, <2>3 DEF Enqueue, engineVars, vars
    <2>4. CASE Dequeue
      BY <1>0, <1>1, <2>4 DEF Dequeue, engineVars
    <2>5. CASE FinishFails
      BY <1>0, <1>1, <2>5 DEF FinishFails, engineVars, vars
    <2>6. CASE WorkerStops
      BY <1>0, <1>1, <2>6 DEF WorkerStops, engineVars, vars
    <2>7. CASE Restart
      BY <1>0, <1>1, <2>7 DEF Restart, engineVars, vars
    <2>. QED BY <2>1, <2>2, <2>3, <2>4, <2>5, <2>6, <2>7
  <1>3. RecordedOutcome'
    BY <1>1, OutcomeKept DEF ReluiInv, engineVars
  <1>. QED BY <1>1, <1>2, <1>3, WorkerStepInv

\* Run has returned: with every task done, or because a user stopped it.
LEMMA FinishInv ==
  ASSUME ReluiInv, Finish
  PROVE  ReluiInv'
  <1>. USE DEF ReluiInv
  <1>1. /\ UNCHANGED <<engineVars, cancelled, calls, rows, proc, worker, stopped, interrupted>>
        /\ phase = "running" /\ phase' = "ended" /\ worker = "running" /\ proc = "up"
        /\ wfRow' = (IF pc = "done" THEN "ok" ELSE "error")
    BY DEF Finish, vars, engineVars
  <1>2. pc \in {"done", "stopped"} /\ cancelled \in BOOLEAN
    BY DEF Finish, Returned, IInv, TypeOK
  <1>3. Control'
    BY <1>1, <1>2 DEF Control, Phases, Active, engineVars, Running, AllDone
  <1>4. Running = {} /\ execs = {}
    BY <1>2 DEF Control, AllDone, Running, IInv, OneExecutionPerTask
  <1>5. RecordedOutcome'
    <2>1. wfRow' \in {"ok", "error"} /\ execs' = {} /\ (wfRow' = "error" => stopped')
      BY <1>1, <1>2, <1>4 DEF Control, engineVars
    <2>2. ASSUME wfRow' = "ok", NEW n \in Initial \cup UNION {Adds[e] : e \in Expansion}
          PROVE  RowOK(n)
      <3>1. AllDone /\ InitialDefs \subseteq DOMAIN tasks
        BY <1>1, <1>2, <2>2 DEF Control, Active
      <3>2. \A d \in DOMAIN tasks : RowOK(d[1])
        BY <3>1 DEF AllDone, Succeeded, RowsMatch
      <3>3. CASE n \in Initial
        <4>1. <<n, 0>> \in DOMAIN tasks
          BY <3>1, <3>3 DEF InitialDefs, DefOf
        <4>. QED BY <3>2, <4>1
      <3>4. CASE n \notin Initial
        <4>1. PICK e \in Expansion : n \in Adds[e]
          BY <2>2, <3>4
        <4>2. Succeeded(DefOf(e))
          BY <3>1, InitialNames DEF AllDone, Succeeded
        <4>3. <<n, tasks[DefOf(e)].run>> \in DOMAIN tasks
          BY <4>1, <4>2 DEF Origin
        <4>. QED BY <3>2, <4>3
      <3>. QED BY <3>3, <3>4
    <2>3. \A n : RowOK(n)' = RowOK(n)
      BY <1>1 DEF RowOK
    <2>. QED BY <2>1, <2>2, <2>3 DEF RecordedOutcome
  <1>6. phase' \notin Active \cup {"marked"}
    BY <1>1 DEF Active
  <1>. QED BY <1>1, <1>2, <1>3, <1>5, <1>6, WorkerStepInv

LEMMA ResumeFailsInv ==
  ASSUME ReluiInv, ResumeFails
  PROVE  ReluiInv'
  <1>. USE DEF ReluiInv
  <1>1. /\ UNCHANGED <<engineVars, cancelled, calls, rows, proc, worker, stopped, interrupted, definition>>
        /\ phase = "marked" /\ phase' = "ended" /\ proc = "up"
        /\ wfRow' \in {"error", wfRow} /\ (definition = "gone" \/ ~(Initial \subseteq DOMAIN rows))
    BY DEF ResumeFails, CanResume, vars, engineVars
  <1>2. cancelled \in BOOLEAN /\ Idle /\ execs = {}
    BY <1>1 DEF IInv, TypeOK, Control, Idle
  <1>3. Control'
    BY <1>1, <1>2 DEF Control, Phases, Active, engineVars, Running, AllDone
  <1>4. RecordedOutcome'
    <2>1. CASE wfRow' = "error"
      BY <1>1, <1>2, <2>1 DEF RecordedOutcome, engineVars
    <2>2. CASE wfRow' = wfRow
      BY <1>1, <2>2, OutcomeKept DEF engineVars
    <2>. QED BY <1>1, <2>1, <2>2
  <1>5. phase' \notin Active \cup {"marked"}
    BY <1>1 DEF Active
  <1>. QED BY <1>1, <1>2, <1>3, <1>4, <1>5, WorkerStepInv

\* Whatever was executing when the process died is now on record as failed.
LEMMA FailUnfinishedInv ==
  ASSUME ReluiInv, FailUnfinishedTasks
  PROVE  ReluiInv'
  <1>. USE DEF ReluiInv
  <1>1. /\ UNCHANGED <<engineVars, cancelled, calls, proc, worker, wfRow, stopped, interrupted>>
        /\ phase = "resume" /\ phase' = "marked" /\ proc = "up" /\ wfRow = "unfinished"
    BY DEF FailUnfinishedTasks, engineVars, Control
  <1>2. cancelled \in BOOLEAN /\ Idle /\ tasks = EmptyFcn /\ DOMAIN tasks = {}
    BY <1>1 DEF IInv, TypeOK, Control, Idle, EmptyFcn
  <1>3. /\ DOMAIN rows' = DOMAIN rows
        /\ \A n \in DOMAIN rows : /\ rows'[n] \in Row /\ rows'[n].started = rows[n].started
                                  /\ rows[n].started => rows'[n].finished
                                  /\ rows'[n].failed = (rows[n].failed
                                                         \/ (rows[n].started /\ ~rows[n].finished))
    <2>1. \A n \in DOMAIN rows : rows[n] \in Row
      BY DEF IInv, TypeOK
    <2>. QED BY <2>1 DEF FailUnfinishedTasks, Row
  <1>4. IInv'
    <2>1. rows' = [n \in DOMAIN rows' |-> rows'[n]]
      BY DEF FailUnfinishedTasks
    <2>2. TypeOK'
      BY <1>1, <1>2, <1>3, <2>1 DEF IInv, TypeOK, engineVars
    <2>3. FinishedWasStarted' /\ SingleMessage' /\ SingleRetry'
      BY <1>1 DEF IInv, engineVars, FinishedWasStarted, SingleMessage, SingleRetry
    <2>4. GrantedRetry'
      BY <1>1 DEF IInv, engineVars, GrantedRetry, RetryTarget
    <2>5. OneExecutionPerTask' /\ DepsRespected'
      BY <1>1 DEF IInv, engineVars, OneExecutionPerTask, DepsRespected, Running, Succeeded
    <2>. QED BY <2>2, <2>3, <2>4, <2>5 DEF IInv
  <1>5. Control'
    BY <1>1, <1>2, <1>3 DEF Control, Phases, Active, engineVars, Running, AllDone, Idle
  <1>6. Origin' /\ Work'
    BY <1>1 DEF engineVars, Origin, Added, Work, MessageOK, IsSuccessfulExpansion, Succeeded
  <1>7. RowsMatch' /\ Unwritten'
    BY <1>1, <1>2 DEF RowsMatch, Unwritten, Active, engineVars
  <1>8. Review'
    BY <1>1, <1>2, <1>3 DEF Review, engineVars
  <1>9. RecordedOutcome'
    BY <1>1 DEF RecordedOutcome
  <1>. QED BY <1>4, <1>5, <1>6, <1>7, <1>8, <1>9

-----------------------------------------------------------------------------
(* Steps that put the engine into a new state *)

\* An engine that has not started to run: no executions, messages or retries.
LEMMA UnstartedIInv ==
  ASSUME IInv, pc' = "create", execs' = {}, stateChan' = <<>>, retryCommands' = <<>>,
         tasks' \in [DOMAIN tasks' -> TaskState], DOMAIN tasks' \subseteq Def,
         \A d \in DOMAIN tasks' : tasks'[d].finished => tasks'[d].started /\ tasks'[d].created,
         wdef' \subseteq DOMAIN tasks', attempts' \in [DOMAIN tasks' -> Nat],
         pending' \in [DOMAIN pending' -> Row], UNCHANGED rows,
         runningExpansion' \in BOOLEAN, doneOnce' \in BOOLEAN, cancelled' \in BOOLEAN,
         answer' = answer \/ answer' = NoReply,
         calls' \in [Caller -> CallType]
  PROVE  IInv'
  <1>1. retryCommands' \in Seq(Caller) /\ stateChan' \in Seq(MessageType)
        /\ DOMAIN stateChan' = {} /\ DOMAIN retryCommands' = {}
    OBVIOUS
  <1>2. answer' \in [to : Caller \cup {"none"}, res : {"none", "ok", "not failed", "unknown"}]
    <2>1. CASE answer' = answer
      BY <2>1 DEF IInv, TypeOK
    <2>2. CASE answer' = NoReply
      BY <2>2 DEF NoReply
    <2>. QED BY <2>1, <2>2
  <1>3. TypeOK'
    BY <1>1, <1>2 DEF IInv, TypeOK
  <1>4. FinishedWasStarted' /\ SingleMessage' /\ SingleRetry' /\ GrantedRetry'
        /\ OneExecutionPerTask' /\ DepsRespected'
    BY <1>1 DEF FinishedWasStarted, SingleMessage, SingleRetry, GrantedRetry,
                OneExecutionPerTask, DepsRespected
  <1>. QED BY <1>3, <1>4 DEF IInv

LEMMA StartWorkflowInv ==
  ASSUME ReluiInv, StartWorkflow
  PROVE  ReluiInv'
  <1>. USE DEF ReluiInv
  <1>1. /\ UNCHANGED <<pending, retryCommands, pc, runningExpansion, doneOnce, stateChan, answer,
                       cancelled, execs, calls, rows, proc, worker, stopped, interrupted>>
        /\ tasks' = [d \in InitialDefs |-> Fresh] /\ attempts' = [d \in InitialDefs |-> 0]
        /\ wdef' = InitialDefs /\ wfRow' = "unfinished" /\ phase' = "loaded"
        /\ proc = "up" /\ phase = "none" /\ wfRow = "absent"
    BY DEF StartWorkflow
  <1>2. /\ pc = "create" /\ execs = {} /\ stateChan = <<>> /\ retryCommands = <<>>
        /\ rows = EmptyFcn /\ pending = EmptyFcn /\ cancelled \in BOOLEAN
    BY <1>1 DEF Control, Idle, IInv, TypeOK
  <1>3. InitialDefs \subseteq Def
    BY WorkflowAssumption DEF InitialDefs, DefOf, Def
  <1>4. /\ tasks' \in [DOMAIN tasks' -> TaskState] /\ DOMAIN tasks' = InitialDefs
        /\ \A d \in DOMAIN tasks' : tasks'[d] = Fresh
        /\ attempts' \in [DOMAIN tasks' -> Nat]
    BY <1>1, StatesTyped
  <1>5. \A d \in DOMAIN tasks' : ~tasks'[d].started /\ ~tasks'[d].finished
    BY <1>4 DEF Fresh
  <1>6. IInv'
    BY <1>1, <1>2, <1>3, <1>4, <1>5, UnstartedIInv DEF IInv, TypeOK
  <1>7. Control'
    BY <1>1, <1>2, <1>4 DEF Control, Phases, Active, Idle
  <1>8. DOMAIN rows' = {} /\ DOMAIN pending' = {} /\ DOMAIN stateChan' = {} /\ interrupted' = {}
    BY <1>1, <1>2 DEF EmptyFcn, Review
  <1>9. \A d \in DOMAIN tasks' : ~Succeeded(d)' /\ (d \notin Running)' /\ ~RowOK(d[1])'
    BY <1>5, <1>8 DEF Succeeded, Running, RowOK
  <1>10. Origin'
    BY <1>4, <1>9, InitialNames DEF Origin
  <1>11. Work' /\ RowsMatch' /\ Unwritten' /\ Review' /\ RecordedOutcome'
    BY <1>1, <1>2, <1>8, <1>9 DEF Work, RowsMatch, Unwritten, Review, RecordedOutcome
  <1>. QED BY <1>6, <1>7, <1>10, <1>11

LEMMA ResumeInv ==
  ASSUME ReluiInv, Resume
  PROVE  ReluiInv'
  <1>. USE DEF ReluiInv
  <1>1. /\ UNCHANGED <<retryCommands, pc, runningExpansion, doneOnce, stateChan, answer,
                       cancelled, execs, calls, rows, proc, worker, wfRow, stopped, interrupted>>
        /\ tasks' = [d \in InitialDefs |-> LoadTaskState(rows, d)]
        /\ attempts' = [d \in InitialDefs |-> 0]
        /\ wdef' = InitialDefs /\ phase' = "loaded" /\ pending' = rows
        /\ proc = "up" /\ phase = "marked"
    BY DEF Resume
  <1>2. /\ pc = "create" /\ execs = {} /\ stateChan = <<>> /\ retryCommands = <<>>
        /\ cancelled \in BOOLEAN /\ wfRow = "unfinished"
        /\ rows \in [DOMAIN rows -> Row]
    BY <1>1 DEF Control, Idle, IInv, TypeOK
  <1>3. InitialDefs \subseteq Def
    BY WorkflowAssumption DEF InitialDefs, DefOf, Def
  <1>4. /\ tasks' \in [DOMAIN tasks' -> TaskState] /\ DOMAIN tasks' = InitialDefs
        /\ attempts' \in [DOMAIN tasks' -> Nat]
        /\ \A d \in DOMAIN tasks' : tasks'[d].finished => tasks'[d].started /\ tasks'[d].created
    BY <1>1, <1>2, <1>3, LoadTyped
  <1>5. ASSUME NEW d \in DOMAIN tasks'
        PROVE  /\ tasks'[d].started <=> tasks'[d].finished
               /\ tasks'[d].finished => d[1] \in DOMAIN rows /\ rows[d[1]].finished
               /\ tasks'[d].finished => tasks'[d].failed = rows[d[1]].failed
               /\ ~IsExpansion(d) /\ d[1] \in DOMAIN rows /\ rows[d[1]].finished
                     => tasks'[d].finished
               /\ IsExpansion(d) => ~tasks'[d].finished
    <2>1. PICK st : st = LoadTaskState(rows, d)
      OBVIOUS
    <2>2. tasks'[d] = st /\ d \in Def
      BY <1>1, <1>3, <1>4, <2>1
    <2>. QED BY <1>2, <2>1, <2>2, LoadedFacts
  <1>6. IInv'
    BY <1>1, <1>2, <1>3, <1>4, UnstartedIInv DEF IInv, TypeOK
  <1>7. Control'
    BY <1>1, <1>2, <1>4 DEF Control, Phases, Active, Idle
  <1>8. ASSUME NEW d \in DOMAIN tasks'
        PROVE  /\ (d \notin Running)' /\ (Succeeded(d)' => RowOK(d[1])')
               /\ ~IsExpansion(d) /\ RowOK(d[1])' => Succeeded(d)'
               /\ IsExpansion(d) => ~Succeeded(d)'
    BY <1>1, <1>5 DEF Succeeded, Running, RowOK
  <1>9. Origin'
    <2>1. ASSUME NEW e \in Expansion PROVE ~Succeeded(DefOf(e))'
      <3>1. DefOf(e) \in DOMAIN tasks' /\ IsExpansion(DefOf(e))
        BY <1>4, InitialNames DEF IsExpansion, DefOf
      <3>2. ~tasks'[DefOf(e)].finished
        BY <1>5, <3>1
      <3>. QED BY <3>2 DEF Succeeded
    <2>. QED BY <1>4, <2>1 DEF Origin
  <1>10. DOMAIN stateChan' = {}
    BY <1>1, <1>2
  <1>11. RowsMatch'
    <2>. SUFFICES ASSUME NEW t \in DOMAIN tasks'
                  PROVE  /\ Succeeded(t)' => RowOK(t[1])'
                         /\ ~IsExpansion(t) /\ RowOK(t[1])' => Succeeded(t)'
                         /\ (t \notin Running)'
      BY DEF RowsMatch, IsExpansion
    <2>. QED BY <1>8
  <1>12. Work' /\ Unwritten' /\ RecordedOutcome'
    BY <1>1, <1>2, <1>10 DEF Work, Unwritten, RecordedOutcome
  <1>13. Review'
    <2>. SUFFICES ASSUME NEW n \in interrupted
                  PROVE  /\ n \in DOMAIN rows /\ n \in Name \ Expansion
                         /\ rows[n].started /\ rows[n].finished /\ rows[n].failed
                         /\ \A d \in DOMAIN tasks' : d[1] = n => tasks'[d].finished /\ tasks'[d].failed
      BY <1>1, <1>10 DEF Review
    <2>1. /\ n \in DOMAIN rows /\ n \in Name \ Expansion
          /\ rows[n].started /\ rows[n].finished /\ rows[n].failed
      BY <1>1 DEF Review
    <2>. QED BY <1>5, <2>1 DEF IsExpansion
  <1>. QED BY <1>6, <1>7, <1>9, <1>11, <1>12, <1>13

LEMMA CrashInv ==
  ASSUME ReluiInv, Crash
  PROVE  ReluiInv'
  <1>. USE DEF ReluiInv
  <1>1. /\ UNCHANGED <<rows, wfRow, stopped, definition>> /\ phase' = "none" /\ proc' = "down"
        /\ tasks' = EmptyFcn /\ attempts' = EmptyFcn /\ wdef' = {} /\ pending' = EmptyFcn
        /\ execs' = {} /\ stateChan' = <<>> /\ retryCommands' = <<>> /\ answer' = NoReply
        /\ pc' = "create" /\ runningExpansion' = FALSE /\ doneOnce' = TRUE /\ cancelled' = FALSE
        /\ interrupted' = interrupted \cup {d[1] : d \in {t \in Running : ~IsExpansion(t)}}
    BY DEF Crash
  <1>2. calls' \in [Caller -> CallType]
    <2>1. \A c \in Caller : calls[c] \in CallType /\ [calls[c] EXCEPT !.pc = "gone"] \in CallType
      BY DEF IInv, TypeOK, CallType
    <2>. QED BY <2>1 DEF Crash
  <1>3. /\ DOMAIN tasks' = {} /\ tasks' \in [DOMAIN tasks' -> TaskState]
        /\ attempts' \in [DOMAIN tasks' -> Nat] /\ pending' \in [DOMAIN pending' -> Row]
        /\ DOMAIN stateChan' = {}
    BY <1>1 DEF EmptyFcn
  <1>4. IInv'
    BY <1>1, <1>2, <1>3, UnstartedIInv
  <1>5. Control'
    BY <1>1, <1>3 DEF Control, Phases, Active, Idle
  <1>6. Origin'
    BY <1>3 DEF Origin, Succeeded
  <1>7. Work' /\ RowsMatch' /\ Unwritten'
    BY <1>1, <1>3 DEF Work, RowsMatch, Unwritten, Active
  <1>8. Review'
    <2>1. ASSUME NEW n \in interrupted'
          PROVE  /\ n \in DOMAIN rows /\ n \in Name \ Expansion
                 /\ rows[n].started /\ (rows[n].finished => rows[n].failed)
      <3>1. CASE n \in interrupted
        BY <3>1 DEF Review
      <3>2. CASE n \notin interrupted
        <4>1. PICK d \in Running : ~IsExpansion(d) /\ n = d[1]
          BY <1>1, <2>1, <3>2
        <4>2. d \in DOMAIN tasks /\ d \in Name \X Nat
          BY <4>1 DEF Running, IInv, TypeOK, Def
        <4>. QED BY <4>1, <4>2 DEF RowsMatch, IsExpansion
      <3>. QED BY <3>1, <3>2
    <2>. QED BY <1>1, <1>3, <2>1 DEF Review, Active
  <1>9. RecordedOutcome'
    BY <1>1 DEF RecordedOutcome, RowOK
  <1>. QED BY <1>4, <1>5, <1>6, <1>7, <1>8, <1>9

-----------------------------------------------------------------------------
(* Theorems *)

LEMMA ReluiInitInv == ReluiInit => ReluiInv
  <1>. SUFFICES ASSUME ReluiInit PROVE ReluiInv
    OBVIOUS
  <1>. USE DEF ReluiInit
  <1>1. IInv
    BY InitIInv
  <1>2. /\ DOMAIN rows = {} /\ DOMAIN stateChan = {} /\ execs = {} /\ DOMAIN tasks = InitialDefs
        /\ \A d \in DOMAIN tasks : ~tasks[d].started /\ ~tasks[d].finished
    BY DEF Init, EmptyFcn, Fresh
  <1>3. Control
    BY DEF Control, Phases, Active, Idle, Init
  <1>4. \A d \in DOMAIN tasks : ~Succeeded(d) /\ d \notin Running /\ ~RowOK(d[1])
    BY <1>2 DEF Succeeded, Running, RowOK
  <1>5. Origin
    BY <1>2, <1>4, InitialNames DEF Origin
  <1>6. Work /\ RowsMatch /\ Unwritten /\ Review /\ RecordedOutcome
    BY <1>2, <1>4 DEF Work, RowsMatch, Unwritten, Active, Review, RecordedOutcome
  <1>. QED BY <1>1, <1>3, <1>5, <1>6 DEF ReluiInv

LEMMA ReluiNextInv ==
  ASSUME ~OverlappingRetries, Distinct, ReluiInv, [ReluiNext]_allVars
  PROVE  ReluiInv'
  <1>1. CASE ReluiNext
    BY <1>1, StartWorkflowInv, EngineStepInv, LoopInv, CrashInv, FinishInv, FailUnfinishedInv,
       ResumeInv, ResumeFailsInv
       DEF ReluiNext, WorkerStep
  <1>2. CASE UNCHANGED allVars
    <2>1. UNCHANGED <<engineVars, calls, rows, interrupted, cancelled, phase, wfRow, stopped, proc,
                      worker, definition>>
      BY <1>2 DEF allVars, vars, engineVars, reluiVars
    <2>2. cancelled' \in BOOLEAN
      BY <2>1 DEF ReluiInv, IInv, TypeOK
    <2>3. Control'
      BY <2>1 DEF ReluiInv, Control, Idle, engineVars, Running, AllDone
    <2>4. RecordedOutcome'
      BY <2>1, OutcomeKept DEF ReluiInv, engineVars
    <2>. QED BY <2>1, <2>2, <2>3, <2>4, WorkerStepInv
  <1>. QED BY <1>1, <1>2

\* The invariant of the worker: memory, table and workflow row agree, through
\* crashes at any point, the restarts after them and the resumption of the workflow.
THEOREM ReluiInvariant ==
  ASSUME ~OverlappingRetries, Distinct
  PROVE  ReluiSpec => []ReluiInv
  <1>1. ReluiInv /\ [ReluiNext]_allVars => ReluiInv'
    BY ReluiNextInv
  <1>. QED BY <1>1, ReluiInitInv, PTL DEF ReluiSpec

\* Worker.Resume marks what a crash interrupted for human review: no such task
\* executes again before a user has retried it, after any number of crashes.
THEOREM InterruptedIsReviewed ==
  ASSUME ~OverlappingRetries, Distinct
  PROVE  ReluiSpec => []InterruptedAwaitsReview
  <1>1. ReluiInv => InterruptedAwaitsReview
    BY DEF ReluiInv, Review, IInv, TypeOK, OneExecutionPerTask, Running, InterruptedAwaitsReview
  <1>. QED BY <1>1, ReluiInvariant, PTL

\* WorkflowFinished is called with the truth: success only when the rows of all
\* tasks say so, failure only after a stop, with first rows missing, or in a process
\* that has no definition which fits the row.
THEOREM OutcomeIsTrue ==
  ASSUME ~OverlappingRetries, Distinct
  PROVE  ReluiSpec => []RecordedOutcome
  <1>1. ReluiInv => RecordedOutcome
    BY DEF ReluiInv
  <1>. QED BY <1>1, ReluiInvariant, PTL

\* A row is written for one task, and never for one whose success is on record.
LEMMA SuccessfulRowKept ==
  ASSUME ReluiInv, ReluiNext, NEW n \in DOMAIN rows \ Expansion, RowOK(n)
  PROVE  rows'[n] = rows[n]
  <1>. USE DEF ReluiInv
  <1>1. ASSUME NEW d \in DOMAIN tasks, d[1] = n
        PROVE  Succeeded(d) /\ tasks[d].started /\ tasks[d].created
    BY <1>1 DEF RowsMatch, IsExpansion, Succeeded, IInv, FinishedWasStarted
  <1>2. ASSUME NEW d, NEW r, d[1] # n, rows' = Put(rows, d[1], r)
        PROVE  rows'[n] = rows[n]
    BY <1>2 DEF Put
  <1>3. CASE \E d \in DOMAIN tasks : CreateTask(d) \/ StartTask(d)
    <2>1. PICK d \in DOMAIN tasks : CreateTask(d) \/ StartTask(d)
      BY <1>3
    <2>2. d[1] # n
      BY <1>1, <2>1 DEF CreateTask, StartTask, MayStart
    <2>3. rows' = Put(rows, d[1], ToExported(tasks'[d]))
      BY <2>1 DEF CreateTask, StartTask
    <2>. QED BY <1>2, <2>2, <2>3
  <1>4. CASE ReceiveState \/ ReceiveExpansion
    <2>1. PICK m : m = Head(stateChan)
      OBVIOUS
    <2>2. m.def \in DOMAIN tasks /\ ~Succeeded(m.def)
      BY <1>4, <2>1, Received DEF ReceiveState, ReceiveExpansion
    <2>3. rows' = Put(rows, m.def[1], ToExported(m.state))
      BY <1>4, <2>1 DEF ReceiveState, ReceiveExpansion
    <2>. QED BY <1>1, <1>2, <2>2, <2>3
  <1>5. CASE FailUnfinishedTasks
    BY <1>5 DEF FailUnfinishedTasks, RowOK
  <1>6. CASE EngineStep
    BY <1>3, <1>4, <1>6 DEF EngineStep, RunStep, ExecutionStep, Counted, Started,
       ReceiveRetry, SendReset, SendReply, ReceiveDone, TaskFinishes, ExpansionFinishes,
       RequestRetry, AbandonRetry
  <1>7. CASE ~EngineStep /\ ~FailUnfinishedTasks
    BY <1>7 DEF ReluiNext, WorkerStep, StartWorkflow, StopWorkflow, Cancel, OtherFinishFails, Crash,
       Enqueue, Dequeue, Finish, FinishFails, WorkerStops, Restart, Resume, ResumeFails, vars
  <1>. QED BY <1>5, <1>6, <1>7

\* What TaskStateChanged recorded as a success stays in the table as it is, so
\* that no process after any crash loads the task as one that is still to do.
THEOREM SuccessStaysRecorded ==
  ASSUME ~OverlappingRetries, Distinct
  PROVE  ReluiSpec => RecordedSuccessIsFinal
  <1>1. ReluiInv /\ [ReluiNext]_allVars =>
          [\A n \in DOMAIN rows \ Expansion : RowOK(n) => rows'[n] = rows[n]]_allVars
    BY SuccessfulRowKept
  <1>. QED BY <1>1, ReluiInvariant, PTL DEF ReluiSpec, RecordedSuccessIsFinal

-----------------------------------------------------------------------------
(* The budget of executions.  What a call of RetryTask and the start of the   *)
(* workflow allow is either spent, or still due to the one place from which   *)
(* the task can go on: its row, its state, its execution, its message or its  *)
(* queued retry.                                                              *)

Queued(n) ==
    \/ \E i \in DOMAIN retryCommands : calls[retryCommands[i]].name = n
    \/ pc = "send" /\ calls[answer.to].name = n
Calls(n) == {c \in Caller : calls[c].name = n}
Spare(n) == MaxRetries * (1 + Cardinality(Calls(n))) - starts[n]
              - (IF Queued(n) THEN MaxRetries ELSE 0)

\* s is enough for a task that has been retried k times.
Pays(s, k) == k \in 0 .. (MaxRetries - 1) /\ s >= MaxRetries - k
Within(n, s) ==
    /\ s >= 0
    /\ n \notin DOMAIN rows => Pays(s, 0)
    /\ n \in DOMAIN rows /\ ~rows[n].started => Pays(s, rows[n].retryCount)
    /\ \A d \in DOMAIN tasks : d[1] = n /\ ~tasks[d].started => Pays(s, tasks[d].retryCount)
    /\ \A x \in execs : x.def[1] = n => Pays(s + 1, x.retryCount)
    /\ \A i \in DOMAIN stateChan : stateChan[i].def[1] = n /\ ~stateChan[i].state.finished =>
         Pays(s, stateChan[i].state.retryCount)

Marked(table) == \A n \in DOMAIN table : table[n].started => table[n].finished

Budget ==
    /\ starts \in [Name -> Nat]
    /\ \A c \in Caller : calls[c].pc = "idle" => calls[c].name = "none"
    /\ phase = "marked" => Marked(rows)
    /\ phase \in Active => Marked(pending)
    /\ \A n \in Name \ Expansion : Within(n, Spare(n))

LEMMA CallCount ==
  ASSUME NEW S \in SUBSET Caller
  PROVE  /\ Cardinality(S) \in Nat
         /\ \A c \in Caller \ S : Cardinality(S \cup {c}) = Cardinality(S) + 1
  <1>1. IsFiniteSet(S)
    BY ReluiAssumption, FS_Subset
  <1>. QED BY <1>1, FS_CardinalityType, FS_AddElement

\* A step that leaves what is due where it is, or moves it on.
Passes(n, s) ==
    /\ n \notin DOMAIN rows' => n \notin DOMAIN rows
    /\ n \in DOMAIN rows' => \/ n \in DOMAIN rows /\ rows'[n] = rows[n]
                             \/ rows'[n].started
                             \/ Pays(s, rows'[n].retryCount)
    /\ \A d \in DOMAIN tasks' : d[1] = n => \/ d \in DOMAIN tasks /\ tasks'[d] = tasks[d]
                                            \/ tasks'[d].started
                                            \/ Pays(s, tasks'[d].retryCount)
    /\ \A x \in execs' : x.def[1] = n => x \in execs
    /\ \A i \in DOMAIN stateChan' : stateChan'[i].def[1] = n =>
         \/ \E j \in DOMAIN stateChan : stateChan'[i] = stateChan[j]
         \/ stateChan'[i].state.finished
         \/ Pays(s, stateChan'[i].state.retryCount)

LEMMA WithinKept ==
  ASSUME NEW n, NEW s \in Int, NEW r \in Int, r >= s, Within(n, s), Passes(n, r)
  PROVE  Within(n, r)'
  <1>1. \A k : (Pays(s, k) => Pays(r, k)) /\ (Pays(s + 1, k) => Pays(r + 1, k))
    BY WorkflowAssumption DEF Pays
  <1>2. /\ n \notin DOMAIN rows' => Pays(r, 0)
        /\ n \in DOMAIN rows' /\ ~rows'[n].started => Pays(r, rows'[n].retryCount)
    BY <1>1 DEF Within, Passes
  <1>3. \A d \in DOMAIN tasks' : d[1] = n /\ ~tasks'[d].started => Pays(r, tasks'[d].retryCount)
    BY <1>1 DEF Within, Passes
  <1>4. \A x \in execs' : x.def[1] = n => Pays(r + 1, x.retryCount)
    BY <1>1 DEF Within, Passes
  <1>5. \A i \in DOMAIN stateChan' : stateChan'[i].def[1] = n /\ ~stateChan'[i].state.finished =>
          Pays(r, stateChan'[i].state.retryCount)
    BY <1>1 DEF Within, Passes
  <1>6. r >= 0
    BY DEF Within
  <1>. QED BY <1>2, <1>3, <1>4, <1>5, <1>6 DEF Within, Pays

\* Nothing is charged by a step that starts nothing and queues nothing.
LEMMA SpareKept ==
  ASSUME NEW n \in Name, starts \in [Name -> Nat], starts'[n] = starts[n],
         \A c \in Caller : calls'[c].name = calls[c].name, Queued(n)' => Queued(n)
  PROVE  Spare(n) \in Int /\ Spare(n)' \in Int /\ Spare(n)' >= Spare(n)
  <1>1. Calls(n)' = Calls(n) /\ Calls(n) \in SUBSET Caller
    BY DEF Calls
  <1>2. PICK k \in Nat : k = Cardinality(Calls(n))
    BY <1>1, CallCount
  <1>3. MaxRetries \in Nat /\ MaxRetries * (1 + k) \in Int /\ starts[n] \in Nat
    BY WorkflowAssumption
  <1>4. /\ Spare(n) = MaxRetries * (1 + k) - starts[n] - (IF Queued(n) THEN MaxRetries ELSE 0)
        /\ Spare(n)' = MaxRetries * (1 + k) - starts[n] - (IF Queued(n)' THEN MaxRetries ELSE 0)
    BY <1>1, <1>2 DEF Spare
  <1>. HIDE DEF Spare, Queued
  <1>5. PICK p \in Int : p = MaxRetries * (1 + k)
    BY <1>3
  <1>. QED BY <1>3, <1>4, <1>5

AllPass == \A n \in Name \ Expansion : Passes(n, Spare(n))
SameCalls == \A c \in Caller : /\ calls'[c].name = calls[c].name
                               /\ calls'[c].pc = "idle" => calls[c].pc = "idle"
NoneQueued == \A n \in Name : Queued(n)' => Queued(n)

LEMMA BudgetKept ==
  ASSUME Budget, starts' = starts, SameCalls, NoneQueued, AllPass,
         phase' = "marked" => Marked(rows'), phase' \in Active => Marked(pending')
  PROVE  Budget'
  <1>1. ASSUME NEW n \in Name \ Expansion PROVE Within(n, Spare(n))'
    <2>1. Spare(n) \in Int /\ Spare(n)' \in Int /\ Spare(n)' >= Spare(n)
      BY SpareKept DEF Budget, SameCalls, NoneQueued
    <2>2. PICK s \in Int, r \in Int : s = Spare(n) /\ r = Spare(n)' /\ r >= s
      BY <2>1
    <2>3. Within(n, s) /\ Passes(n, s)
      BY <2>2 DEF Budget, AllPass
    <2>4. \A k : Pays(s, k) => Pays(r, k)
      BY <2>2, WorkflowAssumption DEF Pays
    <2>5. Passes(n, r)
      BY <2>3, <2>4 DEF Passes
    <2>6. Within(n, r)'
      BY <2>2, <2>3, <2>5, WithinKept
    <2>. QED BY <2>2, <2>6
  <1>2. \A c \in Caller : calls'[c].pc = "idle" => calls'[c].name = "none"
    BY DEF Budget, SameCalls
  <1>. QED BY <1>1, <1>2 DEF Budget, Marked

\* Only StartTask charges the budget.
LEMMA NothingStarted ==
  ASSUME Budget, EngineStep, execs' \subseteq execs
  PROVE  starts' = starts
  <1>1. \A n : {x \in execs' \ execs : x.def[1] = n} = {}
    OBVIOUS
  <1>2. starts' = [n \in Name |-> starts[n] + 0]
    BY <1>1, FS_EmptySet DEF EngineStep
  <1>. QED BY <1>2 DEF Budget

LEMMA BudgetMoves ==
  ASSUME Budget, EngineStep, UNCHANGED <<tasks, rows, pending, execs, stateChan>>,
         SameCalls, NoneQueued
  PROVE  Budget'
  <1>1. starts' = starts
    BY NothingStarted
  <1>2. AllPass
    BY DEF AllPass, Passes
  <1>. QED BY <1>1, <1>2, BudgetKept DEF EngineStep, Budget

\* A message for the channel that is final, or that is paid for.
LEMMA BudgetSends ==
  ASSUME IInv, Budget, EngineStep, NEW e \in MessageType, stateChan' = Append(stateChan, e),
         UNCHANGED <<tasks, rows, pending, calls, pc, retryCommands, answer>>, execs' \subseteq execs,
         e.def[1] \in Name \ Expansion =>
            e.state.finished \/ Pays(Spare(e.def[1]), e.state.retryCount)
  PROVE  Budget'
  <1>1. starts' = starts
    BY NothingStarted
  <1>2. /\ DOMAIN stateChan' = DOMAIN stateChan \cup {Len(stateChan) + 1}
        /\ \A i \in DOMAIN stateChan : stateChan'[i] = stateChan[i]
        /\ stateChan'[Len(stateChan) + 1] = e
    <2>1. stateChan \in Seq(MessageType)
      BY DEF IInv, TypeOK
    <2>. QED BY <2>1, AppendEntries
  <1>3. AllPass
    <2>. SUFFICES ASSUME NEW n \in Name \ Expansion, NEW s, s = Spare(n) PROVE Passes(n, s)
      BY DEF AllPass
    <2>1. e.def[1] = n => e.state.finished \/ Pays(s, e.state.retryCount)
      OBVIOUS
    <2>. QED BY <1>2, <2>1 DEF Passes
  <1>4. SameCalls /\ NoneQueued
    BY DEF SameCalls, NoneQueued, Queued
  <1>. QED BY <1>1, <1>3, <1>4, BudgetKept DEF EngineStep, Budget

LEMMA FinishBudget ==
  ASSUME IInv, Budget, EngineStep, NEW x \in execs, ExecutionStep(x)
  PROVE  Budget'
  <1>0. x \in ExecType /\ x.def \in Name \X Nat
    BY DEF IInv, TypeOK, ExecType, Def
  <1>1. x.def \in Def /\ x.run \in Nat /\ x.retryCount \in Nat /\ x.failed \in BOOLEAN
        /\ x.base \in SUBSET Def /\ x.def[1] \in Name
    BY <1>0 DEF ExecType
  <1>2. ASSUME NEW err \in BOOLEAN, NEW dis \in BOOLEAN, TaskFinishes(x, err, dis) PROVE Budget'
    <2>. DEFINE e == [def |-> x.def, state |-> TaskOutcome(x, err, dis), expanded |-> {}]
    <2>1. TaskOutcome(x, err, dis) \in TaskState
      BY <1>1, StatesTyped DEF TaskOutcome, TaskState
    <2>2. e \in MessageType
      BY <1>1, <2>1 DEF MessageType
    <2>3. ASSUME NEW s \in Int, Pays(s + 1, x.retryCount), NEW o, o = TaskOutcome(x, err, dis)
          PROVE  o.finished \/ Pays(s, o.retryCount)
      BY <1>1, <2>3, WorkflowAssumption DEF TaskOutcome, ResetState, Pays
    <2>4. /\ stateChan' = Append(stateChan, e) /\ execs' \subseteq execs
          /\ UNCHANGED <<tasks, rows, pending, calls, pc, retryCommands, answer>>
      BY <1>2 DEF TaskFinishes
    <2>5. x.def[1] \in Name \ Expansion
      BY <1>1, <1>2 DEF TaskFinishes, IsExpansion
    <2>6. Spare(x.def[1]) \in Int /\ Within(x.def[1], Spare(x.def[1]))
      <3>1. starts[x.def[1]] \in Nat /\ Calls(x.def[1]) \in SUBSET Caller
        BY <2>5 DEF Budget, Calls
      <3>. QED BY <2>5, <3>1, CallCount, WorkflowAssumption DEF Budget, Spare
    <2>7. PICK s \in Int : s = Spare(x.def[1])
      BY <2>6
    <2>8. Pays(s + 1, x.retryCount)
      BY <2>6, <2>7 DEF Within
    <2>9. e.state.finished \/ Pays(s, e.state.retryCount)
      BY <2>3, <2>8
    <2>10. e.def = x.def
      OBVIOUS
    <2>. HIDE DEF e
    <2>11. e.def[1] \in Name \ Expansion =>
             e.state.finished \/ Pays(Spare(e.def[1]), e.state.retryCount)
      BY <2>7, <2>9, <2>10
    <2>. QED BY <2>2, <2>4, <2>11, BudgetSends
  <1>3. ASSUME NEW err \in BOOLEAN, ExpansionFinishes(x, err) PROVE Budget'
    <2>. DEFINE added == IF err THEN {} ELSE x.base \cup {<<n, x.run>> : n \in Adds[x.def[1]]}
                e == [def |-> x.def, state |-> ExpansionOutcome(x, err), expanded |-> added]
    <2>1. ExpansionOutcome(x, err) \in TaskState
      BY <1>1 DEF ExpansionOutcome, TaskState
    <2>2. x.def[1] \in Expansion /\ Adds[x.def[1]] \subseteq Name
      BY <1>3, WorkflowAssumption DEF ExpansionFinishes, IsExpansion
    <2>3. added \in SUBSET Def
      BY <1>1, <2>2 DEF Def
    <2>4. e \in MessageType
      BY <1>1, <2>1, <2>3 DEF MessageType
    <2>5. /\ stateChan' = Append(stateChan, e) /\ execs' \subseteq execs
          /\ UNCHANGED <<tasks, rows, pending, calls, pc, retryCommands, answer>>
      BY <1>3 DEF ExpansionFinishes
    <2>6. e.def[1] \notin Name \ Expansion
      BY <2>2
    <2>. HIDE DEF e
    <2>. QED BY <2>4, <2>5, <2>6, BudgetSends
  <1>. QED BY <1>2, <1>3 DEF ExecutionStep

LEMMA SpareInt ==
  ASSUME Budget, NEW n \in Name
  PROVE  Spare(n) \in Int
  <1>1. starts[n] \in Nat /\ Calls(n) \in SUBSET Caller
    BY DEF Budget, Calls
  <1>. QED BY <1>1, CallCount, WorkflowAssumption DEF Spare

LEMMA CreateBudget ==
  ASSUME IInv, Budget, EngineStep, NEW d \in DOMAIN tasks, CreateTask(d)
  PROVE  Budget'
  <1>1. starts' = starts
    BY NothingStarted DEF CreateTask
  <1>2. SameCalls /\ NoneQueued
    BY DEF SameCalls, NoneQueued, Queued, CreateTask
  <1>3. /\ UNCHANGED <<execs, stateChan, pending>>
        /\ DOMAIN tasks' = DOMAIN tasks /\ \A t \in DOMAIN tasks : t # d => tasks'[t] = tasks[t]
        /\ tasks'[d].started = tasks[d].started /\ tasks'[d].retryCount = tasks[d].retryCount
        /\ DOMAIN rows' = DOMAIN rows \cup {d[1]} /\ rows'[d[1]] = ToExported(tasks'[d])
        /\ \A n \in DOMAIN rows : n # d[1] => rows'[n] = rows[n]
    BY DEF CreateTask, IInv, TypeOK, TaskState, Put
  <1>4. AllPass
    <2>. SUFFICES ASSUME NEW n \in Name \ Expansion, NEW s, s = Spare(n) PROVE Passes(n, s)
      BY DEF AllPass
    <2>1. Within(n, s)
      BY DEF Budget
    <2>2. d[1] = n => tasks'[d].started \/ Pays(s, tasks'[d].retryCount)
      BY <1>3, <2>1 DEF Within
    <2>. QED BY <1>3, <2>2 DEF Passes, ToExported
  <1>. QED BY <1>1, <1>2, <1>3, <1>4, BudgetKept DEF EngineStep, Budget

LEMMA ReceiveStateBudget ==
  ASSUME IInv, Work, Review, Budget, EngineStep, ReceiveState
  PROVE  Budget'
  <1>. PICK m : m = Head(stateChan)
    OBVIOUS
  <1>1. starts' = starts
    BY NothingStarted DEF ReceiveState
  <1>2. SameCalls /\ NoneQueued
    BY DEF SameCalls, NoneQueued, Queued, ReceiveState
  <1>3. /\ UNCHANGED <<execs, pending>>
        /\ \A i \in DOMAIN stateChan' : \E j \in DOMAIN stateChan : stateChan'[i] = stateChan[j]
        /\ DOMAIN tasks' = DOMAIN tasks /\ \A t \in DOMAIN tasks : t # m.def => tasks'[t] = tasks[t]
        /\ tasks'[m.def] = m.state
        /\ DOMAIN rows' = DOMAIN rows \cup {m.def[1]} /\ rows'[m.def[1]] = ToExported(m.state)
        /\ \A n \in DOMAIN rows : n # m.def[1] => rows'[n] = rows[n]
    BY Received DEF ReceiveState, Put
  <1>4. 1 \in DOMAIN stateChan /\ m = stateChan[1]
    <2>1. stateChan \in Seq(MessageType) /\ stateChan # <<>>
      BY DEF IInv, TypeOK, ReceiveState
    <2>. QED BY <2>1, TailEntries
  <1>5. AllPass
    <2>. SUFFICES ASSUME NEW n \in Name \ Expansion, NEW s, s = Spare(n) PROVE Passes(n, s)
      BY DEF AllPass
    <2>1. Within(n, s)
      BY DEF Budget
    <2>2. m.def[1] = n => m.state.started \/ Pays(s, m.state.retryCount)
      BY <1>4, <2>1 DEF Within, IInv, FinishedWasStarted
    <2>. QED BY <1>3, <2>2 DEF Passes, ToExported
  <1>. QED BY <1>1, <1>2, <1>3, <1>5, BudgetKept DEF EngineStep, Budget

\* A stored row is worth what its task will be worth.
LEMMA LoadedPays ==
  ASSUME NEW n \in Name \ Expansion, NEW s, NEW stored, stored \in [DOMAIN stored -> Row],
         Marked(stored), NEW t \in Def, t[1] = n,
         n \notin DOMAIN stored => Pays(s, 0),
         n \in DOMAIN stored /\ ~stored[n].started => Pays(s, stored[n].retryCount)
  PROVE  LoadTaskState(stored, t).started \/ Pays(s, LoadTaskState(stored, t).retryCount)
  <1>. PICK st : st = LoadTaskState(stored, t)
    OBVIOUS
  <1>1. /\ st.started <=> st.finished
        /\ ~IsExpansion(t) /\ n \in DOMAIN stored /\ stored[n].finished => st.finished
        /\ st.retryCount = (IF n \in DOMAIN stored THEN stored[n].retryCount ELSE 0)
    BY LoadedFacts
  <1>2. ~IsExpansion(t)
    BY DEF IsExpansion
  <1>3. st.started \/ Pays(s, st.retryCount)
    BY <1>1, <1>2 DEF Marked
  <1>. QED BY <1>3

LEMMA ReceiveExpansionBudget ==
  ASSUME Distinct, IInv, Parts, Budget, EngineStep, ReceiveExpansion
  PROVE  Budget'
  <1>. PICK m : m = Head(stateChan)
    OBVIOUS
  <1>. PICK e : e = m.def[1]
    OBVIOUS
  <1>0. Brings(m, e)
    BY ExpansionBrings
  <1>1. starts' = starts
    BY NothingStarted DEF ReceiveExpansion
  <1>2. SameCalls /\ NoneQueued
    BY DEF SameCalls, NoneQueued, Queued, ReceiveExpansion
  <1>3. /\ DOMAIN rows' = DOMAIN rows \cup {e}
        /\ \A n \in DOMAIN rows : n # e => rows'[n] = rows[n]
    BY <1>0 DEF Brings, Put
  <1>4. AllPass
    <2>. SUFFICES ASSUME NEW n \in Name \ Expansion, NEW s, s = Spare(n) PROVE Passes(n, s)
      BY DEF AllPass
    <2>1. Within(n, s)
      BY DEF Budget
    <2>2. n # e
      BY <1>0 DEF Brings
    <2>3. ASSUME NEW t \in DOMAIN tasks', t[1] = n
          PROVE  \/ t \in DOMAIN tasks /\ tasks'[t] = tasks[t]
                 \/ tasks'[t].started
                 \/ Pays(s, tasks'[t].retryCount)
      <3>1. CASE t \in DOMAIN tasks
        BY <1>0, <2>2, <2>3, <3>1 DEF Brings
      <3>2. CASE t \notin DOMAIN tasks
        <4>1. t \in Def /\ tasks'[t] = LoadTaskState(pending, t) /\ \A d \in DOMAIN tasks : d[1] # n
          BY <1>0, <2>3, <3>2 DEF Brings
        <4>2. phase \in Active
          BY DEF EngineStep, Active
        <4>3. /\ n \in DOMAIN rows <=> n \in DOMAIN pending
              /\ n \in DOMAIN rows => rows[n] = pending[n]
          BY <4>1, <4>2 DEF Parts, Unwritten
        <4>4. Marked(pending) /\ pending \in [DOMAIN pending -> Row]
          BY <4>2 DEF Budget, IInv, TypeOK
        <4>5. /\ n \notin DOMAIN pending => Pays(s, 0)
              /\ n \in DOMAIN pending /\ ~pending[n].started => Pays(s, pending[n].retryCount)
          BY <2>1, <4>3 DEF Within
        <4>. QED BY <2>3, <4>1, <4>4, <4>5, LoadedPays
      <3>. QED BY <3>1, <3>2
    <2>4. /\ execs' = execs
          /\ \A i \in DOMAIN stateChan' : \E j \in DOMAIN stateChan : stateChan'[i] = stateChan[j]
      BY <1>0 DEF Brings
    <2>. QED BY <1>3, <2>2, <2>3, <2>4 DEF Passes
  <1>. QED BY <1>0, <1>1, <1>2, <1>4, BudgetKept DEF EngineStep, Budget, Brings

\* StartTask: the task's execution is charged, and what is left is due to it.
LEMMA StartBudget ==
  ASSUME Distinct, IInv, Origin, Budget, EngineStep, NEW d \in DOMAIN tasks, StartTask(d)
  PROVE  Budget'
  <1>1. /\ DOMAIN tasks' = DOMAIN tasks /\ \A t \in DOMAIN tasks : t # d => tasks'[t] = tasks[t]
        /\ tasks'[d].started /\ ~tasks[d].started
        /\ DOMAIN rows' = DOMAIN rows \cup {d[1]} /\ rows'[d[1]] = ToExported(tasks'[d])
        /\ \A n \in DOMAIN rows : n # d[1] => rows'[n] = rows[n]
    BY DEF StartTask, MayStart, IInv, TypeOK, TaskState, Put
  <1>2. /\ UNCHANGED <<stateChan, pending, calls, retryCommands, pc, answer>>
        /\ execs' = execs \cup {Execution(d)}
        /\ Execution(d).def = d /\ Execution(d).retryCount = tasks[d].retryCount
    BY DEF StartTask, Execution
  <1>3. \A n : Queued(n)' = Queued(n) /\ Calls(n)' = Calls(n)
    BY <1>2 DEF Queued, Calls
  <1>4. \A x \in execs : x.def # d
    BY <1>1 DEF IInv, OneExecutionPerTask, Running
  <1>5. \A n : {x \in execs' \ execs : x.def[1] = n} = (IF n = d[1] THEN {Execution(d)} ELSE {})
    BY <1>2, <1>4
  <1>6. \A n \in Name : starts'[n] = (IF n = d[1] THEN starts[n] + 1 ELSE starts[n])
    <2>1. Cardinality({Execution(d)}) = 1 /\ Cardinality({}) = 0
      BY FS_Singleton, FS_EmptySet
    <2>2. \A n \in Name : Cardinality({x \in execs' \ execs : x.def[1] = n})
                              = (IF n = d[1] THEN 1 ELSE 0)
      BY <1>5, <2>1
    <2>3. \A n \in Name : starts[n] + 0 = starts[n]
      BY DEF Budget
    <2>. QED BY <2>2, <2>3 DEF EngineStep
  <1>7. starts' \in [Name -> Nat]
    <2>1. starts' = [n \in Name |-> starts'[n]]
      BY DEF EngineStep
    <2>. QED BY <1>6, <2>1 DEF Budget
  <1>8. ASSUME NEW n \in Name \ Expansion PROVE Within(n, Spare(n))'
    <2>. PICK s \in Int : s = Spare(n)
      BY SpareInt
    <2>1. Within(n, s)
      BY DEF Budget
    <2>2. CASE n # d[1]
      <3>1. Spare(n)' \in Int /\ Spare(n)' >= s
        BY <1>2, <1>3, <1>6, <2>2, SpareKept DEF Budget
      <3>2. PICK r \in Int : r = Spare(n)' /\ r >= s
        BY <3>1
      <3>3. Passes(n, r)
        BY <1>1, <1>2, <2>2 DEF Passes
      <3>4. Within(n, r)'
        BY <2>1, <3>2, <3>3, WithinKept
      <3>. QED BY <3>2, <3>4
    <2>3. CASE n = d[1]
      <3>1. PICK r \in Int : r = s - 1
        OBVIOUS
      <3>2. Spare(n)' = r
        <4>1. Calls(n) \in SUBSET Caller
          BY DEF Calls
        <4>2. PICK k \in Nat : k = Cardinality(Calls(n))
          BY <4>1, CallCount
        <4>3. PICK p \in Int : p = MaxRetries * (1 + k)
          BY WorkflowAssumption
        <4>4. /\ Spare(n) = p - starts[n] - (IF Queued(n) THEN MaxRetries ELSE 0)
              /\ Spare(n)' = p - (starts[n] + 1) - (IF Queued(n) THEN MaxRetries ELSE 0)
          BY <1>3, <1>6, <2>3, <4>2, <4>3 DEF Spare
        <4>5. starts[n] \in Nat /\ MaxRetries \in Nat
          BY WorkflowAssumption DEF Budget
        <4>. QED BY <3>1, <4>4, <4>5
      <3>3. Pays(s, tasks[d].retryCount)
        BY <1>1, <2>1, <2>3 DEF Within
      <3>4. r >= 0 /\ Pays(r + 1, tasks[d].retryCount)
        <4>1. s - 1 + 1 = s
          OBVIOUS
        <4>2. s >= 1
          BY <3>3, WorkflowAssumption DEF Pays
        <4>. QED BY <3>1, <3>3, <4>1, <4>2
      <3>5. \A t \in DOMAIN tasks : t[1] = n => t = d
        BY <2>3, NamesIdentify
      <3>6. \A x \in execs' : x.def[1] = n => Pays(r + 1, x.retryCount)
        <4>1. \A x \in execs : x.def[1] # n
          BY <1>4, <3>5 DEF IInv, TypeOK
        <4>. QED BY <1>2, <3>4, <4>1
      <3>7. \A i \in DOMAIN stateChan' : stateChan'[i].def[1] # n
        BY <1>1, <1>2, <3>5 DEF IInv, TypeOK, SingleMessage
      <3>8. n \in DOMAIN rows' /\ rows'[n].started
        BY <1>1, <2>3 DEF ToExported
      <3>9. \A t \in DOMAIN tasks' : t[1] = n => tasks'[t].started
        BY <1>1, <3>5
      <3>10. Within(n, r)'
        BY <3>4, <3>6, <3>7, <3>8, <3>9 DEF Within, Pays
      <3>. QED BY <3>2, <3>10
    <2>. QED BY <2>2, <2>3
  <1>9. /\ \A c \in Caller : calls'[c].pc = "idle" => calls'[c].name = "none"
        /\ phase' = phase /\ phase = "running"
    BY <1>2 DEF Budget, EngineStep
  <1>. QED BY <1>2, <1>7, <1>8, <1>9 DEF Budget, Marked

\* RequestRetry: what the call allows is due to its place in the queue.
LEMMA RequestBudget ==
  ASSUME ~OverlappingRetries, IInv, Budget, EngineStep, NEW c \in Caller, NEW name \in Name,
         RequestRetry(c, name)
  PROVE  Budget'
  <1>1. /\ UNCHANGED <<tasks, rows, pending, execs, stateChan, pc, answer>>
        /\ retryCommands' = Append(retryCommands, c) /\ ~RetryInFlight(name)
        /\ calls[c].pc = "idle" /\ calls[c].name = "none"
        /\ calls'[c].pc = "waiting" /\ calls'[c].name = name
        /\ \A b \in Caller : b # c => calls'[b] = calls[b]
    BY DEF RequestRetry, IInv, TypeOK, CallType, Budget
  <1>2. starts' = starts
    BY <1>1, NothingStarted
  <1>3. /\ DOMAIN retryCommands' = DOMAIN retryCommands \cup {Len(retryCommands) + 1}
        /\ \A i \in DOMAIN retryCommands : /\ retryCommands'[i] = retryCommands[i]
                                            /\ retryCommands[i] \in Caller \ {c}
        /\ retryCommands'[Len(retryCommands) + 1] = c
        /\ pc = "send" => answer.to \in Caller \ {c}
    <2>1. retryCommands \in Seq(Caller)
      BY DEF IInv, TypeOK
    <2>2. \A i \in DOMAIN retryCommands : retryCommands[i] # c
      BY <1>1 DEF IInv, SingleRetry
    <2>3. pc = "send" => answer.to \in Caller \ {c}
      BY <1>1 DEF IInv, GrantedRetry
    <2>. QED BY <1>1, <2>1, <2>2, <2>3, AppendEntries
  <1>4. ASSUME NEW n \in Name \ Expansion PROVE Within(n, Spare(n))'
    <2>. PICK s \in Int : s = Spare(n)
      BY SpareInt
    <2>1. Within(n, s)
      BY DEF Budget
    <2>2. Spare(n)' = s
      <3>1. CASE n # name
        <4>1. Calls(n)' = Calls(n)
          BY <1>1, <3>1, ReluiAssumption DEF Calls
        <4>2. Queued(n)' = Queued(n)
          BY <1>1, <1>3, <3>1 DEF Queued
        <4>. QED BY <1>2, <4>1, <4>2 DEF Spare
      <3>2. CASE n = name
        <4>1. Calls(n)' = Calls(n) \cup {c} /\ c \notin Calls(n) /\ Calls(n) \in SUBSET Caller
          BY <1>1, <3>2, ReluiAssumption DEF Calls
        <4>2. Queued(n)'
          BY <1>1, <1>3, <3>2 DEF Queued
        <4>3. ~Queued(n)
          BY <1>1, <1>3, <3>2 DEF Queued, RetryInFlight
        <4>4. PICK k \in Nat : k = Cardinality(Calls(n)) /\ Cardinality(Calls(n))' = k + 1
          BY <4>1, CallCount
        <4>5. /\ s = MaxRetries * (1 + k) - starts[n] - 0
              /\ Spare(n)' = MaxRetries * (1 + (k + 1)) - starts[n] - MaxRetries
          BY <1>2, <4>2, <4>3, <4>4 DEF Spare
        <4>6. \A M \in Nat : M * (1 + (k + 1)) = M * (1 + k) + M
          OBVIOUS
        <4>7. PICK p \in Int : p = MaxRetries * (1 + k)
          BY WorkflowAssumption
        <4>8. starts[n] \in Nat /\ MaxRetries \in Nat
          BY WorkflowAssumption DEF Budget
        <4>9. MaxRetries * (1 + (k + 1)) = p + MaxRetries
          BY <4>6, <4>7, <4>8
        <4>. QED BY <4>5, <4>7, <4>8, <4>9
      <3>. QED BY <3>1, <3>2
    <2>3. Passes(n, s)
      BY <1>1 DEF Passes
    <2>4. Within(n, s)'
      BY <2>1, <2>3, WithinKept
    <2>. QED BY <2>2, <2>4
  <1>5. \A b \in Caller : calls'[b].pc = "idle" => calls'[b].name = "none"
    BY <1>1 DEF Budget
  <1>6. phase' = phase /\ phase = "running"
    BY DEF EngineStep
  <1>. QED BY <1>1, <1>2, <1>4, <1>5, <1>6 DEF Budget, Marked

\* SendReset: what the call allows is now due to the message.
LEMMA SendResetBudget ==
  ASSUME IInv, Budget, EngineStep, SendReset
  PROVE  Budget'
  <1>. PICK name : name = calls[answer.to].name
    OBVIOUS
  <1>. PICK d : d = RetryTarget(name)
    OBVIOUS
  <1>. DEFINE e == [def |-> d, state |-> ResetState(0), expanded |-> {}]
  <1>1. /\ d \in wdef /\ d \in Def /\ d[1] = name
        /\ \A i \in DOMAIN retryCommands : calls[retryCommands[i]].name # name
    BY DEF IInv, TypeOK, GrantedRetry, SendReset
  <1>2. e \in MessageType /\ e.def = d /\ e.state.retryCount = 0
    BY <1>1, StatesTyped DEF MessageType, ResetState
  <1>3. /\ stateChan' = Append(stateChan, e) /\ pc = "send" /\ pc' = "reply"
        /\ UNCHANGED <<tasks, rows, pending, execs, calls, retryCommands, answer>>
    BY DEF SendReset
  <1>. HIDE DEF e
  <1>4. /\ DOMAIN stateChan' = DOMAIN stateChan \cup {Len(stateChan) + 1}
        /\ \A i \in DOMAIN stateChan : stateChan'[i] = stateChan[i]
        /\ stateChan'[Len(stateChan) + 1] = e
    <2>1. stateChan \in Seq(MessageType)
      BY DEF IInv, TypeOK
    <2>. QED BY <1>2, <1>3, <2>1, AppendEntries
  <1>5. starts' = starts
    BY <1>3, NothingStarted
  <1>6. ASSUME NEW n \in Name \ Expansion PROVE Within(n, Spare(n))'
    <2>. PICK s \in Int : s = Spare(n)
      BY SpareInt
    <2>1. Within(n, s)
      BY DEF Budget
    <2>2. Calls(n)' = Calls(n) /\ (Queued(n)' => Queued(n))
      BY <1>3 DEF Calls, Queued
    <2>3. CASE n # name
      <3>1. PICK r \in Int : r = Spare(n)' /\ r >= s
        BY <1>3, <1>5, <2>2, SpareKept DEF Budget
      <3>2. Passes(n, r)
        BY <1>1, <1>2, <1>3, <1>4, <2>3 DEF Passes
      <3>3. Within(n, r)'
        BY <2>1, <3>1, <3>2, WithinKept
      <3>. QED BY <3>1, <3>3
    <2>4. CASE n = name
      <3>1. Queued(n) /\ ~Queued(n)'
        BY <1>1, <1>3, <2>4 DEF Queued
      <3>2. PICK r \in Int : r = s + MaxRetries
        BY WorkflowAssumption
      <3>3. Spare(n)' = r
        <4>1. Calls(n) \in SUBSET Caller
          BY DEF Calls
        <4>2. PICK k \in Nat : k = Cardinality(Calls(n))
          BY <4>1, CallCount
        <4>3. PICK p \in Int : p = MaxRetries * (1 + k)
          BY WorkflowAssumption
        <4>4. s = p - starts[n] - MaxRetries /\ Spare(n)' = p - starts[n] - 0
          BY <1>5, <2>2, <3>1, <4>2, <4>3 DEF Spare
        <4>5. starts[n] \in Nat /\ MaxRetries \in Nat
          BY WorkflowAssumption DEF Budget
        <4>. QED BY <3>2, <4>4, <4>5
      <3>4. r >= s /\ Pays(r, 0)
        BY <2>1, <3>2, WorkflowAssumption DEF Within, Pays
      <3>5. Passes(n, r)
        BY <1>2, <1>3, <1>4, <3>4 DEF Passes
      <3>6. Within(n, r)'
        BY <2>1, <3>4, <3>5, WithinKept
      <3>. QED BY <3>3, <3>6
    <2>. QED BY <2>3, <2>4
  <1>7. phase' = phase /\ phase = "running"
    BY DEF EngineStep
  <1>. QED BY <1>3, <1>5, <1>6, <1>7 DEF Budget, Marked

LEMMA EngineBudget ==
  ASSUME ~OverlappingRetries, Distinct, ReluiInv, Budget, EngineStep
  PROVE  Budget'
  <1>. USE DEF ReluiInv
  <1>0. \A i \in DOMAIN retryCommands : retryCommands[i] \in Caller
    <2>1. retryCommands \in Seq(Caller)
      BY DEF IInv, TypeOK
    <2>. QED BY <2>1
  <1>1. CASE \E d \in DOMAIN tasks : CreateTask(d) \/ StartTask(d)
    BY <1>1, CreateBudget, StartBudget
  <1>2. CASE ReceiveState
    BY <1>2, ReceiveStateBudget
  <1>3. CASE ReceiveExpansion
    BY <1>3, ReceiveExpansionBudget DEF Parts
  <1>4. CASE SendReset
    BY <1>4, SendResetBudget
  <1>5. CASE \E x \in execs : ExecutionStep(x)
    BY <1>5, FinishBudget
  <1>6. CASE \E c \in Caller : \E name \in Name : RequestRetry(c, name)
    BY <1>6, RequestBudget
  <1>7. CASE Counted \/ Started \/ ReceiveDone
    <2>1. /\ UNCHANGED <<tasks, rows, pending, execs, stateChan, calls, retryCommands>>
          /\ pc' # "send"
      BY <1>7 DEF Counted, Started, ReceiveDone, AfterStarts
    <2>2. SameCalls /\ NoneQueued
      BY <2>1 DEF SameCalls, NoneQueued, Queued
    <2>. QED BY <2>1, <2>2, BudgetMoves
  <1>8. CASE ReceiveRetry
    <2>1. retryCommands \in Seq(Caller) /\ retryCommands # <<>>
      BY <1>8 DEF IInv, TypeOK, ReceiveRetry
    <2>2. /\ UNCHANGED <<tasks, rows, pending, execs, stateChan, calls>>
          /\ retryCommands' = Tail(retryCommands) /\ answer'.to = Head(retryCommands)
      BY <1>8 DEF ReceiveRetry
    <2>3. /\ 1 \in DOMAIN retryCommands /\ Head(retryCommands) = retryCommands[1]
          /\ \A i \in DOMAIN retryCommands' : /\ i + 1 \in DOMAIN retryCommands
                                               /\ retryCommands'[i] = retryCommands[i + 1]
      BY <2>1, <2>2, TailEntries
    <2>4. SameCalls /\ NoneQueued
      BY <2>2, <2>3 DEF SameCalls, NoneQueued, Queued
    <2>. QED BY <2>2, <2>4, BudgetMoves
  <1>9. CASE SendReply
    <2>1. /\ UNCHANGED <<tasks, rows, pending, execs, stateChan, retryCommands>> /\ pc' # "send"
      BY <1>9 DEF SendReply
    <2>2. \A c \in Caller : /\ calls'[c].name = calls[c].name
                            /\ calls'[c].pc = "idle" => calls[c].pc = "idle"
      BY <1>9 DEF SendReply, IInv, TypeOK, CallType
    <2>3. \A i \in DOMAIN retryCommands : retryCommands[i] \in Caller
      BY <1>0
    <2>4. SameCalls /\ NoneQueued
      BY <2>1, <2>2, <2>3 DEF SameCalls, NoneQueued, Queued
    <2>. QED BY <2>1, <2>4, BudgetMoves
  <1>10. CASE \E c \in Caller : AbandonRetry(c)
    <2>1. /\ UNCHANGED <<tasks, rows, pending, execs, stateChan, retryCommands, pc, answer>>
      BY <1>10 DEF AbandonRetry
    <2>2. \A c \in Caller : /\ calls'[c].name = calls[c].name
                            /\ calls'[c].pc = "idle" => calls[c].pc = "idle"
      <3>1. PICK b \in Caller : AbandonRetry(b)
        BY <1>10
      <3>2. \A c \in Caller : calls[c] \in CallType
        BY DEF IInv, TypeOK
      <3>3. calls' = [calls EXCEPT ![b].pc = "gone"] /\ calls \in [Caller -> CallType]
        BY <3>1 DEF AbandonRetry, IInv, TypeOK
      <3>. QED BY <3>2, <3>3 DEF CallType
    <2>3. /\ \A i \in DOMAIN retryCommands : retryCommands[i] \in Caller
          /\ pc = "send" => answer.to \in Caller
      BY <1>0 DEF IInv, GrantedRetry
    <2>4. SameCalls /\ NoneQueued
      BY <2>1, <2>2, <2>3 DEF SameCalls, NoneQueued, Queued
    <2>. QED BY <2>1, <2>4, BudgetMoves
  <1>. QED BY <1>1, <1>2, <1>3, <1>4, <1>5, <1>6, <1>7, <1>8, <1>9, <1>10 DEF EngineStep, RunStep

LEMMA BudgetInit == ReluiInit => Budget
  <1>. SUFFICES ASSUME ReluiInit PROVE Budget
    OBVIOUS
  <1>. USE DEF ReluiInit
  <1>1. /\ \A c \in Caller : calls[c].name = "none"
        /\ DOMAIN retryCommands = {} /\ DOMAIN stateChan = {} /\ execs = {} /\ pc = "create"
        /\ DOMAIN rows = {} /\ \A d \in DOMAIN tasks : tasks[d].retryCount = 0
    BY DEF Init, EmptyFcn, Fresh
  <1>2. ASSUME NEW n \in Name PROVE Within(n, Spare(n))
    <2>1. Calls(n) = {} /\ ~Queued(n) /\ starts[n] = 0
      BY <1>1, ReluiAssumption DEF Calls, Queued
    <2>2. Cardinality(Calls(n)) = 0
      BY <2>1, FS_EmptySet
    <2>3. Spare(n) = MaxRetries
      BY <2>1, <2>2, WorkflowAssumption DEF Spare
    <2>4. Pays(MaxRetries, 0)
      BY WorkflowAssumption DEF Pays
    <2>5. Within(n, MaxRetries)
      BY <1>1, <2>4, WorkflowAssumption DEF Within
    <2>. QED BY <2>3, <2>5
  <1>. QED BY <1>1, <1>2 DEF Budget, Active

LEMMA BudgetNext ==
  ASSUME ~OverlappingRetries, Distinct, ReluiInv, Budget, [ReluiNext]_allVars
  PROVE  Budget'
  <1>. USE DEF ReluiInv
  <1>1. CASE EngineStep
    BY <1>1, EngineBudget
  <1>2. CASE \/ StopWorkflow \/ OtherFinishFails \/ Enqueue \/ Dequeue \/ Finish \/ FinishFails
             \/ WorkerStops \/ Restart \/ ResumeFails \/ UNCHANGED allVars
    <2>1. UNCHANGED <<engineVars, calls, rows, starts>>
      BY <1>2 DEF StopWorkflow, Cancel, OtherFinishFails, Enqueue, Dequeue, Finish, FinishFails,
         WorkerStops, Restart, ResumeFails, engineVars, vars, allVars, reluiVars
    <2>2. SameCalls /\ NoneQueued /\ AllPass
      BY <2>1 DEF SameCalls, NoneQueued, Queued, AllPass, Passes, engineVars
    <2>3. phase' \in Active => phase \in Active
      BY <1>2 DEF StopWorkflow, OtherFinishFails, Enqueue, Dequeue, Finish, FinishFails,
         WorkerStops, Restart, ResumeFails, allVars, reluiVars, Active
    <2>4. phase' = "marked" => phase = "marked"
      BY <1>2 DEF StopWorkflow, OtherFinishFails, Enqueue, Dequeue, Finish, FinishFails,
         WorkerStops, Restart, ResumeFails, allVars, reluiVars
    <2>. QED BY <2>1, <2>2, <2>3, <2>4, BudgetKept DEF Budget, engineVars
  <1>3. CASE FailUnfinishedTasks
    <2>1. UNCHANGED <<engineVars, calls, starts>> /\ phase' = "marked"
      BY <1>3 DEF FailUnfinishedTasks
    <2>2. DOMAIN rows' = DOMAIN rows
          /\ \A n \in DOMAIN rows : /\ rows'[n].started = rows[n].started
                                    /\ rows'[n].retryCount = rows[n].retryCount
                                    /\ rows[n].started => rows'[n].finished
      <3>1. \A n \in DOMAIN rows : rows[n] \in Row
        BY DEF IInv, TypeOK
      <3>. QED BY <1>3, <3>1 DEF FailUnfinishedTasks, Row
    <2>3. AllPass
      <3>. SUFFICES ASSUME NEW n \in Name \ Expansion, NEW s, s = Spare(n) PROVE Passes(n, s)
        BY DEF AllPass
      <3>1. Within(n, s)
        BY DEF Budget
      <3>2. n \in DOMAIN rows' => rows'[n].started \/ Pays(s, rows'[n].retryCount)
        BY <2>2, <3>1 DEF Within
      <3>. QED BY <2>1, <2>2, <3>2 DEF Passes, engineVars
    <2>4. SameCalls /\ NoneQueued
      BY <2>1 DEF SameCalls, NoneQueued, Queued, engineVars
    <2>5. Marked(rows')
      BY <2>2 DEF Marked
    <2>. QED BY <2>1, <2>3, <2>4, <2>5, BudgetKept DEF Budget, Active
  <1>4. CASE StartWorkflow
    <2>1. /\ UNCHANGED <<calls, rows, starts, retryCommands, pc, answer, execs, stateChan, pending>>
          /\ phase' = "loaded" /\ phase = "none" /\ wfRow = "absent"
          /\ tasks' = [d \in InitialDefs |-> Fresh]
      BY <1>4 DEF StartWorkflow
    <2>2. rows = EmptyFcn /\ pending = EmptyFcn
      BY <2>1 DEF Control
    <2>3. AllPass
      <3>. SUFFICES ASSUME NEW n \in Name \ Expansion, NEW s, s = Spare(n) PROVE Passes(n, s)
        BY DEF AllPass
      <3>1. Within(n, s) /\ n \notin DOMAIN rows
        BY <2>2 DEF Budget, EmptyFcn
      <3>2. \A d \in DOMAIN tasks' : Pays(s, tasks'[d].retryCount)
        BY <2>1, <3>1 DEF Within, Fresh
      <3>. QED BY <2>1, <3>2 DEF Passes
    <2>4. SameCalls /\ NoneQueued
      BY <2>1 DEF SameCalls, NoneQueued, Queued
    <2>5. Marked(pending')
      BY <2>1, <2>2 DEF Marked, EmptyFcn
    <2>. QED BY <2>1, <2>3, <2>4, <2>5, BudgetKept
  <1>5. CASE Resume
    <2>1. /\ UNCHANGED <<calls, rows, starts, retryCommands, pc, answer, execs, stateChan>>
          /\ phase' = "loaded" /\ phase = "marked" /\ pending' = rows
          /\ tasks' = [d \in InitialDefs |-> LoadTaskState(rows, d)]
      BY <1>5 DEF Resume
    <2>2. Marked(rows) /\ rows \in [DOMAIN rows -> Row]
      BY <2>1 DEF Budget, IInv, TypeOK
    <2>3. AllPass
      <3>. SUFFICES ASSUME NEW n \in Name \ Expansion, NEW s, s = Spare(n) PROVE Passes(n, s)
        BY DEF AllPass
      <3>1. Within(n, s)
        BY DEF Budget
      <3>2. InitialDefs \subseteq Def
        BY WorkflowAssumption DEF InitialDefs, DefOf, Def
      <3>3. ASSUME NEW d \in DOMAIN tasks', d[1] = n
            PROVE  tasks'[d].started \/ Pays(s, tasks'[d].retryCount)
        <4>1. d \in Def /\ tasks'[d] = LoadTaskState(rows, d)
          BY <2>1, <3>2, <3>3
        <4>2. /\ n \notin DOMAIN rows => Pays(s, 0)
              /\ n \in DOMAIN rows /\ ~rows[n].started => Pays(s, rows[n].retryCount)
          BY <3>1 DEF Within
        <4>. QED BY <2>2, <3>3, <4>1, <4>2, LoadedPays
      <3>. QED BY <2>1, <3>3 DEF Passes
    <2>4. SameCalls /\ NoneQueued
      BY <2>1 DEF SameCalls, NoneQueued, Queued
    <2>5. Marked(pending') /\ phase' # "marked"
      BY <2>1, <2>2
    <2>. QED BY <2>1, <2>3, <2>4, <2>5, BudgetKept
  <1>6. CASE Crash
    <2>1. /\ UNCHANGED <<rows, starts>> /\ phase' = "none"
          /\ DOMAIN tasks' = {} /\ execs' = {} /\ DOMAIN stateChan' = {}
          /\ DOMAIN retryCommands' = {} /\ pc' = "create"
      BY <1>6 DEF Crash, EmptyFcn
    <2>2. SameCalls
      <3>1. \A c \in Caller : calls[c] \in CallType
        BY DEF IInv, TypeOK
      <3>. QED BY <1>6, <3>1 DEF Crash, SameCalls, CallType
    <2>3. NoneQueued /\ AllPass
      BY <2>1 DEF NoneQueued, Queued, AllPass, Passes
    <2>. QED BY <2>1, <2>2, <2>3, BudgetKept DEF Active
  <1>. QED BY <1>1, <1>2, <1>3, <1>4, <1>5, <1>6 DEF ReluiNext, WorkerStep

\* MaxRetries bounds the automatic retries of runTask through every crash, because
\* the retry count is stored with the row: a task executes at most MaxRetries times
\* for the start of the workflow and for each RetryTask call that names it.
THEOREM RetriesAreBounded ==
  ASSUME ~OverlappingRetries, Distinct
  PROVE  ReluiSpec => []LifetimeBudget
  <1>1. Budget /\ ReluiInv /\ [ReluiNext]_allVars => Budget'
    BY BudgetNext
  <1>2. Budget => LifetimeBudget
    <2>. SUFFICES ASSUME Budget, NEW n \in Name \ Expansion
                  PROVE  starts[n] <= MaxRetries * (1 + Cardinality(Calls(n)))
      BY DEF LifetimeBudget, Calls
    <2>1. Calls(n) \in SUBSET Caller /\ starts[n] \in Nat /\ MaxRetries \in Nat
      BY WorkflowAssumption DEF Calls, Budget
    <2>2. PICK k \in Nat : k = Cardinality(Calls(n))
      BY <2>1, CallCount
    <2>3. PICK p \in Int : p = MaxRetries * (1 + k)
      BY <2>1
    <2>4. Spare(n) >= 0 /\ Spare(n) = p - starts[n] - (IF Queued(n) THEN MaxRetries ELSE 0)
      BY <2>2, <2>3 DEF Budget, Within, Spare
    <2>5. starts[n] <= p
      BY <2>1, <2>4
    <2>. QED BY <2>2, <2>3, <2>5
  <1>. QED BY <1>1, <1>2, BudgetInit, ReluiInvariant, PTL DEF ReluiSpec

-----------------------------------------------------------------------------
(***************************************************************************)
(* What holds of the signing server for any number of tasks, streams and   *)
(* messages: an ID is registered exactly while its answer is awaited, and  *)
(* a task returns what the job of its own attempt made.                    *)
(*                                                                         *)
(* The inductive invariant follows a message: Registered says where its    *)
(* channel is, Requests what the copies of it in streams and at the client *)
(* have to do with the caller, Channels what an answer in the channel      *)
(* means, and Jobs that a job is started once.                             *)
(***************************************************************************)

Stages == {"idle", "sign", "status", "tick", "cancel", "signed"}

\* A request in a stream or at the client.
InFlight(req) == req \in seen \/ \E s \in Stream : sender[s] = "send" /\ held[s] = req

Types ==
  /\ stage \in [Signer -> Stages]
  /\ do \in [Signer -> {"none", "send", "wait"}]
  /\ sent \in [Signer -> 0..MaxMessages]
  /\ DOMAIN job = Signer /\ DOMAIN asked = Signer /\ DOMAIN outcome = Signer
  /\ callback \subseteq Message
  /\ DOMAIN respCh = Message
  /\ jobs \in [Message -> {"none", "refused", "running", "completed", "failed"}]
  /\ DOMAIN sender = Stream /\ DOMAIN held = Stream

\* A stage with a call has one; what the task knows of its job.
Stage(t) ==
  /\ do[t] # "none" => sent[t] \in 1..MaxMessages /\ stage[t] \in {"sign", "status", "cancel"}
  /\ stage[t] = "sign" => do[t] # "none" /\ asked[t] = <<t, sent[t]>>
  /\ stage[t] \in {"status", "tick"} =>
        job[t] = asked[t] /\ asked[t] \in Message /\ jobs[asked[t]] # "none"
  /\ stage[t] = "signed" =>
        outcome[t] = asked[t] /\ asked[t] \in Message /\ jobs[asked[t]] = "completed"

Registered(t) ==
  \A n \in 1..MaxMessages :
     <<t, n>> \in callback <=> do[t] # "none" /\ n = sent[t] /\ respCh[<<t, n>>] = NoAnswer

\* An answer that is in the channel of a call.
Channel(t) ==
  LET r == respCh[<<t, sent[t]>>]
  IN  /\ do[t] = "send" => r = NoAnswer
      /\ do[t] = "wait" /\ r # NoAnswer /\ stage[t] = "sign" /\ r.status = "started" =>
            r.job = asked[t] /\ jobs[asked[t]] # "none"
      /\ do[t] = "wait" /\ r # NoAnswer /\ stage[t] = "status" /\ r.status = "completed" =>
            r.job = asked[t] /\ jobs[asked[t]] = "completed"

\* A request in flight is no newer than its task's last one, and if it is that
\* one and is awaited, it says what the task asks.
Sound(req) ==
  /\ req.id \in Message /\ req.type \in {"sign", "status", "cancel"}
  /\ \A t \in Signer, n \in 1..MaxMessages : req.id = <<t, n>> =>
        /\ n <= sent[t]
        /\ n = sent[t] /\ do[t] # "none" =>
              do[t] = "wait" /\ req.type = stage[t] /\ (req.type = "status" => req.job = job[t])
  /\ req.type = "sign" => req.job = req.id
  /\ req.type = "status" => req.job \in Message /\ jobs[req.job] # "none"

\* A job is started by the one delivery of the request for it.
Jobs ==
  /\ \A t \in Signer, n \in 1..MaxMessages : jobs[<<t, n>>] # "none" =>
        /\ n <= sent[t]
        /\ do[t] = "send" => n # sent[t]
        /\ \A s \in Stream : sender[s] = "send" => held[s].id # <<t, n>>
  /\ \A req \in seen : req.type = "sign" => jobs[req.job] # "none"
  /\ \A s1, s2 \in Stream :
        sender[s1] = "send" /\ sender[s2] = "send" /\ s1 # s2 => held[s1].id # held[s2].id

SigningInv ==
  /\ Types
  /\ \A t \in Signer : Stage(t) /\ Registered(t) /\ Channel(t)
  /\ \A req : InFlight(req) => Sound(req)
  /\ Jobs
-----------------------------------------------------------------------------
\* Messages are pairs.
LEMMA MessageFacts ==
  /\ \A t \in Signer, n \in 1..MaxMessages : <<t, n>> \in Message
  /\ \A m \in Message : \E t \in Signer, n \in 1..MaxMessages : m = <<t, n>>
  BY DEF Message

\* Nothing has been asked in the beginning.
LEMMA SigningInitInv == SigningInit => SigningInv
  <1>. SUFFICES ASSUME SigningInit PROVE SigningInv
    OBVIOUS
  <1>. USE SigningAssumption
  <1>1. Types
    BY DEF SigningInit, Types, Stages
  <1>2. \A t \in Signer : Stage(t) /\ Registered(t) /\ Channel(t)
    BY DEF SigningInit, Stage, Registered, Channel
  <1>3. \A req : ~InFlight(req)
    BY DEF SigningInit, InFlight
  <1>4. Jobs
    BY MessageFacts DEF SigningInit, Jobs
  <1>. QED BY <1>1, <1>2, <1>3, <1>4 DEF SigningInv

\* A new message has an ID that nothing in flight has.
LEMMA RegisterInv ==
  ASSUME SigningInv, NEW t \in Signer, NEW from, NEW type,
         <<from, type>> \in {<<"idle", "sign">>, <<"status", "status">>, <<"cancel", "cancel">>},
         Register(t, from, type)
  PROVE  SigningInv'
  <1>. DEFINE k == sent[t] + 1
  <1>0. /\ type \in {"sign", "status", "cancel"} /\ stage[t] = from
        /\ type = "sign" => from = "idle"
        /\ type # "sign" => from = type
    BY DEF Register
  <1>1. /\ k \in 1..MaxMessages /\ sent[t] \in 0..MaxMessages /\ do[t] = "none"
        /\ sent' = [sent EXCEPT ![t] = k] /\ <<t, k>> \in Message
    BY SigningAssumption, MessageFacts DEF SigningInv, Types, Register
  <1>2. Types'
    BY <1>0, <1>1 DEF SigningInv, Types, Register, Move, MessageID, streamVars, clientVars, Stages
  <1>3. ASSUME NEW u \in Signer PROVE (Stage(u) /\ Registered(u) /\ Channel(u))'
    <2>0. Stage(u) /\ Registered(u) /\ Channel(u) /\ Stage(t)
      BY DEF SigningInv
    <2>1. Stage(u)'
      BY <2>0, <1>0, <1>1 DEF Stage, SigningInv, Types, Register, Move, clientVars
    <2>2. Registered(u)'
      BY <2>0, <1>1 DEF Registered, SigningInv, Types, Register, MessageID, Message
    <2>3. Channel(u)'
      BY <2>0, <1>0, <1>1 DEF Channel, Stage, SigningInv, Types, Register, MessageID, Move, Message, clientVars
    <2>. QED BY <2>1, <2>2, <2>3
  <1>4. ASSUME NEW req, InFlight(req)' PROVE Sound(req)'
    <2>1. InFlight(req) /\ Sound(req)
      BY <1>4 DEF InFlight, SigningInv, Register, streamVars, clientVars
    <2>. QED BY <2>1, <1>0, <1>1 DEF Sound, SigningInv, Types, Register, Move, clientVars
  <1>5. Jobs'
    <2>1. \A u \in Signer, n \in 1..MaxMessages : jobs[<<u, n>>] # "none" => n <= sent[u]
      BY DEF SigningInv, Jobs
    <2>. QED BY <2>1, <1>1 DEF Jobs, SigningInv, Types, Register, streamVars, clientVars
  <1>. QED BY <1>2, <1>3, <1>4, <1>5 DEF SigningInv

\* A stream takes the request of a call.
LEMMA HandInv ==
  ASSUME SigningInv, NEW t \in Signer, NEW s \in Stream, Hand(t, s)
  PROVE  SigningInv'
  <1>. DEFINE req0 == Request(t, stage[t], sent[t])
  <1>1. /\ do[t] = "send" /\ sender[s] = "select"
        /\ sent[t] \in 1..MaxMessages /\ stage[t] \in {"sign", "status", "cancel"}
        /\ <<t, sent[t]>> \in Message
    BY MessageFacts DEF SigningInv, Types, Stage, Hand
  <1>2. Types'
    BY DEF SigningInv, Types, Hand, callbackVars, clientVars
  <1>3. ASSUME NEW u \in Signer PROVE (Stage(u) /\ Registered(u) /\ Channel(u))'
    <2>0. Stage(u) /\ Registered(u) /\ Channel(u)
      BY DEF SigningInv
    <2>1. Stage(u)'
      BY <2>0, <1>1 DEF Stage, SigningInv, Types, Hand, clientVars
    <2>2. Registered(u)'
      BY <2>0, <1>1 DEF Registered, SigningInv, Types, Hand, callbackVars
    <2>3. Channel(u)'
      BY <2>0, <1>1 DEF Channel, SigningInv, Types, Hand, callbackVars, clientVars
    <2>. QED BY <2>1, <2>2, <2>3
  <1>4. /\ req0.id = <<t, sent[t]>> /\ req0.type = stage[t]
        /\ stage[t] = "sign" => req0.job = req0.id
        /\ stage[t] # "sign" => req0.job = job[t]
    BY DEF Request, MessageID
  <1>5. \A req : InFlight(req) => req.id # <<t, sent[t]>>
    BY <1>1 DEF SigningInv, Sound
  <1>6. ASSUME NEW req, InFlight(req)' PROVE Sound(req)'
    <2>1. InFlight(req) \/ req = req0
      BY <1>6 DEF InFlight, Hand, SigningInv, Types, clientVars
    <2>2. CASE InFlight(req)
      BY <2>2, <1>1, <1>5 DEF SigningInv, Sound, Types, Hand, clientVars
    <2>3. CASE req = req0
      <3>1. stage[t] = "status" => job[t] \in Message /\ jobs[job[t]] # "none"
        BY DEF SigningInv, Stage
      <3>. QED BY <2>3, <3>1, <1>1, <1>4 DEF SigningInv, Sound, Types, Hand, clientVars, Message
    <2>. QED BY <2>1, <2>2, <2>3
  <1>7. Jobs'
    <2>1. \A r \in Stream : sender'[r] = "send" =>
             \/ r = s /\ held'[r].id = <<t, sent[t]>>
             \/ r # s /\ sender[r] = "send" /\ held'[r] = held[r] /\ held[r].id # <<t, sent[t]>>
      BY <1>1, <1>4, <1>5 DEF SigningInv, Types, Hand, InFlight
    <2>. QED BY <2>1, <1>1 DEF SigningInv, Jobs, Types, Hand, clientVars
  <1>. QED BY <1>2, <1>3, <1>6, <1>7 DEF SigningInv

\* A call ends with its registration.
LEMMA GiveUpInv ==
  ASSUME SigningInv, NEW t \in Signer, GiveUp(t)
  PROVE  SigningInv'
  <1>1. /\ do[t] # "none" /\ stage[t] \in {"sign", "status", "cancel"}
        /\ stage' = [stage EXCEPT ![t] = IF stage[t] = "status" THEN "tick" ELSE "idle"]
    BY DEF SigningInv, Stage, GiveUp, Move, AfterError
  <1>2. Types'
    BY <1>1 DEF SigningInv, Types, GiveUp, streamVars, clientVars, Stages
  <1>3. ASSUME NEW u \in Signer PROVE (Stage(u) /\ Registered(u) /\ Channel(u))'
    <2>0. Stage(u) /\ Registered(u) /\ Channel(u)
      BY DEF SigningInv
    <2>1. Stage(u)'
      BY <2>0, <1>1 DEF Stage, SigningInv, Types, GiveUp, clientVars
    <2>2. Registered(u)'
      BY <2>0, <1>1 DEF Registered, SigningInv, Types, GiveUp, ID, MessageID
    <2>3. Channel(u)'
      BY <2>0, <1>1 DEF Channel, SigningInv, Types, GiveUp, clientVars
    <2>. QED BY <2>1, <2>2, <2>3
  <1>4. ASSUME NEW req, InFlight(req)' PROVE Sound(req)'
    <2>1. InFlight(req) /\ Sound(req)
      BY <1>4 DEF InFlight, SigningInv, GiveUp, streamVars, clientVars
    <2>. QED BY <2>1, <1>1 DEF Sound, SigningInv, Types, GiveUp, clientVars
  <1>5. Jobs'
    BY DEF Jobs, SigningInv, Types, GiveUp, streamVars, clientVars
  <1>. QED BY <1>2, <1>3, <1>4, <1>5 DEF SigningInv

\* A call takes its answer.
LEMMA ReceiveInv ==
  ASSUME SigningInv, NEW t \in Signer, Receive(t)
  PROVE  SigningInv'
  <1>. DEFINE r == respCh[<<t, sent[t]>>]
              next == AfterAnswer(t, r.status)
  <1>0. Stage(t) /\ Registered(t) /\ Channel(t)
    BY DEF SigningInv
  <1>1. /\ do[t] = "wait" /\ stage[t] \in {"sign", "status", "cancel"} /\ r # NoAnswer
        /\ sent[t] \in 1..MaxMessages /\ <<t, sent[t]>> \in Message
        /\ do' = [do EXCEPT ![t] = "none"]
        /\ respCh' = [respCh EXCEPT ![<<t, sent[t]>>] = NoAnswer]
        /\ stage' = [stage EXCEPT ![t] = next]
        /\ job' = [job EXCEPT ![t] = IF next = "status" THEN r.job ELSE @]
        /\ outcome' = [outcome EXCEPT ![t] = IF next = "signed" THEN r.job ELSE @]
        /\ UNCHANGED <<sent, asked, callback, sender, held, seen, jobs>>
    BY <1>0, MessageFacts DEF Stage, Receive, Move, ID, MessageID, streamVars, clientVars
  <1>2. /\ next \in Stages \ {"sign"}
        /\ next = "status" => stage[t] = "sign" /\ r.status = "started"
        /\ next = "tick" => stage[t] = "status"
        /\ next = "signed" => stage[t] = "status" /\ r.status = "completed"
    BY <1>1 DEF AfterAnswer, Stages
  <1>3. /\ next = "status" => r.job = asked[t] /\ asked[t] \in Message /\ jobs[asked[t]] # "none"
        /\ next = "signed" =>
              r.job = asked[t] /\ asked[t] \in Message /\ jobs[asked[t]] = "completed"
    BY <1>0, <1>1, <1>2 DEF Channel, Stage
  <1>. HIDE DEF next, r
  <1>4. Types'
    BY <1>1, <1>2 DEF SigningInv, Types
  <1>5. ASSUME NEW u \in Signer PROVE (Stage(u) /\ Registered(u) /\ Channel(u))'
    <2>0. Stage(u) /\ Registered(u) /\ Channel(u)
      BY DEF SigningInv
    <2>1. Stage(u)'
      BY <2>0, <1>1, <1>2, <1>3 DEF Stage, SigningInv, Types
    <2>2. Registered(u)'
      <3>1. <<t, sent[t]>> \notin callback
        BY <1>0, <1>1 DEF Registered, r
      <3>. QED BY <3>1, <2>0, <1>1 DEF Registered, SigningInv, Types, Message
    <2>3. Channel(u)'
      BY <2>0, <1>1 DEF Channel, SigningInv, Types, Message
    <2>. QED BY <2>1, <2>2, <2>3
  <1>6. ASSUME NEW req, InFlight(req)' PROVE Sound(req)'
    <2>1. InFlight(req) /\ Sound(req)
      BY <1>6, <1>1 DEF InFlight, SigningInv
    <2>. QED BY <2>1, <1>1 DEF Sound, SigningInv, Types
  <1>7. Jobs'
    BY <1>1 DEF Jobs, SigningInv, Types
  <1>. QED BY <1>4, <1>5, <1>6, <1>7 DEF SigningInv

\* The ticker and the contexts.
LEMMA TickInv ==
  ASSUME SigningInv, NEW t \in Signer, Tick(t)
  PROVE  SigningInv'
  <1>1. /\ stage[t] = "tick" /\ stage'[t] \in {"status", "cancel"}
        /\ stage' = [stage EXCEPT ![t] = stage'[t]]
        /\ do[t] = "none"
        /\ UNCHANGED <<do, sent, job, asked, outcome, callback, respCh, sender, held, seen, jobs>>
    BY DEF SigningInv, Types, Stage, Tick, Move, callbackVars, streamVars, clientVars
  <1>2. Types'
    BY <1>1 DEF SigningInv, Types, Stages
  <1>3. \A u \in Signer : (Stage(u) /\ Registered(u) /\ Channel(u))'
    BY <1>1 DEF SigningInv, Types, Stage, Registered, Channel
  <1>4. ASSUME NEW req, InFlight(req)' PROVE Sound(req)'
    <2>1. InFlight(req) /\ Sound(req)
      BY <1>4, <1>1 DEF InFlight, SigningInv
    <2>. QED BY <2>1, <1>1 DEF Sound, SigningInv, Types
  <1>5. Jobs'
    BY <1>1 DEF Jobs, SigningInv, Types
  <1>. QED BY <1>2, <1>3, <1>4, <1>5 DEF SigningInv

\* Steps that leave everything the invariant speaks of as it is, or take a
\* stream out of sending.
LEMMA QuietInv ==
  ASSUME SigningInv,
         UNCHANGED <<stage, do, sent, job, asked, outcome, callback, respCh, clientVars>>,
         DOMAIN sender' = Stream, DOMAIN held' = Stream,
         \A s \in Stream : sender'[s] = "send" => sender[s] = "send" /\ held'[s] = held[s]
  PROVE  SigningInv'
  <1>1. Types'
    BY DEF SigningInv, Types, clientVars
  <1>2. \A u \in Signer : (Stage(u) /\ Registered(u) /\ Channel(u))'
    BY DEF SigningInv, Stage, Registered, Channel, clientVars
  <1>3. ASSUME NEW req, InFlight(req)' PROVE Sound(req)'
    <2>1. InFlight(req) /\ Sound(req)
      BY <1>3 DEF InFlight, SigningInv, clientVars
    <2>. QED BY <2>1 DEF Sound, clientVars
  <1>4. Jobs'
    BY DEF Jobs, SigningInv, clientVars
  <1>. QED BY <1>1, <1>2, <1>3, <1>4 DEF SigningInv

\* An answer, or the error of a stream, reaches the channel of its call at most.
LEMMA AnswerInv ==
  ASSUME SigningInv, NEW m \in Message, NEW r, r # NoAnswer,
         CallAndDeregister(m, r),
         \A t \in Signer : m = <<t, sent[t]>> /\ do[t] # "none" =>
            /\ do[t] = "wait"
            /\ stage[t] = "sign" /\ r.status = "started" =>
                  r.job = asked[t] /\ jobs[asked[t]] # "none"
            /\ stage[t] = "status" /\ r.status = "completed" =>
                  r.job = asked[t] /\ jobs[asked[t]] = "completed",
         UNCHANGED <<stage, do, sent, job, asked, outcome, clientVars>>,
         \/ UNCHANGED <<sender, held>>
         \/ \E s \in Stream : Sent(s, "gone")
  PROVE  SigningInv'
  <1>1. PICK v \in Signer, k \in 1..MaxMessages : m = <<v, k>>
    BY MessageFacts
  <1>2. /\ DOMAIN sender' = Stream /\ DOMAIN held' = Stream
        /\ \A s \in Stream : sender'[s] = "send" => sender[s] = "send" /\ held'[s] = held[s]
    BY DEF SigningInv, Types, Sent
  <1>3. Types'
    BY <1>2 DEF SigningInv, Types, CallAndDeregister, clientVars
  <1>4. ASSUME NEW u \in Signer PROVE (Stage(u) /\ Registered(u) /\ Channel(u))'
    <2>0. Stage(u) /\ Registered(u) /\ Channel(u)
      BY DEF SigningInv
    <2>1. Stage(u)'
      BY <2>0 DEF Stage, clientVars
    <2>2. Registered(u)'
      BY <2>0, <1>1 DEF Registered, SigningInv, Types, CallAndDeregister
    <2>3. Channel(u)'
      <3>1. m # <<u, sent[u]>> => respCh'[<<u, sent[u]>>] = respCh[<<u, sent[u]>>] 
        BY DEF CallAndDeregister, SigningInv, Types
      <3>2. CASE m # <<u, sent[u]>>
        BY <3>1, <3>2, <2>0 DEF Channel, clientVars
      <3>3. CASE m = <<u, sent[u]>>
        <4>1. respCh'[m] \in {r, respCh[m]}
          BY DEF CallAndDeregister, SigningInv, Types
        <4>. QED BY <4>1, <3>3, <2>0 DEF Channel, SigningInv, Types, clientVars
      <3>. QED BY <3>2, <3>3
    <2>. QED BY <2>1, <2>2, <2>3
  <1>5. ASSUME NEW req, InFlight(req)' PROVE Sound(req)'
    <2>1. InFlight(req) /\ Sound(req)
      BY <1>5, <1>2 DEF InFlight, SigningInv, clientVars
    <2>. QED BY <2>1 DEF Sound, clientVars
  <1>6. Jobs'
    BY <1>2 DEF Jobs, SigningInv, clientVars
  <1>. QED BY <1>3, <1>4, <1>5, <1>6 DEF SigningInv

\* A Send that fails answers its own request, and claims nothing.
LEMMA SendFailsInv ==
  ASSUME SigningInv, NEW s \in Stream, SendFails(s)
  PROVE  SigningInv'
  <1>. DEFINE r == [status |-> "error", job |-> NoMessage]
  <1>1. sender[s] = "send" /\ Sound(held[s]) /\ InFlight(held[s])
    BY DEF SendFails, Sent, SigningInv, InFlight
  <1>2. held[s].id \in Message /\ r # NoAnswer /\ r.status = "error"
    BY <1>1 DEF Sound, NoAnswer
  <1>3. \A t \in Signer : held[s].id = <<t, sent[t]>> /\ do[t] # "none" => do[t] = "wait"
    BY <1>1 DEF Sound, SigningInv, Stage
  <1>4. CallAndDeregister(held[s].id, r)
    BY DEF SendFails
  <1>5. UNCHANGED <<stage, do, sent, job, asked, outcome, clientVars>> /\ Sent(s, "gone")
    BY DEF SendFails, taskVars
  <1>. HIDE DEF r
  <1>. QED BY <1>2, <1>3, <1>4, <1>5, AnswerInv

\* What the client says is about the request it answers.
LEMMA RecvInv ==
  ASSUME SigningInv, NEW s \in Stream, Recv(s)
  PROVE  SigningInv'
  <1>0. PICK req \in seen : \E r \in Answers(req) : CallAndDeregister(req.id, r)
    BY DEF Recv
  <1>1. PICK r \in Answers(req) : CallAndDeregister(req.id, r)
    BY <1>0
  <1>2. Sound(req)
    BY DEF SigningInv, InFlight
  <1>3. /\ req.id \in Message /\ req.type \in {"sign", "status", "cancel"}
        /\ req.type = "sign" => req.job = req.id /\ jobs[req.job] # "none"
        /\ req.type = "status" => jobs[req.job] # "none"
    BY <1>2 DEF Sound, SigningInv, Jobs
  <1>4. PICK status : /\ r = [status |-> status, job |-> req.job]
                      /\ \/ req.type = "sign" /\ status \in {"failed", "started"}
                         \/ req.type = "status" /\ status \in {"running", jobs[req.job]}
                         \/ req.type = "cancel" /\ status = "running"
    BY <1>1, <1>3 DEF Answers
  <1>5. /\ r.job = req.job /\ r.status = status /\ status # "none"
        /\ status = "started" => req.type = "sign"
        /\ status = "completed" => req.type = "status" /\ jobs[req.job] = "completed"
    <2>1. req.type = "status" =>
             jobs[req.job] \in {"refused", "running", "completed", "failed"}
      BY <1>2, <1>3 DEF Sound, SigningInv, Types
    <2>. QED BY <2>1, <1>4
  <1>6. r # NoAnswer
    BY <1>5 DEF NoAnswer
  <1>7. ASSUME NEW t \in Signer, req.id = <<t, sent[t]>>, do[t] # "none"
        PROVE  /\ do[t] = "wait"
               /\ stage[t] = "sign" /\ r.status = "started" =>
                     r.job = asked[t] /\ jobs[asked[t]] # "none"
               /\ stage[t] = "status" /\ r.status = "completed" =>
                     r.job = asked[t] /\ jobs[asked[t]] = "completed"
    <2>1. /\ do[t] = "wait" /\ req.type = stage[t] /\ (req.type = "status" => req.job = job[t])
          /\ Stage(t)
      BY <1>2, <1>7 DEF Sound, SigningInv, Stage
    <2>. QED BY <2>1, <1>3, <1>5, <1>7 DEF Stage
  <1>8. UNCHANGED <<stage, do, sent, job, asked, outcome, clientVars, sender, held>>
    BY DEF Recv, taskVars, streamVars
  <1>. QED BY <1>1, <1>3, <1>6, <1>7, <1>8, AnswerInv

\* The client sees a request and, if it is to sign, starts the job.
LEMMA SendArrivesInv ==
  ASSUME SigningInv, NEW s \in Stream, SendArrives(s)
  PROVE  SigningInv'
  <1>. DEFINE req0 == held[s]
  <1>1. /\ sender[s] = "send" /\ InFlight(req0) /\ Sound(req0)
        /\ UNCHANGED <<stage, do, sent, job, asked, outcome, callback, respCh>>
        /\ seen' = seen \cup {req0}
        /\ DOMAIN sender' = Stream /\ DOMAIN held' = Stream
        /\ \A r \in Stream : sender'[r] = "send" => r # s /\ sender[r] = "send" /\ held'[r] = held[r]
    BY DEF SendArrives, Sent, SigningInv, InFlight, Types, taskVars, callbackVars
  <1>2. /\ req0.type = "sign" =>
              /\ req0.job \in Message /\ req0.id = req0.job /\ jobs[req0.job] = "none"
              /\ \E x \in {"running", "refused"} : jobs' = [jobs EXCEPT ![req0.job] = x]
        /\ req0.type # "sign" => jobs' = jobs
    <2>1. \A t \in Signer, n \in 1..MaxMessages : held[s].id = <<t, n>> => jobs[<<t, n>>] = "none"
      BY <1>1 DEF SigningInv, Jobs
    <2>2. req0.id \in Message
      BY <1>1 DEF Sound
    <2>. QED BY <1>1, <2>1, <2>2, MessageFacts DEF SendArrives, Sound
  <1>3. /\ jobs' \in [Message -> {"none", "refused", "running", "completed", "failed"}]
        /\ \A m \in Message : jobs[m] # "none" => jobs'[m] = jobs[m]
        /\ \A m \in Message : jobs'[m] # "none" => jobs[m] # "none" \/ m = req0.id
        /\ req0.type = "sign" => jobs'[req0.job] # "none"
    BY <1>2 DEF SigningInv, Types
  <1>. HIDE DEF req0
  <1>4. Types'
    BY <1>1, <1>3 DEF SigningInv, Types
  <1>5. ASSUME NEW u \in Signer PROVE (Stage(u) /\ Registered(u) /\ Channel(u))'
    <2>0. Stage(u) /\ Registered(u) /\ Channel(u)
      BY DEF SigningInv
    <2>1. Stage(u)'
      BY <2>0, <1>1, <1>3 DEF Stage
    <2>2. Registered(u)'
      BY <2>0, <1>1 DEF Registered
    <2>3. Channel(u)'
      <3>1. do[u] = "wait" /\ stage[u] \in {"sign", "status"} => asked[u] \in Message
        BY <2>0, MessageFacts DEF Stage
      <3>. QED BY <3>1, <2>0, <1>1, <1>3 DEF Channel
    <2>. QED BY <2>1, <2>2, <2>3
  <1>6. ASSUME NEW req, InFlight(req)' PROVE Sound(req)'
    <2>1. InFlight(req) /\ Sound(req)
      BY <1>6, <1>1 DEF InFlight, SigningInv
    <2>. QED BY <2>1, <1>1, <1>3 DEF Sound
  <1>7. Jobs'
    <2>1. ASSUME NEW t \in Signer, NEW n \in 1..MaxMessages, jobs'[<<t, n>>] # "none"
          PROVE  /\ n <= sent'[t]
                 /\ do'[t] = "send" => n # sent'[t]
                 /\ \A r \in Stream : sender'[r] = "send" => held'[r].id # <<t, n>>
      <3>1. CASE jobs[<<t, n>>] # "none"
        BY <3>1, <1>1 DEF SigningInv, Jobs
      <3>2. CASE <<t, n>> = req0.id
        <4>1. n <= sent[t] /\ (do[t] = "send" => n # sent[t])
          BY <3>2, <1>1 DEF Sound
        <4>2. \A r \in Stream : sender[r] = "send" /\ r # s => held[r].id # req0.id
          BY <1>1 DEF SigningInv, Jobs, req0
        <4>. QED BY <4>1, <4>2, <3>2, <1>1
      <3>. QED BY <3>1, <3>2, <2>1, <1>3, MessageFacts
    <2>2. ASSUME NEW req \in seen', req.type = "sign" PROVE jobs'[req.job] # "none"
      <3>1. CASE req = req0
        BY <3>1, <2>2, <1>3
      <3>2. CASE req \in seen
        <4>1. jobs[req.job] # "none" /\ req.job \in Message
          BY <3>2, <2>2 DEF SigningInv, Jobs, InFlight, Sound
        <4>. QED BY <4>1, <1>3
      <3>. QED BY <3>1, <3>2, <1>1
    <2>3. \A s1, s2 \in Stream :
             sender'[s1] = "send" /\ sender'[s2] = "send" /\ s1 # s2 => held'[s1].id # held'[s2].id
      BY <1>1 DEF SigningInv, Jobs
    <2>. QED BY <2>1, <2>2, <2>3 DEF Jobs
  <1>. QED BY <1>4, <1>5, <1>6, <1>7 DEF SigningInv

\* A job that is running ends.
LEMMA JobEndsInv ==
  ASSUME SigningInv, JobEnds
  PROVE  SigningInv'
  <1>1. /\ UNCHANGED <<stage, do, sent, job, asked, outcome, callback, respCh, sender, held, seen>>
        /\ jobs' \in [Message -> {"none", "refused", "running", "completed", "failed"}]
        /\ \A m \in Message : jobs[m] = "none" <=> jobs'[m] = "none"
        /\ \A m \in Message : jobs[m] = "completed" => jobs'[m] = "completed"
    BY DEF JobEnds, SigningInv, Types, taskVars, callbackVars, streamVars
  <1>2. Types'
    BY <1>1 DEF SigningInv, Types
  <1>3. ASSUME NEW u \in Signer PROVE (Stage(u) /\ Registered(u) /\ Channel(u))'
    <2>0. Stage(u) /\ Registered(u) /\ Channel(u)
      BY DEF SigningInv
    <2>1. do[u] = "wait" /\ stage[u] \in {"sign", "status"} => asked[u] \in Message
      BY <2>0, MessageFacts DEF Stage
    <2>. QED BY <2>0, <2>1, <1>1 DEF Stage, Registered, Channel
  <1>4. ASSUME NEW req, InFlight(req)' PROVE Sound(req)'
    <2>1. InFlight(req) /\ Sound(req)
      BY <1>4, <1>1 DEF InFlight, SigningInv
    <2>. QED BY <2>1, <1>1 DEF Sound
  <1>5. Jobs'
    <2>1. \A req \in seen : req.type = "sign" => req.job \in Message /\ jobs[req.job] # "none"
      BY DEF SigningInv, Jobs, InFlight, Sound
    <2>. QED BY <2>1, <1>1, MessageFacts DEF SigningInv, Jobs
  <1>. QED BY <1>2, <1>3, <1>4, <1>5 DEF SigningInv

-----------------------------------------------------------------------------
\* Every step keeps the invariant.
LEMMA SigningNextInv == SigningInv /\ [SigningNext]_signingVars => SigningInv'
  <1>. SUFFICES ASSUME SigningInv, [SigningNext]_signingVars PROVE SigningInv'
    OBVIOUS
  <1>. USE DEF taskVars, callbackVars, streamVars
  <1>1. ASSUME NEW t \in Signer, SignArtifact(t) \/ ArtifactSigningStatus(t) \/ CancelSigning(t)
        PROVE  SigningInv'
    BY <1>1, RegisterInv DEF SignArtifact, ArtifactSigningStatus, CancelSigning
  <1>2. ASSUME NEW t \in Signer, DoStep(t) PROVE SigningInv'
    BY <1>2, GiveUpInv, ReceiveInv DEF DoStep
  <1>3. ASSUME NEW t \in Signer, Tick(t) PROVE SigningInv'
    BY <1>3, TickInv
  <1>4. ASSUME NEW t \in Signer, StopTask(t) \/ CallTimesOut(t) PROVE SigningInv'
    BY <1>4, QuietInv DEF StopTask, CallTimesOut, SigningInv, Types
  <1>5. ASSUME NEW t \in Signer, NEW s \in Stream, Hand(t, s) PROVE SigningInv'
    BY <1>5, HandInv
  <1>6. ASSUME NEW s \in Stream, Connect(s) \/ SenderEnds(s) \/ RecvFails(s) PROVE SigningInv'
    BY <1>6, QuietInv DEF Connect, SenderEnds, RecvFails, SigningInv, Types
  <1>7. ASSUME NEW s \in Stream, SendIsLost(s) PROVE SigningInv'
    BY <1>7, QuietInv DEF SendIsLost, Sent, SigningInv, Types
  <1>8. ASSUME NEW s \in Stream, SendArrives(s) \/ SendFails(s) \/ Recv(s) PROVE SigningInv'
    BY <1>8, SendArrivesInv, SendFailsInv, RecvInv
  <1>9. CASE JobEnds
    BY <1>9, JobEndsInv
  <1>10. CASE UNCHANGED signingVars
    BY <1>10, QuietInv DEF signingVars, clientVars, SigningInv, Types
  <1>. QED BY <1>1, <1>2, <1>3, <1>4, <1>5, <1>6, <1>7, <1>8, <1>9, <1>10 DEF SigningNext

\* The invariant holds always.
THEOREM SigningInvariant == SigningSpec => []SigningInv
  BY SigningInitInv, SigningNextInv, PTL DEF SigningSpec

\* For any number of tasks and streams: callAndDeregister never blocks under its
\* lock, a caller that waits can be answered, and nothing stays registered.
THEOREM AwaitedIsRegistered == SigningSpec => []RegisteredWhileAwaited
  <1>1. SigningInv => RegisteredWhileAwaited
    <2>. SUFFICES ASSUME SigningInv PROVE RegisteredWhileAwaited
      OBVIOUS
    <2>. DEFINE R == {ID(t) : t \in {u \in Signer : do[u] # "none" /\ respCh[ID(u)] = NoAnswer}}
    <2>1. ASSUME NEW m \in callback PROVE m \in R
      <3>1. PICK t \in Signer, n \in 1..MaxMessages : m = <<t, n>>
        BY MessageFacts DEF SigningInv, Types
      <3>. QED BY <3>1 DEF SigningInv, Registered, ID, MessageID
    <2>2. ASSUME NEW m \in R PROVE m \in callback
      <3>1. PICK t \in Signer : m = <<t, sent[t]>> /\ do[t] # "none" /\ respCh[m] = NoAnswer
        BY <2>2 DEF ID, MessageID
      <3>. QED BY <3>1 DEF SigningInv, Stage, Registered
    <2>. QED BY <2>1, <2>2 DEF RegisteredWhileAwaited, SigningInv, Types
  <1>. QED BY <1>1, SigningInvariant, PTL

\* Whatever late, repeated and crossed answers there are, signArtifacts returns
\* the output of the job that this attempt of it started.
THEOREM OwnJobSigned == SigningSpec => []SignedIsOwn
  <1>1. SigningInv => SignedIsOwn
    BY DEF SigningInv, Stage, SignedIsOwn
  <1>. QED BY <1>1, SigningInvariant, PTL

-----------------------------------------------------------------------------
(***************************************************************************)
(* A deleted schedule is gone for good, for any number of schedules,       *)
(* requests and restarts.                                                  *)
(*                                                                         *)
(* The argument: IDs are never used twice, a request removes a schedule    *)
(* from memory before it removes the row, and until then nothing can put   *)
(* the schedule back into memory, because a schedule whose Create is still *)
(* under way is not in any list that a request could have found it in.     *)
(***************************************************************************)

Used == 1..(nextID - 1)

Kinds ==
  /\ nextID \in Nat \ {0}
  /\ recorded \subseteq Used /\ failed \subseteq Used /\ deleted \subseteq Used
  /\ entries \subseteq Used \cup {NoID}
  /\ creating \in Used \cup {NoID, NotCreating}
  /\ DOMAIN deleting = Deleter
  /\ DOMAIN started = {NoID} \cup ScheduleID

\* What a request has found, and that it removes first from memory.
Found(d) ==
  LET r == deleting[d]
  IN  /\ r.pc \in {"idle", "lock", "clear", "delete"}
      /\ r.pc # "idle" => r.id \in Used /\ r.entries \subseteq Used \cup {NoID}
      /\ r.pc # "idle" /\ creating \in Used => creating \notin r.entries
      /\ r.pc \in {"clear", "delete"} => r.id \notin entries \cup failed \cup {creating}

\* A schedule that is about to be scheduled is not scheduled.
Unscheduled == creating \in Used => creating \notin entries \cup failed \cup deleted

SchedInv ==
  /\ Kinds
  /\ \A d \in Deleter : Found(d)
  /\ Unscheduled
  /\ entries \cap failed = {}
  /\ DeletedIsGone

-----------------------------------------------------------------------------
\* Nothing is scheduled in the beginning.
LEMMA SchedInitInv == SchedInit => SchedInv
  BY DEF SchedInit, SchedInv, Kinds, Used, Found, Unscheduled, DeletedIsGone, NoID,
         NotCreating, NotDeleting

\* An ID that was never used, or none.
LEMMA CreateInv ==
  ASSUME SchedInv, CreateSchedule
  PROVE  SchedInv'
  <1>1. /\ nextID \in Nat \ {0} /\ nextID' = nextID + 1 /\ creating = NotCreating
        /\ Used' = Used \cup {nextID} /\ nextID \notin Used /\ nextID # NoID
        /\ UNCHANGED <<entries, failed, deleting, started, deleted>>
        /\ recorded' \subseteq recorded \cup {nextID}
        /\ creating' \in {NoID, nextID}
    BY DEF SchedInv, Kinds, CreateSchedule, Used, NoID
  <1>2. Kinds'
    BY <1>1 DEF SchedInv, Kinds
  <1>3. \A d \in Deleter : Found(d)'
    BY <1>1 DEF SchedInv, Kinds, Found, NoID, Used
  <1>4. Unscheduled'
    BY <1>1 DEF SchedInv, Kinds, Unscheduled, Used, NoID
  <1>5. (entries \cap failed = {})' /\ DeletedIsGone'
    BY <1>1 DEF SchedInv, Kinds, DeletedIsGone
  <1>. QED BY <1>2, <1>3, <1>4, <1>5 DEF SchedInv

\* The entry of a schedule that no list has.
LEMMA EntryInv ==
  ASSUME SchedInv, ScheduleEntry
  PROVE  SchedInv'
  <1>1. /\ creating \in Used \cup {NoID} /\ creating' = NotCreating
        /\ entries' = entries \cup {creating}
        /\ UNCHANGED <<recorded, nextID, failed, deleting, started, deleted>>
        /\ NotCreating \notin Used /\ NoID \notin Used
    BY DEF SchedInv, Kinds, ScheduleEntry, tableVars, Used, NotCreating, NoID
  <1>2. Kinds' /\ Used' = Used
    BY <1>1 DEF SchedInv, Kinds, Used
  <1>3. \A d \in Deleter : Found(d)'
    BY <1>1, <1>2 DEF SchedInv, Found, NotCreating, NoID, Used, Kinds
  <1>4. Unscheduled'
    BY <1>1, <1>2 DEF Unscheduled
  <1>5. (entries \cap failed = {})' /\ DeletedIsGone'
    BY <1>1 DEF SchedInv, Kinds, Unscheduled, DeletedIsGone
  <1>. QED BY <1>2, <1>3, <1>4, <1>5 DEF SchedInv

\* Jobs change nothing that is scheduled.
LEMMA JobInv ==
  ASSUME SchedInv, DOMAIN started' = DOMAIN started,
         UNCHANGED <<recorded, nextID, entries, failed, creating, deleting, deleted>>
  PROVE  SchedInv'
  BY DEF SchedInv, Kinds, Used, Found, Unscheduled, DeletedIsGone

\* A request goes on: it finds, gives up, or clears.
LEMMA ProceedInv ==
  ASSUME SchedInv, NEW d \in Deleter,
         \/ \E id \in ScheduleID : FindSchedule(d, id)
         \/ RemoveFails(d)
         \/ ClearWorkflowSchedule(d)
         \/ DeleteFails(d)
  PROVE  SchedInv'
  <1>1. UNCHANGED <<recorded, nextID, entries, failed, creating, started, deleted>>
    BY DEF FindSchedule, RemoveFails, ClearWorkflowSchedule, DeleteFails, tableVars
  <1>2. /\ DOMAIN deleting' = Deleter
        /\ \A e \in Deleter : e # d => deleting'[e] = deleting[e]
    BY DEF SchedInv, Kinds, FindSchedule, RemoveFails, ClearWorkflowSchedule, DeleteFails, Proceed
  <1>3. Found(d)'
    <2>0. Found(d)
      BY DEF SchedInv
    <2>1. CASE \E id \in ScheduleID : FindSchedule(d, id)
      <3>1. PICK id \in recorded :
               deleting'[d] = [pc |-> "lock", id |-> id, entries |-> entries, cleared |-> 0]
        BY <2>1 DEF SchedInv, Kinds, FindSchedule
      <3>2. /\ deleting'[d].pc = "lock" /\ deleting'[d].id \in recorded
            /\ deleting'[d].entries = entries
        BY <3>1
      <3>3. recorded \subseteq Used /\ entries \subseteq Used \cup {NoID} /\ Used' = Used
        BY <1>1 DEF SchedInv, Kinds, Used
      <3>. QED BY <3>2, <3>3, <1>1 DEF SchedInv, Found, Unscheduled
    <2>2. CASE RemoveFails(d) \/ DeleteFails(d)
      BY <2>2, <1>1 DEF SchedInv, Kinds, RemoveFails, DeleteFails, Proceed, Found, NotDeleting
    <2>3. CASE ClearWorkflowSchedule(d)
      BY <2>0, <2>3, <1>1 DEF SchedInv, Kinds, ClearWorkflowSchedule, Found, Used
    <2>. QED BY <2>1, <2>2, <2>3
  <1>4. \A e \in Deleter : Found(e)'
    BY <1>1, <1>2, <1>3 DEF SchedInv, Found, Used
  <1>. QED BY <1>1, <1>2, <1>4 DEF SchedInv, Kinds, Used, Unscheduled, DeletedIsGone

\* A request removes a schedule from memory.
LEMMA RemoveInv ==
  ASSUME SchedInv, NEW d \in Deleter, RemoveEntry(d)
  PROVE  SchedInv'
  <1>. DEFINE id == deleting[d].id
  <1>1. /\ UNCHANGED <<recorded, nextID, creating, started, deleted>>
        /\ entries' \subseteq entries /\ failed' \subseteq failed
        /\ id \notin failed'
        /\ id \in deleting[d].entries \/ id \in failed
        /\ id \in deleting[d].entries => id \notin entries'
        /\ deleting[d].pc = "lock"
        /\ deleting' = [deleting EXCEPT ![d] = [@ EXCEPT !.pc = "clear"]]
    BY DEF RemoveEntry, tableVars, Proceed
  <1>2. id \notin entries' \cup failed' \cup {creating}
    BY <1>1 DEF SchedInv, Found, Unscheduled
  <1>3. Kinds' /\ Used' = Used
    BY <1>1 DEF SchedInv, Kinds, Used
  <1>4. ASSUME NEW e \in Deleter PROVE Found(e)'
    <2>0. Found(e)
      BY DEF SchedInv
    <2>1. CASE e # d
      BY <2>0, <2>1, <1>1, <1>3 DEF SchedInv, Kinds, Found
    <2>2. CASE e = d
      <3>1. /\ deleting'[d].pc = "clear" /\ deleting'[d].id = id
            /\ deleting'[d].entries = deleting[d].entries
        BY <1>1 DEF SchedInv, Kinds
      <3>. QED BY <3>1, <2>0, <2>2, <1>1, <1>2, <1>3 DEF Found
    <2>. QED BY <2>1, <2>2
  <1>. QED BY <1>1, <1>3, <1>4 DEF SchedInv, Unscheduled, DeletedIsGone

\* The row goes last.
LEMMA DeleteInv ==
  ASSUME SchedInv, NEW d \in Deleter, DeleteSchedule(d)
  PROVE  SchedInv'
  <1>. DEFINE id == deleting[d].id
  <1>1. /\ UNCHANGED <<nextID, entries, failed, creating, started>>
        /\ recorded' = recorded \ {id} /\ deleted' = deleted \cup {id}
        /\ deleting[d].pc = "delete"
        /\ deleting' = [deleting EXCEPT ![d] = NotDeleting]
    BY DEF DeleteSchedule, Proceed
  <1>2. id \in Used /\ id \notin entries \cup failed \cup {creating}
    BY <1>1 DEF SchedInv, Found
  <1>3. Kinds' /\ Used' = Used
    BY <1>1, <1>2 DEF SchedInv, Kinds, Used
  <1>4. ASSUME NEW e \in Deleter PROVE Found(e)'
    BY <1>1, <1>3 DEF SchedInv, Kinds, Found, NotDeleting
  <1>. QED BY <1>1, <1>2, <1>3, <1>4 DEF SchedInv, Unscheduled, DeletedIsGone

\* A new process knows only what is recorded.
LEMMA ResumesInv ==
  ASSUME SchedInv, ResumeSchedules
  PROVE  SchedInv'
  <1>1. /\ UNCHANGED <<recorded, nextID, started, deleted>>
        /\ entries' \subseteq recorded /\ failed' \subseteq recorded /\ entries' \cap failed' = {}
        /\ creating' = NotCreating
        /\ deleting' = [d \in Deleter |-> NotDeleting]
    BY DEF ResumeSchedules, tableVars
  <1>2. Kinds' /\ Used' = Used
    BY <1>1 DEF SchedInv, Kinds, Used
  <1>3. NotCreating \notin Used
    BY DEF Used, NotCreating
  <1>. QED BY <1>1, <1>2, <1>3 DEF SchedInv, Found, NotDeleting, Unscheduled, DeletedIsGone

\* Every step keeps the invariant.
LEMMA SchedNextInv == SchedInv /\ [SchedNext]_schedVars => SchedInv'
  <1>. SUFFICES ASSUME SchedInv, [SchedNext]_schedVars PROVE SchedInv'
    OBVIOUS
  <1>1. CASE CreateSchedule
    BY <1>1, CreateInv
  <1>2. CASE ScheduleEntry
    BY <1>2, EntryInv
  <1>3. ASSUME NEW id, Fire(id) \/ WorkflowStarted(id) \/ StartFails(id) PROVE SchedInv'
    BY <1>3, JobInv DEF Fire, WorkflowStarted, StartFails, tableVars, SchedInv, Kinds
  <1>4. ASSUME NEW d \in Deleter, \E id \in ScheduleID : FindSchedule(d, id) PROVE SchedInv'
    BY <1>4, ProceedInv
  <1>5. ASSUME NEW d \in Deleter, RemoveFails(d) \/ ClearWorkflowSchedule(d) \/ DeleteFails(d)
        PROVE  SchedInv'
    BY <1>5, ProceedInv
  <1>6. ASSUME NEW d \in Deleter, RemoveEntry(d) \/ DeleteSchedule(d) PROVE SchedInv'
    BY <1>6, RemoveInv, DeleteInv
  <1>7. CASE ResumeSchedules
    BY <1>7, ResumesInv
  <1>8. CASE UNCHANGED schedVars
    BY <1>8, JobInv DEF schedVars, memoryVars, tableVars
  <1>. QED BY <1>1, <1>2, <1>3, <1>4, <1>5, <1>6, <1>7, <1>8 DEF SchedNext

\* The invariant holds always.
THEOREM SchedInvariant == SchedSpec => []SchedInv
  BY SchedInitInv, SchedNextInv, PTL DEF SchedSpec

\* A schedule for which Delete returned nil is in no list and no table again.
THEOREM GoneFromEverywhere == SchedSpec => []DeletedIsGone
  <1>1. SchedInv => DeletedIsGone
    BY DEF SchedInv
  <1>. QED BY <1>1, SchedInvariant, PTL

\* No workflow is started for such a schedule, not even by a job that had fired
\* before it was deleted.
THEOREM NoRunAfterDelete == SchedSpec => DeletedNeverRuns
  <1>1. SchedInv /\ [SchedNext]_schedVars =>
           [\A id \in deleted : started'[id] = started[id]]_schedVars
    <2>. SUFFICES ASSUME SchedInv, SchedNext PROVE \A id \in deleted : started'[id] = started[id]
      BY DEF schedVars
    <2>1. CASE UNCHANGED started
      BY <2>1
    <2>2. ASSUME NEW k \in {NoID} \cup ScheduleID, WorkflowStarted(k)
          PROVE  \A id \in deleted : started'[id] = started[id]
      <3>1. k \notin deleted
        BY <2>2 DEF WorkflowStarted, SchedInv, Kinds, DeletedIsGone, Used, NoID
      <3>. QED BY <3>1, <2>2 DEF WorkflowStarted, SchedInv, Kinds
    <2>. QED
      BY <2>1, <2>2 DEF SchedNext, CreateSchedule, ScheduleEntry, Fire, StartFails, FindSchedule,
         RemoveEntry, RemoveFails, ClearWorkflowSchedule, DeleteSchedule, DeleteFails,
         ResumeSchedules
  <1>. QED BY <1>1, SchedInvariant, PTL DEF SchedSpec, DeletedNeverRuns
=============================================================================
