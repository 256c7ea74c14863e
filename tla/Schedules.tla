------------------------------ MODULE Schedules ------------------------------
(***************************************************************************)
(* Workflows that start by themselves: the Scheduler of                    *)
(* src/internal/relui/schedule.go, whose cron entries and list of failed   *)
(* schedules are in memory and whose schedules are rows of the database.   *)
(* Requests that create and delete, jobs that have fired, transactions     *)
(* that fail, and restarts of the process come in any order.  A statement  *)
(* of a transaction is a step, the last one with the commit.               *)
(***************************************************************************)
EXTENDS Integers, FiniteSets

CONSTANTS
    MaxSchedules,   \* bound on the schedules created
    MaxRuns,        \* bound on the workflows started of each
    MaxRestarts,    \* bound on the restarts of the process
    Deleter         \* requests that delete a schedule

ASSUME SchedulesAssumption == MaxSchedules \in Nat /\ MaxRuns \in Nat /\ MaxRestarts \in Nat

ScheduleID == 1 .. MaxSchedules
NoID == 0       \* the ID of a row that was not inserted

VARIABLES
    recorded,       \* the schedules table
    nextID,         \* its sequence of IDs
    entries,        \* the jobs of cron, by Schedule.ID
    failed,         \* s.failed
    fired,          \* jobs that cron has started in a goroutine
    started,        \* rows of workflows that refer to a schedule, or did before its end
    creating,       \* Create: the ID of its row if it has still to schedule it
    deleting,       \* [Deleter -> [pc, id, entries, cleared]]
    failedMu,       \* the request that holds s.failedMu
    deleted,        \* schedules for which Delete has returned nil
    restarts        \* restarts so far

memoryVars == <<entries, failed, fired, creating, deleting, failedMu>>
tableVars == <<recorded, nextID>>
schedVars == <<memoryVars, tableVars, started, deleted, restarts>>

Nobody == "nobody"
NotCreating == -1
NotDeleting == [pc |-> "idle", id |-> NoID, entries |-> {}, cleared |-> 0]

SchedInit ==
    /\ fired = {} /\ creating = NotCreating /\ failedMu = Nobody
    /\ deleting = [d \in Deleter |-> NotDeleting]
    /\ entries = {} /\ failed = {}
    /\ recorded = {} /\ nextID = 1
    /\ started = [id \in {NoID} \cup ScheduleID |-> 0]
    /\ deleted = {}
    /\ restarts = 0

-----------------------------------------------------------------------------
(* Create *)

\* The transaction.  If the insert fails there is no ID; if the commit fails
\* there is an ID without a row.  The error is not looked at before the next step.
CreateSchedule ==
    /\ creating = NotCreating /\ nextID <= MaxSchedules
    /\ \/ creating' = nextID /\ recorded' = recorded \cup {nextID}
       \/ creating' \in {NoID, nextID} /\ UNCHANGED recorded
    /\ nextID' = nextID + 1
    /\ UNCHANGED <<entries, failed, fired, deleting, failedMu, started, deleted,
                   restarts>>

\* s.cron.Schedule
ScheduleEntry ==
    /\ creating # NotCreating
    /\ entries' = entries \cup {creating}
    /\ creating' = NotCreating
    /\ UNCHANGED <<tableVars, failed, fired, deleting, failedMu, started, deleted, restarts>>

-----------------------------------------------------------------------------
(* A job *)

\* cron starts WorkflowSchedule.Run in a goroutine.
Fire(id) ==
    /\ id \in entries
    /\ fired' = fired \cup {id}
    /\ UNCHANGED <<tableVars, entries, failed, creating, deleting, failedMu, started,
                   deleted, restarts>>

\* Mutant: schedule_id is an integer, without REFERENCES.
WorkflowStartedUnchecked(id) ==
    /\ id \in fired /\ started[id] < MaxRuns
    /\ fired' = fired \ {id}
    /\ started' = [started EXCEPT ![id] = @ + 1]
    /\ UNCHANGED <<tableVars, entries, failed, creating, deleting, failedMu, deleted,
                   restarts>>

\* WorkflowStarted inserts the workflow, with a reference if the ID is not 0.
WorkflowStarted(id) ==
    /\ id \in fired /\ started[id] < MaxRuns
    /\ id \in recorded \cup {NoID}
    /\ fired' = fired \ {id}
    /\ started' = [started EXCEPT ![id] = @ + 1]
    /\ UNCHANGED <<tableVars, entries, failed, creating, deleting, failedMu, deleted,
                   restarts>>

\* The insert fails, as it must if the schedule it refers to is not there.
StartFails(id) ==
    /\ id \in fired
    /\ fired' = fired \ {id}
    /\ UNCHANGED <<tableVars, entries, failed, creating, deleting, failedMu, started,
                   deleted, restarts>>

-----------------------------------------------------------------------------
(* Delete *)

Proceed(d, from, to) ==
    /\ deleting[d].pc = from
    /\ deleting' = [deleting EXCEPT ![d] = IF to = "idle" THEN NotDeleting
                                           ELSE [@ EXCEPT !.pc = to]]

\* deleteScheduleHandler finds the row; Delete takes the list of entries.
FindSchedule(d, id) ==
    /\ deleting[d].pc = "idle" /\ id \in recorded
    /\ deleting' = [deleting EXCEPT ![d] =
                     [pc |-> "lock", id |-> id, entries |-> entries, cleared |-> 0]]
    /\ UNCHANGED <<tableVars, entries, failed, fired, creating, failedMu, started, deleted,
                   restarts>>

\* Under failedMu, which stays locked until Delete returns.
RemoveEntry(d) ==
    LET id == deleting[d].id
        scheduled == id \in deleting[d].entries
    IN  /\ failedMu = Nobody
        /\ scheduled # (id \in failed)
        /\ Proceed(d, "lock", "clear")
        /\ failedMu' = d
        /\ entries' = IF scheduled THEN entries \ {id} ELSE entries
        /\ failed' = failed \ {id}
        /\ UNCHANGED <<tableVars, fired, creating, started, deleted, restarts>>

\* ErrScheduleNotFound, or "impossible case".
RemoveFails(d) ==
    LET id == deleting[d].id
    IN  /\ failedMu = Nobody
        /\ (id \in deleting[d].entries) = (id \in failed)
        /\ Proceed(d, "lock", "idle")
        /\ UNCHANGED <<tableVars, entries, failed, fired, creating, failedMu, started,
                       deleted, restarts>>

\* The transaction clears the references there are now.
ClearWorkflowSchedule(d) ==
    /\ deleting[d].pc = "clear"
    /\ deleting' = [deleting EXCEPT ![d].pc = "delete",
                                   ![d].cleared = started[deleting[d].id]]
    /\ UNCHANGED <<tableVars, entries, failed, fired, creating, failedMu, started, deleted,
                   restarts>>

\* DeleteSchedule and the commit, unless the row has gone with another request
\* or a workflow that was started after the last statement refers to it.
DeleteSchedule(d) ==
    LET id == deleting[d].id
    IN  /\ id \in recorded /\ started[id] = deleting[d].cleared
        /\ Proceed(d, "delete", "idle")
        /\ recorded' = recorded \ {id}
        /\ deleted' = deleted \cup {id}
        /\ failedMu' = Nobody
        /\ UNCHANGED <<nextID, entries, failed, fired, creating, started, restarts>>

\* A statement or the commit fails: rolled back.
DeleteFails(d) ==
    /\ Proceed(d, "clear", "idle") \/ Proceed(d, "delete", "idle")
    /\ failedMu' = Nobody
    /\ UNCHANGED <<tableVars, entries, failed, fired, creating, started, deleted, restarts>>

-----------------------------------------------------------------------------
\* The process ends and a new one takes up the schedules of the table: all but
\* those without a definition or with a date in the past, which are skipped,
\* and those whose parameters no longer fit, which are listed.
ResumeSchedules ==
    /\ restarts < MaxRestarts
    /\ restarts' = restarts + 1
    /\ \E taken, unfit \in SUBSET recorded :
          /\ taken \cap unfit = {}
          /\ entries' = taken
          /\ failed' = unfit
    /\ fired' = {} /\ creating' = NotCreating /\ failedMu' = Nobody
    /\ deleting' = [d \in Deleter |-> NotDeleting]
    /\ UNCHANGED <<tableVars, started, deleted>>

SchedNext ==
    \/ CreateSchedule \/ ScheduleEntry
    \/ \E id \in {NoID} \cup ScheduleID :
          Fire(id) \/ WorkflowStarted(id) \/ StartFails(id)
    \/ \E d \in Deleter :
          \/ \E id \in ScheduleID : FindSchedule(d, id)
          \/ RemoveEntry(d) \/ RemoveFails(d)
          \/ ClearWorkflowSchedule(d) \/ DeleteSchedule(d) \/ DeleteFails(d)
    \/ ResumeSchedules

SchedSpec == SchedInit /\ [][SchedNext]_schedVars

-----------------------------------------------------------------------------
(* Properties *)

\* A schedule that was deleted is nowhere any more, whatever requests, failing
\* transactions and restarts came in between.
DeletedIsGone == deleted \cap (recorded \cup entries \cup failed) = {}

\* "Delete removes a schedule from the scheduler, preventing subsequent runs,
\* and deletes the schedule from the database": a job that had fired before
\* does not start it either, nor does anything after a restart.
DeletedNeverRuns ==
    [][\A id \in deleted : started'[id] = started[id]]_schedVars
=============================================================================
