----------------------------- MODULE Rendezvous -----------------------------
(***************************************************************************)
(* How a gomote on a swarming bot comes to be: CreateInstance and          *)
(* startNewSwarmingTask of src/internal/gomote/swarming.go register a name *)
(* at the rendezvous (src/internal/rendezvous/rendezvous.go), start a      *)
(* task, and wait until its buildlet connects, the task fails or somebody  *)
(* loses patience.  Names are used once, so an entry and its channel are   *)
(* identified by the instance.  A critical section under rdv.mu is a step, *)
(* but for the purge, which sends while it holds the lock.                 *)
(***************************************************************************)
EXTENDS Integers, Sequences, FiniteSets

CONSTANTS
    Instance,   \* CreateInstance calls
    Visits      \* how often the buildlet of an instance may connect

NoEntry == "none"
Failure == 0    \* a result that is an error

ASSUME RendezvousAssumption == Visits \in Nat /\ NoEntry \notin Instance

Visit == Instance \X (1 .. Visits)

VARIABLES
    registered,          \* rdv.m: the instances that have an entry
    late,       \* the entries past their deadline
    ch,         \* entry.ch, of capacity 1: the visit whose client is sent, or Failure
    shut,       \* the instances whose channel is closed
    purging,    \* the entry that the purge has found, or NoEntry: it has the lock
    task,       \* the swarming task: "none", "pending", "running", "failed"
    start,      \* startNewSwarmingTask and what came of it
    wait,       \* the goroutine that calls WaitForInstance
    got,        \* what the waiter received, like ch
    res,        \* resChan of waitForInstanceOrFailure
    done,       \* the instances whose context is done
    visit       \* the connections of buildlets: HandleReverse

rdvVars == <<registered, late, ch, shut, purging, task, start, wait, got, res, done, visit>>

Free == purging = NoEntry

\* Nothing is registered, and all calls of startNewSwarmingTask are in one state.
NoInstances(state) ==
    /\ registered = {} /\ late = {} /\ shut = {} /\ done = {}
    /\ ch = [i \in Instance |-> <<>>]
    /\ purging = NoEntry
    /\ task = [i \in Instance |-> "none"]
    /\ start = [i \in Instance |-> state]
    /\ wait = [i \in Instance |-> "off"]
    /\ got = [i \in Instance |-> Failure]
    /\ res = [i \in Instance |-> "empty"]
    /\ visit = [v \in Visit |-> "none"]

RdvInit == NoInstances("new")

Start(i, from, to) == start[i] = from /\ start' = [start EXCEPT ![i] = to]
Wait(i, from, to) == wait[i] = from /\ wait' = [wait EXCEPT ![i] = to]

-----------------------------------------------------------------------------
(* startNewSwarmingTask *)

RegisterInstance(i) ==
    /\ Free
    /\ Start(i, "new", "request")
    /\ registered' = registered \cup {i}
    /\ UNCHANGED <<late, ch, shut, purging, task, wait, got, res, done, visit>>

TaskRequested(i) ==
    /\ Start(i, "request", "query")
    /\ task' = [task EXCEPT ![i] = "pending"]
    /\ UNCHANGED <<registered, late, ch, shut, purging, wait, got, res, done, visit>>

\* The request fails, the task fails, or 20 minutes pass or the context ends
\* before it is seen to run.
Unavailable(i) ==
    /\ \/ Start(i, "request", "deregister")
       \/ Start(i, "query", "deregister") /\ (task[i] = "failed" \/ i \in done)
    /\ UNCHANGED <<registered, late, ch, shut, purging, task, wait, got, res, done, visit>>

\* waitForInstanceOrFailure starts its two goroutines.
TaskUp(i) ==
    /\ Start(i, "query", "select")
    /\ task[i] = "running"
    /\ Wait(i, "off", "lookup")
    /\ UNCHANGED <<registered, late, ch, shut, purging, task, got, res, done, visit>>

\* case err := <-statusChan; cancel() ends the context of the waiter.
TaskFailureSeen(i) ==
    /\ Start(i, "select", "deregister")
    /\ task[i] = "failed"
    /\ done' = done \cup {i}
    /\ UNCHANGED <<registered, late, ch, shut, purging, task, wait, got, res, visit>>

\* case r := <-resChan
ResultSeen(i) ==
    /\ res[i] # "empty"
    /\ Start(i, "select", IF res[i] = "client" THEN "up" ELSE "deregister")
    /\ UNCHANGED <<registered, late, ch, shut, purging, task, wait, got, res, done, visit>>

DeregisterInstance(i) ==
    /\ Free
    /\ Start(i, "deregister", "failed")
    /\ registered' = registered \ {i}
    /\ UNCHANGED <<late, ch, shut, purging, task, wait, got, res, done, visit>>

\* The 20 or the 25 minutes, or the context of the stream, end.
ContextEnds(i) ==
    /\ start[i] \in {"query", "select"} /\ i \notin done
    /\ done' = done \cup {i}
    /\ UNCHANGED <<registered, late, ch, shut, purging, task, start, wait, got, res, visit>>

-----------------------------------------------------------------------------
(* WaitForInstance *)

Lookup(i) ==
    /\ Free
    /\ IF i \in registered THEN Wait(i, "lookup", "select") /\ UNCHANGED res
                  ELSE Wait(i, "lookup", "over") /\ res' = [res EXCEPT ![i] = "error"]
    /\ UNCHANGED <<registered, late, ch, shut, purging, task, start, got, done, visit>>

\* case res := <-e.ch
WaitReceives(i) ==
    /\ ch[i] # <<>>
    /\ Wait(i, "select", IF Head(ch[i]) = Failure THEN "error" ELSE "client")
    /\ got' = [got EXCEPT ![i] = Head(ch[i])]
    /\ ch' = [ch EXCEPT ![i] = <<>>]
    /\ UNCHANGED <<registered, late, shut, purging, task, start, res, done, visit>>

\* Mutant: only the channel is waited for.
WaitLeavesNever(i) ==
    /\ i \in done /\ i \notin registered
    /\ Wait(i, "select", "left")
    /\ UNCHANGED <<registered, late, ch, shut, purging, task, start, got, res, done, visit>>

\* case <-ctx.Done()
WaitLeaves(i) ==
    /\ i \in done
    /\ Wait(i, "select", "left")
    /\ UNCHANGED <<registered, late, ch, shut, purging, task, start, got, res, done, visit>>

\* The entry is deleted, and the channel closed if something was received.
WaitReturns(i) ==
    /\ Free
    /\ \/ /\ \E r \in {"client", "error"} : Wait(i, r, "over") /\ res' = [res EXCEPT ![i] = r]
          /\ shut' = shut \cup {i}
       \/ /\ Wait(i, "left", "over") /\ res' = [res EXCEPT ![i] = "error"]
          /\ UNCHANGED shut
    /\ registered' = registered \ {i}
    /\ UNCHANGED <<late, ch, purging, task, start, got, done, visit>>

-----------------------------------------------------------------------------
(* HandleReverse *)

Visiting(v, from, to) == visit[v] = from /\ visit' = [visit EXCEPT ![v] = to]

\* A buildlet connects while its task runs; without an entry it is refused.
Arrive(v) ==
    /\ Free
    /\ task[v[1]] \in {"running", "failed"}
    /\ Visiting(v, "none", IF v[1] \in registered THEN "found" ELSE "refused")
    /\ UNCHANGED <<registered, late, ch, shut, purging, task, start, wait, got, res, done>>

Invalid(v) ==
    /\ Visiting(v, "found", "refused")
    /\ UNCHANGED <<registered, late, ch, shut, purging, task, start, wait, got, res, done>>

\* Hijack and connToClient, which asks for the buildlet's status, are done.
Connected(v) ==
    /\ \/ Visiting(v, "found", "client")
       \/ Visiting(v, "found", "error")
    /\ UNCHANGED <<registered, late, ch, shut, purging, task, start, wait, got, res, done>>

Result(v, r) == IF r = "client" THEN v[2] ELSE Failure

\* Mutant: a result that nobody waits for yet is dropped.
DeliverIfAwaited(v) ==
    /\ v[1] \notin shut
    /\ ch[v[1]] = <<>>
    /\ \E r \in {"client", "error"} :
        /\ Visiting(v, r, IF r = "client" THEN "handed" ELSE "told")
        /\ ch' = [ch EXCEPT ![v[1]] = IF wait[v[1]] = "select" THEN <<Result(v, r)>> ELSE <<>>]
    /\ UNCHANGED <<registered, late, shut, purging, task, start, wait, got, res, done>>

\* res.ch <- ...: blocks while the channel is full.
Deliver(v) ==
    /\ v[1] \notin shut
    /\ ch[v[1]] = <<>>
    /\ \E r \in {"client", "error"} :
        /\ Visiting(v, r, IF r = "client" THEN "handed" ELSE "told")
        /\ ch' = [ch EXCEPT ![v[1]] = <<Result(v, r)>>]
    /\ UNCHANGED <<registered, late, shut, purging, task, start, wait, got, res, done>>

\* A send on a closed channel panics; net/http recovers.
Panic(v) ==
    /\ v[1] \in shut
    /\ \E r \in {"client", "error"} : Visiting(v, r, "panicked")
    /\ UNCHANGED <<registered, late, ch, shut, purging, task, start, wait, got, res, done>>

-----------------------------------------------------------------------------
(* purgeExpiredRegistrations *)

\* An entry past its deadline is found; entries are taken one at a time, so
\* that those that follow may also be found by the next round.
PurgeFinds(i) ==
    /\ Free
    /\ i \in registered \cap late
    /\ purging' = i
    /\ UNCHANGED <<registered, late, ch, shut, task, start, wait, got, res, done, visit>>

\* ent.ch <- ... with the lock held, and the deletion.
PurgeSends ==
    /\ purging # NoEntry
    /\ ch[purging] = <<>> /\ purging \notin shut
    /\ ch' = [ch EXCEPT ![purging] = <<Failure>>]
    /\ registered' = registered \ {purging}
    /\ purging' = NoEntry
    /\ UNCHANGED <<late, shut, task, start, wait, got, res, done, visit>>

Deadline(i) ==
    /\ i \in registered \ late
    /\ late' = late \cup {i}
    /\ UNCHANGED <<registered, ch, shut, purging, task, start, wait, got, res, done, visit>>

\* The swarming service runs the task, or the task ends.
TaskMoves(i) ==
    /\ \/ task[i] = "pending" /\ task' = [task EXCEPT ![i] = "running"]
       \/ task[i] \in {"pending", "running"} /\ task' = [task EXCEPT ![i] = "failed"]
    /\ UNCHANGED <<registered, late, ch, shut, purging, start, wait, got, res, done, visit>>

-----------------------------------------------------------------------------
StartStep(i) ==
    \/ RegisterInstance(i) \/ TaskRequested(i) \/ Unavailable(i) \/ TaskUp(i)
    \/ TaskFailureSeen(i) \/ ResultSeen(i) \/ DeregisterInstance(i)

WaitStep(i) == Lookup(i) \/ WaitReceives(i) \/ WaitLeaves(i) \/ WaitReturns(i)

VisitStep(v) == Invalid(v) \/ Connected(v) \/ Deliver(v) \/ Panic(v)

RdvNext ==
    \/ \E i \in Instance : StartStep(i) \/ WaitStep(i) \/ ContextEnds(i) \/ PurgeFinds(i)
                           \/ Deadline(i) \/ TaskMoves(i)
    \/ \E v \in Visit : Arrive(v) \/ VisitStep(v)
    \/ PurgeSends

RdvSpec == RdvInit /\ [][RdvNext]_rdvVars

\* Goroutines are scheduled and get a mutex that is free again and again;
\* contexts with a timeout end.
RdvFairness ==
    /\ \A i \in Instance : /\ SF_rdvVars(StartStep(i)) /\ SF_rdvVars(WaitStep(i))
                           /\ WF_rdvVars(ContextEnds(i))
    /\ \A v \in Visit : WF_rdvVars(VisitStep(v))
    /\ WF_rdvVars(PurgeSends)

RdvFairSpec == RdvSpec /\ RdvFairness

-----------------------------------------------------------------------------
(* Properties *)

Over(i) == start[i] \in {"up", "failed"}

\* Nothing is left behind: when the attempt to create an instance is over, its
\* name is not registered any more, whichever of the
\* error paths was taken, so a buildlet that connects later is refused.
NothingRegistered ==
    \A i \in Instance : Over(i) => i \notin registered

\* The purge is in front of a full channel that nobody is reading.
PurgeBlocked ==
    \E i \in Instance : purging = i /\ ch[i] # <<>> /\ wait[i] # "select"

\* Every attempt to create an instance ends, from wherever it has got to, or else
\* the purge came upon the entry of a buildlet that had connected before its
\* waiter was there, or after its waiter was served, and blocks for good with the
\* lock held (rendezvous.go:78).
CreateEnds ==
    \/ \A i \in Instance : start[i] # "new" ~> Over(i)
    \/ <>[]PurgeBlocked

\* Why a buildlet that found its name need not be used: a context ended, the
\* deadline passed, the task failed, or another connection of the same name was
\* served first.
Excused(v) ==
    \/ v[1] \in done \cup late
    \/ task[v[1]] = "failed"
    \/ \E w \in Visit \ {v} : w[1] = v[1] /\ visit[w] \in {"handed", "told"}

\* Its client can still be sent, is in the channel of an entry that is waited
\* for or will be, or is what the waiter received.
Sendable(v) == visit[v] \in {"client", "error"} /\ ch[v[1]] = <<>> /\ v[1] \notin shut
InChannel(v) ==
    /\ visit[v] = "handed"
    /\ ch[v[1]] = <<v[2]>> /\ v[1] \in registered
    /\ start[v[1]] \in {"query", "select"} /\ wait[v[1]] \in {"off", "lookup", "select"}
Received(v) ==
    /\ visit[v] = "handed"
    /\ got[v[1]] = v[2]
    /\ start[v[1]] \in {"select", "up"}

\* A buildlet that found its name registered and has a valid token is on its way
\* to the waiter, whether or not the waiter was there first, and the instance
\* comes up with it.  HandleReverse panics on a closed channel, blocks on a full
\* one, or sends to one that nobody reads only with one of the four excuses.
FoundIsUsed ==
    \A v \in Visit :
        \/ visit[v] \in {"none", "refused", "found", "told"}
        \/ Sendable(v) \/ InChannel(v) \/ Received(v)
        \/ Excused(v)

\* And none finds a name that nobody waits for any more.
UsedOrRefused == FoundIsUsed /\ NothingRegistered
=============================================================================
