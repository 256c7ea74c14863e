------------------------------ MODULE GCEPool ------------------------------
(***************************************************************************)
(* The coordinator's pool of GCE buildlets,                                *)
(* src/internal/coordinator/pool/gce.go over src/buildlet/gce.go: calls of *)
(* GetBuildlet that acquire instance quota and then CPU quota (module      *)
(* Quota), create a VM and clean up after it; the goroutine that deletes   *)
(* VMs nobody uses; the one that polls limits; restarts of the coordinator.*)
(* One CPU queue stands for the five.  A client is one GetBuildlet call and *)
(* also names its VM, which may be a gomote's (module PoolSessions).       *)
(***************************************************************************)
EXTENDS PoolSessions

CONSTANT MaxRestarts    \* bound on restarts of the coordinator

ASSUME GCEAssumption ==
    /\ Queue = {"inst", "cpu"}
    /\ MaxRestarts \in Nat

VARIABLES
    phase,      \* where GetBuildlet, and later the VM's cleanup, is
    needDelete, \* the clients whose needDelete is set
    inst,       \* p.inst: the names of instances in use
    deleted,    \* deletedVMCache
    vm,         \* the VMs that exist on GCE
    expired,    \* VMs past their delete-at time
    restarts

vmVars == <<phase, needDelete, inst, deleted, vm, expired, restarts>>
gceVars == <<vmVars, gomoteVars>>
poolVars == <<quotaVars, gceVars>>

PoolInit ==
    /\ QuotaInit
    /\ NoSessions
    /\ phase = [c \in Client |-> "idle"]
    /\ needDelete = {}
    /\ inst = {}
    /\ deleted = {}
    /\ vm = {}
    /\ expired = {}
    /\ restarts = 0

Step(c, from, to) == phase[c] = from /\ phase' = [phase EXCEPT ![c] = to]

-----------------------------------------------------------------------------
(* GetBuildlet: quota *)

RequestInst(c) ==
    /\ Step(c, "idle", "inst")
    /\ Enqueue("inst", c)
    /\ UNCHANGED <<needDelete, inst, deleted, vm, expired, restarts, gomoteVars>>

InstFails(c) ==
    /\ Step(c, "inst", "error")
    /\ at["inst"][c] = "failed"
    /\ UNCHANGED <<quotaVars, needDelete, inst, deleted, vm, expired, restarts, gomoteVars>>

RequestCPU(c) ==
    /\ Step(c, "inst", "cpu")
    /\ at["inst"][c] = "held"
    /\ Enqueue("cpu", c)
    /\ UNCHANGED <<needDelete, inst, deleted, vm, expired, restarts, gomoteVars>>

\* Mutant: the instance quota is kept.
CPUFailsKeepingInst(c) ==
    /\ Step(c, "cpu", "error")
    /\ at["cpu"][c] = "failed"
    /\ UNCHANGED <<quotaVars, needDelete, inst, deleted, vm, expired, restarts, gomoteVars>>

\* "return unused quota"
CPUFails(c) ==
    /\ Step(c, "cpu", "error")
    /\ at["cpu"][c] = "failed"
    /\ ReturnQuota("inst", c)
    /\ UNCHANGED <<needDelete, inst, deleted, vm, expired, restarts, gomoteVars>>

\* The context passed to GetBuildlet ends while it waits.
Cancel(c) ==
    /\ \E q \in Queue : AwaitCancelled(q, c)
    /\ UNCHANGED gceVars

-----------------------------------------------------------------------------
(* GetBuildlet: StartNewVM *)

\* Mutant: the instance is not announced before it is created.
AnnounceLate(c) ==
    /\ Step(c, "cpu", "creating")
    /\ at["cpu"][c] = "held"
    /\ UNCHANGED <<quotaVars, needDelete, inst, deleted, vm, expired, restarts, gomoteVars>>

\* setInstanceUsed(instName, true)
Announce(c) ==
    /\ Step(c, "cpu", "creating")
    /\ at["cpu"][c] = "held"
    /\ inst' = inst \cup {c}
    /\ UNCHANGED <<quotaVars, needDelete, deleted, vm, expired, restarts, gomoteVars>>

\* Instances.Insert fails, or the operation ends in an error and the context is
\* done or the error is not ErrQuotaExceeded (then the loop goes round).
CreateFails(c) ==
    /\ Step(c, "creating", "cleanup")
    /\ UNCHANGED <<quotaVars, needDelete, inst, deleted, vm, expired, restarts, gomoteVars>>

\* GCE accepts the request and makes the VM.
Insert(c) ==
    /\ Step(c, "creating", "booting")
    /\ vm' = vm \cup {c}
    /\ UNCHANGED <<quotaVars, needDelete, inst, deleted, expired, restarts, gomoteVars>>

\* The operation's state cannot be read: an error, and a VM that may exist.
OperationLost(c) ==
    /\ Step(c, "booting", "cleanup")
    /\ UNCHANGED <<quotaVars, needDelete, inst, deleted, vm, expired, restarts, gomoteVars>>

\* OnInstanceCreated
InstanceCreated(c) ==
    /\ Step(c, "booting", "waiting")
    /\ needDelete' = needDelete \cup {c}
    /\ UNCHANGED <<quotaVars, inst, deleted, vm, expired, restarts, gomoteVars>>

\* The buildlet does not come up.
BuildletFails(c) ==
    /\ Step(c, "waiting", "cleanup")
    /\ UNCHANGED <<quotaVars, needDelete, inst, deleted, vm, expired, restarts, gomoteVars>>

\* GetBuildlet returns the client, with cleanup as its OnHeartbeatFailure.
BuildletUp(c) ==
    /\ Step(c, "waiting", "used")
    /\ UNCHANGED <<quotaVars, needDelete, inst, deleted, vm, expired, restarts, gomoteVars>>

\* Close, or three failed heartbeats: the function is called once.
PeerDead(c) ==
    /\ Step(c, "used", "cleanup")
    /\ UNCHANGED <<quotaVars, needDelete, inst, deleted, vm, expired, restarts, gomoteVars>>

-----------------------------------------------------------------------------
(* cleanup *)

\* deleteVM: the name is remembered whether or not the request succeeds.
DeleteVM(c) ==
    /\ deleted' = deleted \cup {c}
    /\ vm' \in {vm, vm \ {c}}

CleanupDelete(c) ==
    /\ Step(c, "cleanup", "return inst")
    /\ IF c \in needDelete THEN DeleteVM(c) ELSE UNCHANGED <<deleted, vm>>
    /\ UNCHANGED <<quotaVars, needDelete, inst, expired, restarts, gomoteVars>>

CleanupInst(c) ==
    /\ Step(c, "return inst", "return cpu")
    /\ ReturnQuota("inst", c)
    /\ UNCHANGED <<needDelete, inst, deleted, vm, expired, restarts, gomoteVars>>

CleanupCPU(c) ==
    /\ Step(c, "return cpu", "forget")
    /\ at["inst"][c] = "done"
    /\ ReturnQuota("cpu", c)
    /\ UNCHANGED <<needDelete, inst, deleted, vm, expired, restarts, gomoteVars>>

\* setInstanceUsed(instName, false)
CleanupForget(c) ==
    /\ Step(c, "forget", "over")
    /\ at["cpu"][c] = "done"
    /\ inst' = inst \ {c}
    /\ UNCHANGED <<quotaVars, needDelete, deleted, vm, expired, restarts, gomoteVars>>

-----------------------------------------------------------------------------
(* cleanZoneVMs *)

\* A VM past its delete-at time, or one of an earlier coordinator.
MayClean(c) == c \in expired \/ (c \notin inst /\ c \notin deleted)

\* The VM of a session is skipped.  A session that is opened between the question
\* and the deletion comes to the same as one opened after it.
CleanVM(c) ==
    /\ c \in vm
    /\ IsSession(c, FALSE)
    /\ MayClean(c)
    /\ DeleteVM(c)
    /\ UNCHANGED <<quotaVars, phase, needDelete, inst, expired, restarts, gomoteVars>>

Expire(c) ==
    /\ c \in vm \ expired
    /\ expired' = expired \cup {c}
    /\ UNCHANGED <<quotaVars, phase, needDelete, inst, deleted, vm, restarts, gomoteVars>>

-----------------------------------------------------------------------------
(* Sessions of gomotes *)

GomoteStep(c) ==
    /\ \/ phase[c] = "used" /\ OpenSession(c)
       \/ EndSession(c)
       \/ KeepAliveLeaves(c)
    /\ UNCHANGED <<quotaVars, vmVars>>

\* A session whose buildlet is gone is not renewed for ever.
DeadSessionEnds(c) == phase[c] # "used" /\ EndSession(c) /\ UNCHANGED <<quotaVars, vmVars>>

-----------------------------------------------------------------------------
(* pollQuota, restarts *)

\* One goroutine polls: it is back from the last update of any queue.
PollerFree == \A q \in Queue : at[q][Poller] = "idle"

PollLimit(q) ==
    /\ PollerFree
    /\ \E n \in Limits[q] : UpdateLimit(q, n)
    /\ UNCHANGED gceVars

\* updateUntrackedQuota sums over the project's other instances that it sees: a
\* queue without any is not in the map and is not updated.
PollUntracked ==
    /\ PollerFree
    /\ \E n \in Untracked \ {0} : UpdateUntracked("cpu", n)
    /\ UNCHANGED gceVars

QuotaStep(t) ==
    /\ \E q \in Queue : IF t = Poller THEN Updated(q, t) ELSE AwaitStep(q, t)
    /\ UNCHANGED gceVars

\* The coordinator starts anew; the VMs stay, and so does the rest of GCE.
Restart ==
    /\ restarts < MaxRestarts
    /\ restarts' = restarts + 1
    /\ phase' = [c \in Client |-> IF phase[c] = "idle" THEN "idle" ELSE "lost"]
    /\ needDelete' = {} /\ inst' = {} /\ deleted' = {}
    /\ queue' = [q \in Queue |-> {}]
    /\ head' = [q \in Queue |-> None]
    /\ limit' = [q \in Queue |-> 0]
    /\ used' = [q \in Queue |-> 0]
    /\ untrackedUsed' = [q \in Queue |-> 0]
    /\ popped' = [q \in Queue |-> {}]
    /\ at' = [q \in Queue |-> [t \in Thread |-> IF t = Poller THEN "idle" ELSE "new"]]
    /\ gomote' = [c \in Client |-> "none"] /\ lockLost' = FALSE
    /\ UNCHANGED <<vm, expired>>

-----------------------------------------------------------------------------
\* What the goroutine of a GetBuildlet call does on its own.
ClientStep(c) ==
    \/ QuotaStep(c) \/ InstFails(c) \/ RequestCPU(c) \/ CPUFails(c) \/ Announce(c)
    \/ CreateFails(c) \/ Insert(c) \/ OperationLost(c) \/ InstanceCreated(c)
    \/ BuildletFails(c) \/ BuildletUp(c)
    \/ CleanupDelete(c) \/ CleanupInst(c) \/ CleanupCPU(c) \/ CleanupForget(c)

PoolNext ==
    \/ \E c \in Client : \/ RequestInst(c) \/ Cancel(c) \/ ClientStep(c)
                         \/ PeerDead(c) \/ CleanVM(c) \/ Expire(c) \/ GomoteStep(c)
    \/ QuotaStep(Poller)
    \/ \E q \in Queue : PollLimit(q)
    \/ PollUntracked
    \/ Restart

PoolSpec == PoolInit /\ [][PoolNext]_poolVars

\* Goroutines are scheduled, VMs reach their delete-at time, sessions with a dead
\* buildlet expire, the polling loops go round every minute, and GCE grants a
\* deletion that is asked for again and again.  That builds or sessions end is
\* not assumed.
PoolFairSpec ==
    /\ PoolSpec
    /\ \A c \in Client :
        /\ WF_poolVars(ClientStep(c))
        /\ WF_poolVars(Expire(c))
        /\ WF_poolVars(DeadSessionEnds(c))
        /\ SF_poolVars(CleanVM(c) /\ vm' # vm)
    /\ WF_poolVars(QuotaStep(Poller))
    /\ \A q \in Queue : SF_poolVars(PollLimit(q))
    /\ SF_poolVars(PollUntracked)

-----------------------------------------------------------------------------
(* Properties *)

\* A GetBuildlet call that is over or failed leaves nothing charged to either
\* queue once its last updated() is through, whichever step failed; and a VM
\* is charged to both for as long as the call that made it counts it as used.
QuotaFollowsVM ==
    \A c \in Client :
        /\ phase[c] \in {"error", "over", "lost"} => \A q \in Queue : c \notin Charged(q)
        /\ phase[c] \in {"creating", "booting", "waiting", "used", "cleanup"} =>
              \A q \in Queue : c \in Charged(q)

\* The cleaning loop never takes a VM away from a build: while one boots or is
\* used it is deleted only past its delete-at time.
UsedVMsAreKept ==
    [][\A c \in vm \ vm' :
          phase[c] \in {"booting", "waiting", "used"} => c \in expired]_poolVars

\* VMs that got away (a lost create operation, a failed deletion, a restart of
\* the coordinator) are deleted in the end, those of sessions included, or a
\* KeepAlive left with the session pool's lock (remote.go:234) and the cleaning
\* loop hangs at its first VM.  Each client makes one call, so there comes a time
\* when no stray is left.
StrayVMsGo == <>[](lockLost \/ \A c \in vm : phase[c] \notin {"over", "lost"})

\* The VMs that go, and in the end all do, are those that no build uses.
OnlyStrayVMsGo == UsedVMsAreKept /\ StrayVMsGo
=============================================================================
