------------------------------ MODULE EC2Pool ------------------------------
(***************************************************************************)
(* The coordinator's pool of EC2 buildlets,                                *)
(* src/internal/coordinator/pool/ec2.go, its ledger of instances in        *)
(* ledger.go, and the VM creation of src/buildlet/ec2.go, over the CPU     *)
(* quota of module Quota.  A client is one GetBuildlet call and also names *)
(* its VM.  A second goroutine destroys instances that the ledger does not *)
(* know, other than those of gomotes (module PoolSessions).                *)
(***************************************************************************)
EXTENDS PoolSessions

ASSUME EC2Assumption == Queue = {"cpu"}

VARIABLES
    phase,      \* where GetBuildlet, and later buildletDone, is
    entries,    \* ledger.entries, the names that have one
    known,      \* the names whose entry has an instance ID
    vm,         \* the instances that run on EC2
    unseen,     \* destroyUntrackedInstances: listed and not looked up yet
    doomed      \* destroyUntrackedInstances: deleteInsts

vmVars == <<phase, entries, known, vm, unseen, doomed>>
ec2Vars == <<vmVars, gomoteVars>>
poolVars == <<quotaVars, ec2Vars>>

PoolInit ==
    /\ QuotaInit /\ NoSessions
    /\ phase = [c \in Client |-> "idle"]
    /\ entries = {} /\ known = {}
    /\ vm = {}
    /\ unseen = {} /\ doomed = {}

Step(c, from, to) == phase[c] = from /\ phase' = [phase EXCEPT ![c] = to]

-----------------------------------------------------------------------------
(* ReserveResources *)

\* PrepareReservationRequest finds no entry, because names are not used twice.
Request(c) ==
    /\ Step(c, "idle", "reserve")
    /\ Enqueue("cpu", c)
    /\ UNCHANGED <<entries, known, vm, unseen, doomed, gomoteVars>>

ReserveFails(c) ==
    /\ Step(c, "reserve", "error")
    /\ at["cpu"][c] = "failed"
    /\ UNCHANGED <<quotaVars, entries, known, vm, unseen, doomed, gomoteVars>>

Reserve(c) ==
    /\ Step(c, "reserve", "create")
    /\ at["cpu"][c] = "held"
    /\ entries' = entries \cup {c}
    /\ UNCHANGED <<quotaVars, known, vm, unseen, doomed, gomoteVars>>

Cancel(c) == AwaitCancelled("cpu", c) /\ UNCHANGED ec2Vars

-----------------------------------------------------------------------------
(* StartNewVM *)

\* createVM
CreateInstance(c) ==
    /\ Step(c, "create", "wait running")
    /\ vm' = vm \cup {c}
    /\ UNCHANGED <<quotaVars, entries, known, unseen, doomed, gomoteVars>>

\* waitUntilVMExists; OnInstanceCreated sets instanceCreated.
InstanceRuns(c) ==
    /\ Step(c, "wait running", "created")
    /\ UNCHANGED <<quotaVars, entries, known, vm, unseen, doomed, gomoteVars>>

\* ec2BuildletParams: OnGotEC2InstanceInfo, UpdateReservation.
UpdateReservation(c) ==
    /\ Step(c, "created", "boot")
    /\ known' = known \cup (entries \cap {c})
    /\ UNCHANGED <<quotaVars, entries, vm, unseen, doomed, gomoteVars>>

BuildletUp(c) ==
    /\ Step(c, "boot", "used")
    /\ UNCHANGED <<quotaVars, entries, known, vm, unseen, doomed, gomoteVars>>

\* Mutant: the entry is deleted and its quota kept.
RemoveKeepingQuota(c) ==
    /\ entries' = entries \ {c} /\ known' = known \ {c}
    /\ UNCHANGED quotaVars

\* ledger.Remove: an error, and nothing else, when there is no entry.
Remove(c) ==
    IF c \in entries
    THEN ReturnQuota("cpu", c) /\ entries' = entries \ {c} /\ known' = known \ {c}
    ELSE UNCHANGED <<quotaVars, entries, known>>

\* StartNewVM fails before OnInstanceCreated.
CreateFails(c) ==
    /\ \E from \in {"create", "wait running"} : Step(c, from, "over")
    /\ Remove(c)
    /\ UNCHANGED <<vm, unseen, doomed, gomoteVars>>

\* StartNewVM fails after it (no instance data, no address, no buildlet), or
\* the buildlet that was returned dies or is closed.
BuildletDone(c) ==
    /\ \E from \in {"created", "boot", "used"} : Step(c, from, "done")
    /\ UNCHANGED <<quotaVars, entries, known, vm, unseen, doomed, gomoteVars>>

\* buildletDone of an instance without ID returns early.
DoneUnknown(c) ==
    /\ Step(c, "done", "over")
    /\ c \notin known
    /\ UNCHANGED <<quotaVars, entries, known, vm, unseen, doomed, gomoteVars>>

\* DestroyInstances, which may fail, and ledger.Remove.
DoneKnown(c) ==
    /\ Step(c, "done", "over")
    /\ c \in known
    /\ vm' \in {vm, vm \ {c}}
    /\ Remove(c)
    /\ UNCHANGED <<unseen, doomed, gomoteVars>>

-----------------------------------------------------------------------------
(* destroyUntrackedInstances *)

ListInstances ==
    /\ unseen = {} /\ doomed = {} /\ vm # {}
    /\ unseen' = vm
    /\ UNCHANGED <<quotaVars, phase, entries, known, vm, doomed, gomoteVars>>

\* Mutant: the entry is looked up and its ID is not.
LookUpByName(c) ==
    /\ c \in unseen
    /\ unseen' = unseen \ {c}
    /\ \E found \in BOOLEAN :
          /\ IsSession(c, found)
          /\ doomed' = IF found \/ c \in entries THEN doomed ELSE doomed \cup {c}
    /\ UNCHANGED <<quotaVars, phase, entries, known, vm, gomoteVars>>

\* The instance of a session is skipped, and so is one whose entry has an ID.
LookUp(c) ==
    /\ c \in unseen
    /\ unseen' = unseen \ {c}
    /\ \E found \in BOOLEAN :
          /\ IsSession(c, found)
          /\ doomed' = IF found \/ c \in known THEN doomed ELSE doomed \cup {c}
    /\ UNCHANGED <<quotaVars, phase, entries, known, vm, gomoteVars>>

\* DestroyInstances with all of them at once.
Destroy ==
    /\ unseen = {} /\ doomed # {}
    /\ vm' \in {vm, vm \ doomed}
    /\ doomed' = {}
    /\ UNCHANGED <<quotaVars, phase, entries, known, unseen, gomoteVars>>

GomoteStep(c) ==
    /\ \/ phase[c] = "used" /\ OpenSession(c)
       \/ EndSession(c)
       \/ KeepAliveLeaves(c)
    /\ UNCHANGED <<quotaVars, vmVars>>

\* A session whose buildlet is gone is not renewed for ever.
DeadSessionEnds(c) == phase[c] # "used" /\ EndSession(c) /\ UNCHANGED <<quotaVars, vmVars>>

\* retrieveAndSetQuota: once by NewEC2Buildlet, then every hour.
PollLimit == \E n \in Limits["cpu"] : UpdateLimit("cpu", n) /\ UNCHANGED ec2Vars

QuotaStep(t) ==
    /\ IF t = Poller THEN Updated("cpu", t) ELSE AwaitStep("cpu", t)
    /\ UNCHANGED ec2Vars

-----------------------------------------------------------------------------
ClientStep(c) ==
    \/ QuotaStep(c) \/ ReserveFails(c) \/ Reserve(c) \/ CreateInstance(c)
    \/ InstanceRuns(c) \/ UpdateReservation(c) \/ BuildletUp(c)
    \/ CreateFails(c) \/ DoneUnknown(c) \/ DoneKnown(c)

PoolNext ==
    \/ \E c \in Client : \/ Request(c) \/ Cancel(c) \/ ClientStep(c) \/ BuildletDone(c)
                         \/ LookUp(c) \/ GomoteStep(c)
    \/ ListInstances
    \/ Destroy
    \/ PollLimit
    \/ QuotaStep(Poller)

PoolSpec == PoolInit /\ [][PoolNext]_poolVars

\* Goroutines are scheduled, sessions with a dead buildlet expire, instances are
\* listed every two minutes, and EC2 grants a deletion that is asked for again and
\* again.  That builds or sessions end is not assumed.
PoolFairness ==
    /\ \A c \in Client : /\ WF_poolVars(ClientStep(c)) /\ WF_poolVars(LookUp(c))
                         /\ WF_poolVars(DeadSessionEnds(c))
    /\ SF_poolVars(Destroy /\ vm' # vm)
    /\ WF_poolVars(ListInstances) /\ WF_poolVars(Destroy)

PoolFairSpec == PoolSpec /\ PoolFairness

-----------------------------------------------------------------------------
(* Properties *)

Reserved == {"create", "wait running", "created", "boot", "used", "done"}

\* The ledger and the quota agree: an instance has an entry exactly while its
\* CPUs are charged, in spite of cancelled waits and failed creations.
LedgerMatchesQuota ==
    \A c \in Client :
        /\ c \in entries => c \in Charged("cpu") /\ at["cpu"][c] = "held"
        /\ phase[c] \in Reserved => c \in entries
        /\ c \in Charged("cpu") /\ c \notin entries => phase[c] = "reserve"

\* Instances whose GetBuildlet call failed or whose buildlet is gone are
\* destroyed in the end, deletions that fail at first and instances of sessions
\* included, or a KeepAlive left with the session pool's lock (remote.go:234) and
\* destroyUntrackedInstances hangs.
StrayInstancesGo ==
    \A c \in Client : c \in vm /\ phase[c] = "over" ~> c \notin vm \/ lockLost
=============================================================================
