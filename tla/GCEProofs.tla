----------------------------- MODULE GCEProofs -----------------------------
(***************************************************************************)
(* Proofs about GCEPool, for any clients, costs, limits and number of      *)
(* restarts.  A restart ends the refinement of Quota, so the invariant of  *)
(* the queues is carried along here, with the lemmas of QuotaProofs.       *)
(***************************************************************************)
EXTENDS GCEPool, QuotaProofs

Asking == {"pushed", "await", "cancelled", "refund", "refunded", "failed", "held"}
Back == {"returned", "done"}
Running == {"creating", "booting", "waiting", "used", "cleanup", "return inst"}
Phases == {"idle", "inst", "error", "cpu", "return cpu", "forget", "over", "lost"} \cup Running

\* Where the two items of a GetBuildlet call are in each of its phases.
ItemsOf(c) ==
    /\ phase[c] \in {"idle", "lost"} => at["inst"][c] = "new" /\ at["cpu"][c] = "new"
    /\ phase[c] = "inst"  => at["inst"][c] \in Asking /\ at["cpu"][c] = "new"
    /\ phase[c] = "cpu"   => at["inst"][c] = "held" /\ at["cpu"][c] \in Asking
    /\ phase[c] = "error" => \/ at["inst"][c] = "failed" /\ at["cpu"][c] = "new"
                             \/ at["inst"][c] \in Back /\ at["cpu"][c] = "failed"
    /\ phase[c] \in Running => at["inst"][c] = "held" /\ at["cpu"][c] = "held"
    /\ phase[c] = "return cpu" => at["inst"][c] \in Back /\ at["cpu"][c] = "held"
    /\ phase[c] \in {"forget", "over"} => at["inst"][c] \in Back /\ at["cpu"][c] \in Back

\* setInstanceUsed covers the life of the VM.
UseOf(c) == phase[c] \in Running \cup {"return cpu", "forget"} => c \in inst

CallOf(c) == ItemsOf(c) /\ UseOf(c)

GCEInv ==
    /\ QuotaInv
    /\ phase \in [Client -> Phases]
    /\ \A c \in Client : CallOf(c)

-----------------------------------------------------------------------------
LEMMA GCEInitInv == PoolInit => GCEInv
  <1>. SUFFICES ASSUME PoolInit PROVE GCEInv
    OBVIOUS
  <1>1. QuotaInv
    BY InitInv DEF PoolInit
  <1>. QED BY <1>1, GCEAssumption, PollerIsNoClient
           DEF PoolInit, QuotaInit, GCEInv, CallOf, ItemsOf, UseOf, Phases, Running, Thread

LEMMA InitInvNext == QuotaInit' => QuotaInv'
BY InitInv, PTL

\* A step that leaves the call c alone.
LEMMA CallKept ==
  ASSUME NEW c \in Client, CallOf(c), phase'[c] = phase[c],
         \A q \in Queue : at'[q][c] = at[q][c], c \in inst => c \in inst'
  PROVE  CallOf(c)'
BY GCEAssumption DEF CallOf, ItemsOf, UseOf

\* The invariant after a step of client c alone.
LEMMA OneCall ==
  ASSUME GCEInv, NEW c \in Client, QuotaInv', CallOf(c)',
         phase' \in [Client -> Phases],
         \A d \in Client : d # c => /\ phase'[d] = phase[d]
                                    /\ \A q \in Queue : at'[q][d] = at[q][d]
                                    /\ d \in inst => d \in inst'
  PROVE  GCEInv'
BY CallKept DEF GCEInv

\* How a client moves through a queue.
LEMMA QueueMoves ==
  ASSUME QuotaTypeOK, NEW q \in Queue, NEW t \in Thread, NEW p, Go(q, t, p)
  PROVE  \A r \in Queue, c \in Client : at'[r][c] = IF r = q /\ c = t THEN p ELSE at[r][c]
BY GoAt DEF Thread

LEMMA RequestsInv ==
  ASSUME GCEInv, NEW c \in Client, RequestInst(c) \/ RequestCPU(c) PROVE GCEInv'
  <1>. PICK q \in Queue : /\ Enqueue(q, c) /\ UNCHANGED <<inst>>
                          /\ \/ q = "inst" /\ Step(c, "idle", "inst")
                             \/ q = "cpu" /\ Step(c, "inst", "cpu") /\ at["inst"][c] = "held"
    BY GCEAssumption DEF RequestInst, RequestCPU
  <1>1. QuotaInv'
    BY EnqueueInv DEF GCEInv
  <1>2. \A r \in Queue, d \in Client : at'[r][d] = IF r = q /\ d = c THEN "pushed" ELSE at[r][d]
    BY QueueMoves DEF GCEInv, QuotaInv, Enqueue, Thread
  <1>3. /\ phase' \in [Client -> Phases]
        /\ \A d \in Client : d # c => phase'[d] = phase[d]
    BY DEF GCEInv, Step, Phases
  <1>4. CallOf(c)'
    BY <1>2, GCEAssumption DEF GCEInv, CallOf, ItemsOf, UseOf, Step, Running, Asking
  <1>. QED BY <1>1, <1>2, <1>3, <1>4, OneCall DEF GCEInv

LEMMA CancelInv == ASSUME GCEInv, NEW c \in Client, Cancel(c) PROVE GCEInv'
  <1>. PICK q \in Queue : AwaitCancelled(q, c) /\ UNCHANGED <<phase, inst>>
    BY DEF Cancel, gceVars, vmVars
  <1>1. QuotaInv'
    BY AwaitCancelledInv DEF GCEInv
  <1>2. \A r \in Queue, d \in Client : at'[r][d] = IF r = q /\ d = c THEN "cancelled" ELSE at[r][d]
    BY QueueMoves DEF GCEInv, QuotaInv, AwaitCancelled, Thread
  <1>3. at[q][c] = "await"
    BY DEF AwaitCancelled
  <1>4. CallOf(c)'
    BY <1>2, <1>3, GCEAssumption DEF GCEInv, CallOf, ItemsOf, UseOf, Running, Asking, Back, Phases
  <1>. QED BY <1>1, <1>2, <1>4, OneCall DEF GCEInv

LEMMA ReturnsInv ==
  ASSUME GCEInv, NEW c \in Client, CPUFails(c) \/ CleanupInst(c) \/ CleanupCPU(c) PROVE GCEInv'
  <1>. PICK q \in Queue :
          /\ ReturnQuota(q, c) /\ UNCHANGED <<inst>>
          /\ \/ q = "inst" /\ Step(c, "cpu", "error") /\ at["cpu"][c] = "failed"
             \/ q = "inst" /\ Step(c, "return inst", "return cpu")
             \/ q = "cpu" /\ Step(c, "return cpu", "forget")
    <2>1. CASE CPUFails(c)
      BY <2>1, GCEAssumption DEF CPUFails
    <2>2. CASE CleanupInst(c)
      BY <2>2, GCEAssumption DEF CleanupInst
    <2>3. CASE CleanupCPU(c)
      BY <2>3, GCEAssumption DEF CleanupCPU
    <2>. QED BY <2>1, <2>2, <2>3
  <1>1. QuotaInv'
    BY ReturnQuotaInv DEF GCEInv
  <1>2. \A r \in Queue, d \in Client : at'[r][d] = IF r = q /\ d = c THEN "returned" ELSE at[r][d]
    <2>1. QuotaTypeOK /\ q \in Queue /\ c \in Thread /\ Go(q, c, "returned")
      BY DEF GCEInv, QuotaInv, ReturnQuota, Thread
    <2>. QED BY ONLY <2>1, QueueMoves
  <1>3. /\ phase' \in [Client -> Phases]
        /\ \A d \in Client : d # c => phase'[d] = phase[d]
    BY DEF GCEInv, Step, Phases
  <1>4. CallOf(c)'
    BY <1>2, GCEAssumption DEF GCEInv, CallOf, ItemsOf, UseOf, Step, Running, Back
  <1>. QED BY <1>1, <1>2, <1>3, <1>4, OneCall DEF GCEInv

\* Steps of a call that leave both queues alone.
LEMMA AloneInv ==
  ASSUME GCEInv, NEW c \in Client, UNCHANGED quotaVars,
         \/ Step(c, "inst", "error") /\ at["inst"][c] = "failed" /\ UNCHANGED inst
         \/ Step(c, "cpu", "creating") /\ at["cpu"][c] = "held" /\ inst' = inst \cup {c}
         \/ (\E from, to \in Running : Step(c, from, to)) /\ UNCHANGED inst
         \/ Step(c, "forget", "over") /\ inst' = inst \ {c}
  PROVE  GCEInv'
  <1>1. QuotaInv' /\ at' = at
    BY NextInv DEF GCEInv, quotaVars
  <1>2. /\ phase' \in [Client -> Phases]
        /\ \A d \in Client : d # c => phase'[d] = phase[d] /\ (d \in inst => d \in inst')
    BY DEF GCEInv, Step, Phases, Running
  <1>3. CallOf(c)'
    BY <1>1 DEF GCEInv, CallOf, ItemsOf, UseOf, Step, Running, Asking, Back
  <1>. QED BY <1>1, <1>2, <1>3, OneCall DEF GCEInv

\* updated(), Await and its refund.
LEMMA QueueStepInv == ASSUME GCEInv, NEW t \in Thread, QuotaStep(t) PROVE GCEInv'
  <1>. PICK q \in Queue : IF t = Poller THEN Updated(q, t) ELSE AwaitStep(q, t)
    BY DEF QuotaStep
  <1>0. UNCHANGED <<phase, inst>>
    BY DEF QuotaStep, gceVars, vmVars
  <1>1. QuotaInv'
    BY TryPopInv, LeaveUpdatedInv, AwaitPoppedInv, RefundInv DEF AwaitStep, Updated, Thread, GCEInv
  <1>2. CASE UNCHANGED at
    BY <1>0, <1>1, <1>2, CallKept DEF GCEInv
  <1>3. ASSUME NEW p, Go(q, t, p),
               \/ /\ at[q][t] \in Asking \ {"held", "failed"}
                  /\ p \in {"await", "refund", "failed", "held", "refunded"}
               \/ at[q][t] = "returned" /\ p = "done"
               \/ t = Poller
        PROVE  GCEInv'
    <2>1. \A r \in Queue, d \in Client : at'[r][d] = IF r = q /\ d = t THEN p ELSE at[r][d]
      BY <1>3, QueueMoves DEF GCEInv, QuotaInv
    <2>2. ASSUME NEW c \in Client PROVE CallOf(c)'
      <3>1. CASE c # t
        BY <1>0, <2>1, <3>1, CallKept DEF GCEInv
      <3>2. CASE c = t
        <4>1. CallOf(c) /\ phase[c] \in Phases /\ c # Poller
          BY PollerIsNoClient DEF GCEInv
        <4>. QED BY <1>0, <1>3, <2>1, <3>2, <4>1, GCEAssumption
                 DEF CallOf, ItemsOf, UseOf, Running, Asking, Back, Phases
      <3>. QED BY <3>1, <3>2
    <2>. QED BY <1>0, <1>1, <2>2 DEF GCEInv
  <1>4. After["pushed"] = "await" /\ After["cancelled"] = "refund"
        /\ After["refunded"] = "failed" /\ After["returned"] = "done"
    BY DEF After
  <1>5. CASE t = Poller
    BY <1>2, <1>3, <1>5 DEF Updated, TryPop, LeaveUpdated
  <1>6. CASE t # Poller
    <2>1. at[q][t] # "reported"
      <3>1. t \in Client /\ CallOf(t) /\ phase[t] \in Phases
        BY <1>6 DEF GCEInv, Thread
      <3>. QED BY <3>1, GCEAssumption DEF CallOf, ItemsOf, Running, Asking, Back, Phases
    <2>2. AwaitStep(q, t)
      BY <1>6
    <2>3. CASE TryPop(q, t)
      BY <1>2, <2>3 DEF TryPop
    <2>4. CASE LeaveUpdated(q, t)
      BY <1>3, <1>4, <2>1, <2>4 DEF LeaveUpdated, Updating, Asking
    <2>5. CASE AwaitPopped(q, t) \/ Refund(q, t)
      BY <1>3, <2>5 DEF AwaitPopped, Refund, Asking
    <2>. QED BY <2>2, <2>3, <2>4, <2>5 DEF AwaitStep, Updated
  <1>. QED BY <1>5, <1>6

LEMMA PollInv == ASSUME GCEInv, PollUntracked \/ \E q \in Queue : PollLimit(q) PROVE GCEInv'
  <1>. PICK q \in Queue, n \in Int : UpdateLimit(q, n) \/ UpdateUntracked(q, n)
    BY GCEAssumption, QuotaAssumption DEF PollUntracked, PollLimit, GCEInv
  <1>1. UNCHANGED <<phase, inst>>
    BY DEF PollUntracked, PollLimit, gceVars, vmVars
  <1>2. QuotaInv'
    BY ReportInv DEF GCEInv
  <1>3. \A r \in Queue, d \in Client : at'[r][d] = at[r][d]
    <2>1. Go(q, Poller, "reported") /\ Poller \in Thread
      BY DEF UpdateLimit, UpdateUntracked, Thread
    <2>. QED BY <2>1, QueueMoves, PollerIsNoClient DEF GCEInv, QuotaInv
  <1>. QED BY <1>1, <1>2, <1>3, CallKept DEF GCEInv

LEMMA RestartInv == ASSUME GCEInv, Restart PROVE GCEInv'
  <1>1. QuotaInit'
    BY DEF Restart, QuotaInit
  <1>2. QuotaInv'
    BY <1>1, InitInvNext
  <1>3. ASSUME NEW c \in Client PROVE CallOf(c)'
    <2>1. at'["inst"][c] = "new" /\ at'["cpu"][c] = "new"
      BY GCEAssumption, PollerIsNoClient DEF Restart, Thread
    <2>2. phase'[c] \in {"idle", "lost"}
      BY DEF Restart
    <2>. QED BY <2>1, <2>2 DEF CallOf, ItemsOf, UseOf, Running
  <1>. QED BY <1>2, <1>3 DEF GCEInv, Restart, Phases

LEMMA GCENextInv == GCEInv /\ [PoolNext]_poolVars => GCEInv'
  <1>. SUFFICES ASSUME GCEInv, [PoolNext]_poolVars PROVE GCEInv'
    OBVIOUS
  <1>1. ASSUME NEW c \in Client,
               InstFails(c) \/ Announce(c) \/ CreateFails(c) \/ Insert(c) \/ OperationLost(c)
                 \/ InstanceCreated(c) \/ BuildletFails(c) \/ BuildletUp(c) \/ PeerDead(c)
                 \/ CleanupDelete(c) \/ CleanupForget(c)
        PROVE  GCEInv'
    BY <1>1, AloneInv
       DEF InstFails, Announce, CreateFails, Insert, OperationLost, InstanceCreated, BuildletFails,
           BuildletUp, PeerDead, CleanupDelete, CleanupForget, Running
  <1>2. ASSUME UNCHANGED <<quotaVars, phase, inst>> PROVE GCEInv'
    <2>1. QuotaInv' /\ at' = at
      BY <1>2, NextInv DEF GCEInv, quotaVars
    <2>. QED BY <1>2, <2>1, CallKept DEF GCEInv
  <1>3. (\E c \in Client : CleanVM(c) \/ Expire(c) \/ GomoteStep(c)) \/ UNCHANGED poolVars => GCEInv'
    BY <1>2 DEF CleanVM, Expire, GomoteStep, poolVars, gceVars, vmVars, GCEInv
  <1>. QED BY <1>1, <1>3, RequestsInv, CancelInv, ReturnsInv, QueueStepInv, PollInv, RestartInv
           DEF PoolNext, ClientStep, Thread

\* The inductive invariant: the queues', and where the two items of each call are.
THEOREM GCEInvariant == PoolSpec => []GCEInv
BY GCEInitInv, GCENextInv, PTL DEF PoolSpec

\* The queues of a pool keep their promises across restarts of the coordinator.
THEOREM GCEQueuesKeepPromises == PoolSpec => [](NoLostWakeup /\ WaitersArePresent)
  <1>1. GCEInv => NoLostWakeup /\ WaitersArePresent
    BY DEF GCEInv, QuotaInv
  <1>. QED BY <1>1, GCEInvariant, PTL

\* A call of GetBuildlet that failed, ended or was lost has nothing charged to
\* either queue, and its VM is charged to both while it counts as used,
\* whichever step fails, is cancelled or is cut short by a restart.
THEOREM QuotaIsFollowed == PoolSpec => []QuotaFollowsVM
  <1>1. ASSUME GCEInv PROVE QuotaFollowsVM
    <2>. SUFFICES ASSUME NEW c \in Client, NEW q \in Queue
                  PROVE  /\ phase[c] \in {"error", "over", "lost"} => c \notin Charged(q)
                         /\ phase[c] \in {"creating", "booting", "waiting", "used", "cleanup"}
                              => c \in Charged(q)
      BY DEF QuotaFollowsVM
    <2>1. ItemsOf(c) /\ WaitersArePresent
      BY <1>1 DEF GCEInv, CallOf, QuotaInv
    <2>2. at[q][c] = "held" => c \in popped[q]
      BY <2>1 DEF WaitersArePresent
    <2>. QED BY <2>1, <2>2, GCEAssumption DEF ItemsOf, Running, Back, Charged
  <1>. QED BY <1>1, GCEInvariant, PTL

\* The cleaning loop deletes the VM of a running build only past its delete-at
\* time: setInstanceUsed precedes the VM and outlives it.
THEOREM BuildsKeepTheirVM == PoolSpec => UsedVMsAreKept
  <1>. DEFINE Kept == \A c \in vm \ vm' :
                          phase[c] \in {"booting", "waiting", "used"} => c \in expired
  <1>1. GCEInv /\ [PoolNext]_poolVars => [Kept]_poolVars
    <2>. SUFFICES ASSUME GCEInv, PoolNext PROVE Kept
      OBVIOUS
    <2>1. \/ vm \subseteq vm'
          \/ \E c \in Client : CleanupDelete(c) \/ CleanVM(c)
      BY DEF PoolNext, ClientStep, RequestInst, Cancel, InstFails, RequestCPU, CPUFails, Announce,
             CreateFails, Insert, OperationLost, InstanceCreated, BuildletFails, BuildletUp,
             CleanupInst, CleanupCPU, CleanupForget, PeerDead, Expire, QuotaStep, PollLimit,
             PollUntracked, Restart, GomoteStep, gceVars, vmVars
    <2>2. ASSUME NEW c \in Client, CleanupDelete(c) PROVE Kept
      BY <2>2 DEF CleanupDelete, DeleteVM, Step
    <2>3. ASSUME NEW c \in Client, CleanVM(c) PROVE Kept
      <3>1. UseOf(c)
        BY DEF GCEInv, CallOf
      <3>. QED BY <2>3, <3>1 DEF CleanVM, MayClean, DeleteVM, UseOf, Running
    <2>. QED BY <2>1, <2>2, <2>3
  <1>2. PoolSpec => [][Kept]_poolVars
    BY <1>1, GCEInvariant, PTL DEF PoolSpec
  <1>. QED BY <1>2 DEF UsedVMsAreKept

=============================================================================
