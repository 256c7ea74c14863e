---------------------------- MODULE ReversePool ----------------------------
(***************************************************************************)
(* The coordinator's pool of reverse buildlets, machines that connect by   *)
(* themselves, src/internal/coordinator/pool/reverse.go, over the clients  *)
(* of module BuildletClient and the queues of module QuotaService, for one *)
(* host type.  A queue is told how many buildlets are connected and in use *)
(* instead of what callers return.  A critical section under p.mu is a     *)
(* step, except where it makes the host type's queue: GetBuildlet does so  *)
(* too, and without p.mu.                                                  *)
(***************************************************************************)
EXTENDS QuotaService, BuildletClient

None == "none"

ASSUME ReverseAssumption ==
    /\ \A q \in Queue : \A c \in Client : Cost[q][c] = 1
    /\ None \notin Machine \cup Queue

VARIABLES
    hostQueue,  \* p.hostQueue[hostType], None while it is nil
    made,       \* the queues that NewQuota has returned
    muHeld,     \* updateQuotasLocked is making a queue, with p.mu
    reg,        \* HandleReverse: "no", "asking", "answered", "added", "refused"
    watched,    \* buildlets whose goroutine that waits for revDialerDone is over
    pool,       \* p.buildlets
    inUse, inHealthCheck,
    health,     \* healthCheckBuildletLoop: "off", "sleeping", "checking", "ended"
    refresh,    \* buildlets for which a goroutine is about to call updateQuotas
    doomed,     \* buildlets that a failed health check is about to nuke
    closing,    \* buildlets that a failed health check is about to close
    phase,      \* GetBuildlet and the build that follows
    has         \* the buildlet that a client got

hostVars == <<hostQueue, made, muHeld>>
regVars == <<reg, watched>>
listVars == <<pool, inUse, inHealthCheck>>
healthVars == <<health, refresh, doomed, closing>>
buildVars == <<phase, has>>
reverseVars == <<hostVars, regVars, listVars, healthVars, buildVars>>
poolVars == <<serviceVars, clientVars, reverseVars>>

PoolInit ==
    /\ ServiceInit /\ ClientInit
    /\ hostQueue = None /\ made = {} /\ muHeld = FALSE
    /\ reg = [b \in Machine |-> "no"] /\ watched = {}
    /\ pool = {} /\ inUse = {} /\ inHealthCheck = {}
    /\ health = [b \in Machine |-> "off"]
    /\ refresh = {} /\ doomed = {} /\ closing = {}
    /\ phase = [c \in Client |-> "idle"]
    /\ has = [c \in Client |-> None]

\* hostTypeQueue that found no queue makes one and stores it, whatever is
\* stored by then.
StoreQueue(q) == q \in Queue \ made /\ hostQueue' = q /\ made' = made \cup {q}

\* What NewQuota returns next: which one it is does not matter.
Fresh == CHOOSE q \in Queue \ made : TRUE

\* The bound on how many goroutines are about to store a queue: Queue suffices.
MayMake ==
    Cardinality({c \in Client : phase[c] = "making"}) + (IF muHeld THEN 1 ELSE 0)
        < Cardinality(Queue \ made)

ReportUse(q, S, use) == ReportBoth(q, Cardinality(S \cap use), Cardinality(S))

\* updateQuotasLocked, with the buildlets and their use as the caller leaves
\* them: a host type without buildlets is not updated.  When it finds no queue
\* p.mu stays locked for another step, FinishUpdate.
UpdateQuotasLocked(S, use) ==
    /\ ~muHeld
    /\ CASE S = {} -> UNCHANGED <<serviceVars, hostVars>>
         [] S # {} /\ hostQueue # None -> ReportUse(hostQueue, S, use) /\ UNCHANGED hostVars
         [] OTHER -> MayMake /\ muHeld' = TRUE /\ UNCHANGED <<serviceVars, hostQueue, made>>

FinishUpdate ==
    /\ muHeld /\ muHeld' = FALSE
    /\ StoreQueue(Fresh)
    /\ ReportUse(Fresh, pool, inUse)
    /\ UNCHANGED <<clientVars, regVars, listVars, healthVars, buildVars>>

\* updateQuotas, deferred by addBuildlet and by every health check.
UpdateQuotas(b) ==
    /\ b \in refresh
    /\ UpdateQuotasLocked(pool, inUse)
    /\ refresh' = refresh \ {b}
    /\ UNCHANGED <<clientVars, regVars, listVars, health, doomed, closing, buildVars>>

Health(b, to) == health' = [health EXCEPT ![b] = to]

HeldBy(b) == {c \in Client : phase[c] \in {"clean", "build"} /\ has[c] = b}

-----------------------------------------------------------------------------
(* HandleReverse *)

Register(b, from, to) == reg[b] = from /\ reg' = [reg EXCEPT ![b] = to]

Connect(b) ==
    /\ Register(b, "no", "asking")
    /\ StartBeats(b)
    /\ UNCHANGED <<serviceVars, hostVars, peer, failInARow, broken, dead, watched, listVars, healthVars, buildVars>>

\* The machine's buildlet, which runs in a loop, connects again once nothing is
\* left of the last connection: a new client under the old name.
Reconnect(b) ==
    /\ reg[b] \in {"added", "refused"}
    /\ beats[b] = "ended" /\ b \in watched /\ health[b] \in {"off", "ended"}
    /\ b \notin pool \cup refresh \cup doomed \cup closing
    /\ HeldBy(b) = {}
    /\ reg' = [reg EXCEPT ![b] = "no"] /\ watched' = watched \ {b}
    /\ peer' = [peer EXCEPT ![b] = "up"] /\ failInARow' = [failInARow EXCEPT ![b] = 0]
    /\ broken' = broken \ {b} /\ dead' = dead \ {b}
    /\ beats' = [beats EXCEPT ![b] = "off"]
    /\ inUse' = inUse \ {b} /\ inHealthCheck' = inHealthCheck \ {b}
    /\ Health(b, "off")
    /\ UNCHANGED <<serviceVars, hostVars, pool, refresh, doomed, closing, buildVars>>

StatusAnswered(b) ==
    /\ Register(b, "asking", "answered")
    /\ Answers(b)
    /\ UNCHANGED <<serviceVars, hostVars, clientVars, watched, listVars, healthVars, buildVars>>

\* No answer, or the version is too old: conn.Close().
StatusRefused(b) ==
    /\ Register(b, "asking", "refused")
    /\ peer' = [peer EXCEPT ![b] = "gone"]
    /\ UNCHANGED <<serviceVars, hostVars, failInARow, broken, dead, beats, watched, listVars, healthVars, buildVars>>

AddBuildlet(b) ==
    /\ ~muHeld
    /\ Register(b, "answered", "added")
    /\ pool' = pool \cup {b}
    /\ health' = [health EXCEPT ![b] = "sleeping"]
    /\ refresh' = refresh \cup {b}
    /\ UNCHANGED <<serviceVars, hostVars, clientVars, watched, inUse, inHealthCheck, doomed, closing, buildVars>>

\* <-revDialerDone: client.Close() unless isDead, with its lock.
WatchCloses(b) ==
    /\ b \notin watched /\ reg[b] # "no" /\ peer[b] = "gone"
    /\ watched' = watched \cup {b}
    /\ IF beats[b] \in {"failing", "ended"} THEN UNCHANGED clientVars ELSE CloseClient(b)
    /\ UNCHANGED <<serviceVars, hostVars, reg, listVars, healthVars, buildVars>>

\* The function given to SetOnHeartbeatFailure: isDead (in NoticeDeath),
\* conn.Close() and nukeBuildlet.
FailureNukes(b) ==
    /\ BeatsEnd(b)
    /\ UpdateQuotasLocked(pool \ {b}, inUse)
    /\ pool' = pool \ {b}
    /\ peer' = [peer EXCEPT ![b] = "gone"]
    /\ UNCHANGED <<failInARow, broken, dead, regVars, inUse, inHealthCheck, healthVars, buildVars>>

-----------------------------------------------------------------------------
(* healthCheckBuildletLoop *)

Awake(b) == health[b] = "sleeping" /\ b \notin refresh

HealthFindsBroken(b) ==
    /\ Awake(b) /\ b \in broken
    /\ Health(b, "ended")
    /\ refresh' = refresh \cup {b}
    /\ UNCHANGED <<serviceVars, hostVars, clientVars, regVars, listVars, doomed, closing, buildVars>>

HealthSkips(b) ==
    /\ ~muHeld
    /\ Awake(b) /\ b \notin broken
    /\ b \in inUse
    /\ refresh' = refresh \cup {b}
    /\ UNCHANGED <<serviceVars, hostVars, clientVars, regVars, listVars, health, doomed, closing, buildVars>>

\* Mutant: busy buildlets are checked as well.
HealthStartsAlways(b) ==
    /\ ~muHeld
    /\ Awake(b) /\ b \notin broken
    /\ inUse' = inUse \cup {b} /\ inHealthCheck' = inHealthCheck \cup {b}
    /\ Health(b, "checking")
    /\ UNCHANGED <<serviceVars, hostVars, clientVars, regVars, pool, refresh, doomed, closing, buildVars>>

HealthStarts(b) ==
    /\ ~muHeld
    /\ Awake(b) /\ b \notin broken
    /\ b \notin inUse
    /\ inUse' = inUse \cup {b} /\ inHealthCheck' = inHealthCheck \cup {b}
    /\ Health(b, "checking")
    /\ UNCHANGED <<serviceVars, hostVars, clientVars, regVars, pool, refresh, doomed, closing, buildVars>>

\* Mutant: the queue is not told that the buildlet is free again.
HealthPassesSilently(b) ==
    /\ ~muHeld
    /\ health[b] = "checking" /\ Answers(b)
    /\ Health(b, "sleeping")
    /\ inUse' = inUse \ {b} /\ inHealthCheck' = inHealthCheck \ {b}
    /\ UNCHANGED <<serviceVars, hostVars, clientVars, regVars, pool, refresh, doomed, closing, buildVars>>

HealthPasses(b) ==
    /\ ~muHeld
    /\ health[b] = "checking" /\ Answers(b)
    /\ Health(b, "sleeping")
    /\ IF b \in inHealthCheck
       THEN inUse' = inUse \ {b} /\ inHealthCheck' = inHealthCheck \ {b}
       ELSE UNCHANGED <<inUse, inHealthCheck>>
    /\ refresh' = refresh \cup {b}
    /\ UNCHANGED <<serviceVars, hostVars, clientVars, regVars, pool, doomed, closing, buildVars>>

\* Mutant: a buildlet that failed its check is free until it is nuked.
HealthFailsAndFrees(b) ==
    /\ health[b] = "checking" /\ MayFail(b)
    /\ Health(b, "ended")
    /\ closing' = closing \cup {b} /\ doomed' = doomed \cup {b}
    /\ inUse' = inUse \ {b} /\ inHealthCheck' = inHealthCheck \ {b}
    /\ refresh' = refresh \cup {b}
    /\ UNCHANGED <<serviceVars, hostVars, clientVars, regVars, pool, buildVars>>

\* An error or 20 seconds: go b.client.Close(), go p.nukeBuildlet(b.client).
HealthFails(b) ==
    /\ health[b] = "checking" /\ MayFail(b)
    /\ Health(b, "ended")
    /\ closing' = closing \cup {b} /\ doomed' = doomed \cup {b}
    /\ refresh' = refresh \cup {b}
    /\ UNCHANGED <<serviceVars, hostVars, clientVars, regVars, listVars, buildVars>>

\* nukeBuildlet: the connection is closed if the buildlet is found.
HealthNukes(b) ==
    /\ b \in doomed
    /\ doomed' = doomed \ {b}
    /\ UpdateQuotasLocked(pool \ {b}, inUse)
    /\ pool' = pool \ {b}
    /\ peer' = [peer EXCEPT ![b] = IF b \in pool THEN "gone" ELSE @]
    /\ UNCHANGED <<failInARow, broken, dead, beats, regVars, inUse, inHealthCheck, health,
                   refresh, closing, buildVars>>

HealthCloses(b) ==
    /\ b \in closing
    /\ closing' = closing \ {b}
    /\ CloseClient(b)
    /\ UNCHANGED <<serviceVars, hostVars, regVars, listVars, health, refresh, doomed, buildVars>>

-----------------------------------------------------------------------------
(* GetBuildlet *)

Step(c, from, to) == phase[c] = from /\ phase' = [phase EXCEPT ![c] = to]

\* AwaitQueue on the queue that hostTypeQueue found.
Request(c) ==
    /\ Step(c, "idle", "await")
    /\ hostQueue # None /\ Ask(hostQueue, c)
    /\ UNCHANGED <<hostVars, clientVars, regVars, listVars, healthVars, has>>

\* hostTypeQueue, without p.mu, finds no queue,
SeesNoQueue(c) ==
    /\ Step(c, "idle", "making")
    /\ hostQueue = None
    /\ MayMake
    /\ UNCHANGED <<serviceVars, hostVars, clientVars, regVars, listVars, healthVars, has>>

\* and stores its own.  A queue that is stored in between is replaced.  (One that
\* replaces the new queue before AwaitQueue is called is as if c had come later.)
RequestOnNew(c) ==
    /\ Step(c, "making", "await")
    /\ StoreQueue(Fresh) /\ Ask(Fresh, c)
    /\ UNCHANGED <<muHeld, clientVars, regVars, listVars, healthVars, has>>

\* c's item, in the queue that its call of hostTypeQueue returned, is there.
Item(c, st) == \E q \in Queue : state[q][c] = st

\* Nothing refers to c's item any more.
Forget(c) ==
    /\ state' = [q \in Queue |-> [state[q] EXCEPT ![c] = "new"]]
    /\ granted' = [q \in Queue |-> granted[q] \ {c}]
    /\ UNCHANGED <<waiting, limit, used, untrackedUsed>>

AwaitFails(c) ==
    /\ Step(c, "await", "over")
    /\ Item(c, "failed") /\ Forget(c)
    /\ UNCHANGED <<hostVars, clientVars, regVars, listVars, healthVars, has>>

\* The context ends while the item is queued, or while the loop sleeps: then the
\* quota is not returned.
CancelAwait(c) == (\E q \in Queue : GiveUp(q, c)) /\ UNCHANGED <<clientVars, reverseVars>>

CancelGrab(c) ==
    /\ Step(c, "await", "over")
    /\ Item(c, "held") /\ Forget(c)
    /\ UNCHANGED <<hostVars, clientVars, regVars, listVars, healthVars, has>>

Grabbable == pool \ inUse

\* tryToGrab: the first unused match.  The order of the list is not modelled.
TryToGrab(c, b) ==
    /\ Step(c, "await", "clean")
    /\ Item(c, "held")
    /\ b \in Grabbable
    /\ inUse' = inUse \cup {b}
    /\ has' = [has EXCEPT ![c] = b]
    /\ UpdateQuotasLocked(pool, inUse \cup {b})
    /\ UNCHANGED <<clientVars, regVars, pool, inHealthCheck, healthVars>>

\* tryToGrab finds none; GetBuildlet sleeps and goes round.
TryInVain(c) ==
    /\ phase[c] = "await"
    /\ Item(c, "held")
    /\ Grabbable = {}
    /\ UpdateQuotasLocked(pool, inUse)
    /\ UNCHANGED <<clientVars, regVars, listVars, healthVars, buildVars>>

\* cleanedBuildlet: RemoveAll.
Cleaned(c) ==
    /\ Step(c, "clean", "build")
    /\ Answers(has[c])
    /\ UNCHANGED <<serviceVars, hostVars, clientVars, regVars, listVars, healthVars, has>>

\* The client is closed by cleanedBuildlet when RemoveAll fails, or by the
\* caller at the end of the build.
CloseBuildlet(c) ==
    /\ \/ phase[c] = "clean" /\ MayFail(has[c])
       \/ phase[c] = "build"
    /\ phase' = [phase EXCEPT ![c] = "over"]
    /\ has' = [has EXCEPT ![c] = None]
    /\ CloseClient(has[c])
    /\ Forget(c)
    /\ UNCHANGED <<hostVars, regVars, listVars, healthVars>>

\* Exec cannot be carried out.
ExecFails(c) ==
    /\ phase[c] = "build"
    /\ has[c] \notin broken
    /\ MarkBroken(has[c])
    /\ UNCHANGED <<serviceVars, reverseVars>>

-----------------------------------------------------------------------------
QuotaStep(c) ==
    /\ \E q \in Queue : Grant(q, c) \/ Obtain(q, c) \/ Leave(q, c)
    /\ UNCHANGED <<clientVars, reverseVars>>

BeatStep(b) ==
    /\ BeatAnswered(b) \/ BeatFails(b) \/ NoticeDeath(b)
    /\ UNCHANGED <<serviceVars, reverseVars>>

Weather(b) ==
    /\ Hang(b) \/ Recover(b) \/ Vanish(b)
    /\ UNCHANGED <<serviceVars, reverseVars>>

HealthStep(b) ==
    \/ HealthFindsBroken(b) \/ HealthSkips(b) \/ HealthStarts(b) \/ HealthPasses(b)
    \/ HealthFails(b) \/ HealthNukes(b) \/ HealthCloses(b) \/ UpdateQuotas(b)

RegStep(b) == AddBuildlet(b) \/ WatchCloses(b) \/ FailureNukes(b)

BuildStep(c) == RequestOnNew(c) \/ QuotaStep(c) \/ AwaitFails(c) \/ Cleaned(c) \/ CloseBuildlet(c)

PoolNext ==
    \/ \E b \in Machine : \/ Connect(b) \/ Reconnect(b) \/ StatusAnswered(b) \/ StatusRefused(b)
                          \/ RegStep(b)
                          \/ HealthStep(b) \/ BeatStep(b) \/ Weather(b)
    \/ \E c \in Client : \/ SeesNoQueue(c) \/ Request(c) \/ CancelAwait(c) \/ CancelGrab(c)
                         \/ TryInVain(c) \/ (\E b \in Machine : TryToGrab(c, b))
                         \/ BuildStep(c) \/ ExecFails(c)
    \/ FinishUpdate

PoolSpec == PoolInit /\ [][PoolNext]_poolVars

\* Goroutines are scheduled; heartbeats and health checks go on every ten
\* seconds; GetBuildlet looks again and again, and a buildlet is free for most of
\* the time between two checks; builds end.
PoolFairness ==
    /\ \A b \in Machine : /\ WF_poolVars(BeatStep(b)) /\ WF_poolVars(RegStep(b))
                          /\ WF_poolVars(HealthStep(b))
    /\ WF_poolVars(FinishUpdate)
    /\ \A c \in Client : /\ WF_poolVars(BuildStep(c))
                         /\ SF_poolVars(\E b \in Machine : TryToGrab(c, b))

PoolFairSpec == PoolSpec /\ PoolFairness

-----------------------------------------------------------------------------
(* Properties *)

\* A buildlet is used by one build at a time, and never while its health check
\* runs: grabbing, checking and freeing are separate critical sections, and
\* the check frees what it marked.
OneUser == \A b \in Machine : Cardinality(HeldBy(b)) + (IF health[b] = "checking" THEN 1 ELSE 0) <= 1

\* A buildlet is taken out of the pool, and its connection closed, while a build
\* uses it only after its client is dead: a health check that fails late does
\* not hit the build that came after it.
HeldUntilDead ==
    [][\A b \in pool \ pool' : HeldBy(b) # {} => b \in dead]_poolVars

\* A client that died before HandleReverse added its buildlet: its heartbeats
\* are over and will not remove it, and the health check ended too, because the
\* client is marked as broken.
Zombie(b) == beats[b] = "ended" /\ health[b] = "ended" /\ b \notin doomed

\* No buildlet whose client is dead stays in the pool for good, unless it was
\* dead when it was added.
DeathEmptiesPool ==
    \A b \in Machine : []<>(b \in pool /\ b \in dead => Zombie(b))

\* A client waits in a queue that a second call of hostTypeQueue has replaced:
\* no report reaches it any more.
Lost(c) == \E q \in Queue \ {hostQueue} : c \in waiting[q]

\* Nobody waits for ever beside a machine that stays idle, except in a queue
\* that was replaced: whatever quota was overwritten, returned twice or never
\* returned, the counts that health checks report set it right ("no need to
\* return quota when done").
IdleMachineIsUsed ==
    \A b \in Machine :
        <>[](b \in pool /\ Answers(b) /\ b \notin broken /\ HeldBy(b) = {})
            => <>[](\A c \in Client : phase[c] = "await" => Lost(c))

\* The pool gets over what happens to its machines: the dead leave it and the
\* idle are used.  The two exceptions are the code's: a buildlet that was dead
\* when it was added, and a waiter whose queue was overwritten by a call of
\* hostTypeQueue that did not hold p.mu.
PoolRecovers == DeathEmptiesPool /\ IdleMachineIsUsed
=============================================================================
