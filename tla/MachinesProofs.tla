--------------------------- MODULE MachinesProofs ---------------------------
(***************************************************************************)
(* The machines that connect to the coordinator by themselves, the Macs    *)
(* that makemac leases, and what machines send.                            *)
(***************************************************************************)
EXTENDS ReversePool, MakeMac, Pargzip, FiniteSetTheorems, TLAPS

-----------------------------------------------------------------------------
(***************************************************************************)
(* Proofs of OneUser and HeldUntilDead for any number of machines, builds, *)
(* missed heartbeats and reports to the queue.  What marks a buildlet as   *)
(* used, what marks it as checked, and what has doomed it live in three    *)
(* variables that separate critical sections change; the invariant says    *)
(* how they hang together in between.                                      *)
(***************************************************************************)

Holds(c, b) == phase[c] \in {"clean", "build"} /\ has[c] = b

ReverseTypes ==
    /\ phase \in [Client -> {"idle", "making", "await", "clean", "build", "over"}]
    /\ has \in [Client -> Machine \cup {None}]
    /\ health \in [Machine -> {"off", "sleeping", "checking", "ended"}]
    /\ reg \in [Machine -> {"no", "asking", "answered", "added", "refused"}]
    /\ beats \in [Machine -> {"off", "on", "failing", "ended"}]

\* Who holds a buildlet holds one, and it is marked as used.
HeldInUse == \A c \in Client : phase[c] \in {"clean", "build"} => has[c] \in Machine \cap inUse

HeldOnce == \A b \in Machine : \A c, d \in Client : Holds(c, b) /\ Holds(d, b) => c = d

\* A check is over before its mark is; no build has what is marked.
CheckIsMarked == \A b \in Machine : health[b] = "checking" => b \in inHealthCheck

MarkedIsFree ==
    \A b \in Machine : b \in inHealthCheck => b \in inUse /\ \A c \in Client : ~Holds(c, b)

\* A buildlet that failed its check keeps its mark until it is nuked, or longer.
DoomedIsMarked ==
    \A b \in Machine : b \in doomed => b \in inHealthCheck /\ health[b] = "ended" /\ reg[b] = "added"

CheckedIsAdded == \A b \in Machine : health[b] \in {"sleeping", "checking"} => reg[b] = "added"

FailingIsDead == \A b \in Machine : beats[b] = "failing" => b \in dead

UseInv ==
    /\ HeldInUse /\ HeldOnce
    /\ CheckIsMarked /\ MarkedIsFree /\ DoomedIsMarked /\ CheckedIsAdded

ReverseInv == ReverseTypes /\ UseInv /\ FailingIsDead

LEMMA ReverseInitInv == PoolInit => ReverseInv
BY DEF PoolInit, ClientInit, ReverseInv, ReverseTypes, UseInv, HeldInUse, HeldOnce, CheckIsMarked,
       MarkedIsFree, DoomedIsMarked, CheckedIsAdded, FailingIsDead, Holds

\* The variables that the use of buildlets is about.
useVars == <<phase, has, inUse, inHealthCheck, health, doomed, reg>>

LEMMA UseUnchanged == ASSUME UseInv, UNCHANGED useVars PROVE UseInv'
BY DEF useVars, UseInv, HeldInUse, HeldOnce, CheckIsMarked, MarkedIsFree, DoomedIsMarked, CheckedIsAdded, Holds

-----------------------------------------------------------------------------
\* Heartbeats and Close: only a dead client's heartbeats fail.

LEMMA CloseClientDead ==
    ASSUME NEW b \in Machine, CloseClient(b), FailingIsDead, ReverseTypes
    PROVE  FailingIsDead' /\ beats' \in [Machine -> {"off", "on", "failing", "ended"}]
BY DEF CloseClient, StartBeats, SetPeerDead, FailingIsDead, ReverseTypes

LEMMA BeatInv == ASSUME ReverseInv, NEW b \in Machine, BeatStep(b) \/ Weather(b) PROVE ReverseInv'
<1>1. UNCHANGED reverseVars
    BY DEF BeatStep, Weather
<1>2. UseInv'
    BY <1>1, UseUnchanged DEF reverseVars, regVars, listVars, healthVars, buildVars, useVars, ReverseInv
<1>3. ReverseTypes' /\ FailingIsDead'
    BY <1>1 DEF reverseVars, regVars, listVars, healthVars, buildVars, BeatStep, Weather, BeatAnswered, BeatFails,
                NoticeDeath, Hang, Recover, Vanish, SetPeerDead, ReverseInv, ReverseTypes, FailingIsDead
<1> QED
    BY <1>2, <1>3 DEF ReverseInv

-----------------------------------------------------------------------------
\* HandleReverse

LEMMA RegInv ==
    ASSUME ReverseInv, NEW b \in Machine,
           Connect(b) \/ StatusAnswered(b) \/ StatusRefused(b) \/ AddBuildlet(b)
    PROVE  ReverseInv'
<1>1. /\ UNCHANGED <<phase, has, inUse, inHealthCheck, doomed>>
      /\ \A x \in Machine \ {b} : health'[x] = health[x] /\ reg'[x] = reg[x]
      /\ reg[b] # "added"
      /\ health'[b] = "checking" => health[b] = "checking"
      /\ health'[b] = health[b] \/ reg'[b] = "added"
    BY DEF Connect, StatusAnswered, StatusRefused, AddBuildlet, Register, listVars, healthVars, buildVars,
           ReverseInv, ReverseTypes
<1>2. UseInv'
    BY <1>1 DEF ReverseInv, UseInv, HeldInUse, HeldOnce, CheckIsMarked, MarkedIsFree, DoomedIsMarked, CheckedIsAdded, Holds
<1>3. ReverseTypes'
    BY DEF Connect, StatusAnswered, StatusRefused, AddBuildlet, Register, StartBeats, listVars, healthVars,
           buildVars, clientVars, ReverseInv, ReverseTypes
<1>4. FailingIsDead'
    BY DEF Connect, StatusAnswered, StatusRefused, AddBuildlet, StartBeats, clientVars, ReverseInv,
           ReverseTypes, FailingIsDead
<1> QED
    BY <1>2, <1>3, <1>4 DEF ReverseInv

LEMMA ReconnectInv == ASSUME ReverseInv, NEW b \in Machine, Reconnect(b) PROVE ReverseInv'
<1>1. /\ UNCHANGED <<phase, has, doomed>> /\ b \notin doomed
      /\ \A x \in Machine \ {b} : health'[x] = health[x] /\ reg'[x] = reg[x]
      /\ health'[b] = "off"
      /\ inUse' = inUse \ {b} /\ inHealthCheck' = inHealthCheck \ {b}
    BY DEF Reconnect, Health, buildVars, ReverseInv, ReverseTypes
<1>2. \A c \in Client : ~Holds(c, b)
    BY DEF Reconnect, HeldBy, Holds
<1>3. UseInv'
    BY <1>1, <1>2 DEF ReverseInv, UseInv, HeldInUse, HeldOnce, CheckIsMarked, MarkedIsFree, DoomedIsMarked, CheckedIsAdded, Holds
<1>4. ReverseTypes' /\ FailingIsDead'
    BY DEF Reconnect, Health, buildVars, ReverseInv, ReverseTypes, FailingIsDead
<1> QED
    BY <1>3, <1>4 DEF ReverseInv

LEMMA WatchInv == ASSUME ReverseInv, NEW b \in Machine, WatchCloses(b) PROVE ReverseInv'
<1>1. UNCHANGED useVars
    BY DEF WatchCloses, useVars, listVars, healthVars, buildVars
<1>2. FailingIsDead' /\ beats' \in [Machine -> {"off", "on", "failing", "ended"}]
    BY CloseClientDead DEF WatchCloses, clientVars, ReverseInv, ReverseTypes, FailingIsDead
<1> QED
    BY <1>1, <1>2, UseUnchanged DEF useVars, ReverseInv, ReverseTypes

LEMMA FailureInv == ASSUME ReverseInv, NEW b \in Machine, FailureNukes(b) PROVE ReverseInv'
<1>1. UNCHANGED useVars
    BY DEF FailureNukes, useVars, regVars, healthVars, buildVars
<1>2. ReverseTypes' /\ FailingIsDead'
    BY <1>1 DEF FailureNukes, BeatsEnd, useVars, ReverseInv, ReverseTypes, FailingIsDead
<1> QED
    BY <1>1, <1>2, UseUnchanged DEF ReverseInv

-----------------------------------------------------------------------------
\* Health checks

LEMMA HealthInv == ASSUME ReverseInv, NEW b \in Machine, HealthStep(b) PROVE ReverseInv'
<1>1. CASE HealthFindsBroken(b) \/ HealthSkips(b) \/ UpdateQuotas(b)
    <2>1. /\ UNCHANGED <<phase, has, inUse, inHealthCheck, doomed, reg, beats, dead>>
          /\ health' \in [Machine -> {"off", "sleeping", "checking", "ended"}]
          /\ \A x \in Machine : health'[x] = health[x] \/ health'[x] = "ended"
        BY <1>1 DEF HealthFindsBroken, HealthSkips, UpdateQuotas, Health, clientVars, regVars, listVars,
                    buildVars, ReverseInv, ReverseTypes
    <2> QED
        BY <2>1 DEF ReverseInv, ReverseTypes, UseInv, HeldInUse, HeldOnce, CheckIsMarked, MarkedIsFree,
                    DoomedIsMarked, CheckedIsAdded, FailingIsDead, Holds
<1>2. CASE HealthStarts(b)
    <2>1. /\ UNCHANGED <<phase, has, doomed, reg, beats, dead>>
          /\ health[b] = "sleeping" /\ health' = [health EXCEPT ![b] = "checking"]
          /\ b \notin inUse
          /\ inUse' = inUse \cup {b} /\ inHealthCheck' = inHealthCheck \cup {b}
        BY <1>2 DEF HealthStarts, Awake, Health, clientVars, regVars, buildVars
    <2>2. \A c \in Client : ~Holds(c, b)
        BY <2>1 DEF ReverseInv, UseInv, HeldInUse, Holds
    <2>3. UseInv'
        BY <2>1, <2>2 DEF ReverseInv, ReverseTypes, UseInv, HeldInUse, HeldOnce, CheckIsMarked, MarkedIsFree,
                          DoomedIsMarked, CheckedIsAdded, Holds
    <2> QED
        BY <2>1, <2>3 DEF ReverseInv, ReverseTypes, FailingIsDead
<1>3. CASE HealthPasses(b)
    <2>1. b \in inHealthCheck
        BY <1>3 DEF HealthPasses, ReverseInv, UseInv, CheckIsMarked
    <2>2. /\ UNCHANGED <<phase, has, doomed, reg, beats, dead>>
          /\ health[b] = "checking" /\ health' = [health EXCEPT ![b] = "sleeping"]
          /\ inUse' = inUse \ {b} /\ inHealthCheck' = inHealthCheck \ {b}
        BY <1>3, <2>1 DEF HealthPasses, Health, clientVars, regVars, buildVars
    <2>3. \A c \in Client : ~Holds(c, b)
        BY <2>1 DEF ReverseInv, UseInv, MarkedIsFree
    <2>4. UseInv'
        BY <2>2, <2>3 DEF ReverseInv, ReverseTypes, UseInv, HeldInUse, HeldOnce, CheckIsMarked, MarkedIsFree,
                          DoomedIsMarked, CheckedIsAdded, Holds
    <2> QED
        BY <2>2, <2>4 DEF ReverseInv, ReverseTypes, FailingIsDead
<1>4. CASE HealthFails(b)
    <2>1. /\ UNCHANGED <<phase, has, inUse, inHealthCheck, reg, beats, dead>>
          /\ health[b] = "checking" /\ health' = [health EXCEPT ![b] = "ended"]
          /\ doomed' = doomed \cup {b}
        BY <1>4 DEF HealthFails, Health, clientVars, regVars, listVars, buildVars
    <2>2. b \in inHealthCheck
        BY <2>1 DEF ReverseInv, UseInv, CheckIsMarked
    <2>3. reg[b] = "added"
        BY <2>1 DEF ReverseInv, UseInv, CheckedIsAdded
    <2>4. UseInv'
        BY <2>1, <2>2, <2>3 DEF ReverseInv, ReverseTypes, UseInv, HeldInUse, HeldOnce, CheckIsMarked,
                                MarkedIsFree, DoomedIsMarked, CheckedIsAdded, Holds
    <2> QED
        BY <2>1, <2>4 DEF ReverseInv, ReverseTypes, FailingIsDead
<1>5. CASE HealthNukes(b)
    <2>1. /\ UNCHANGED <<phase, has, inUse, inHealthCheck, health, reg, beats, dead>>
          /\ doomed' \subseteq doomed
        BY <1>5 DEF HealthNukes, regVars, buildVars
    <2> QED
        BY <2>1 DEF ReverseInv, ReverseTypes, UseInv, HeldInUse, HeldOnce, CheckIsMarked, MarkedIsFree,
                    DoomedIsMarked, CheckedIsAdded, FailingIsDead, Holds
<1>6. CASE HealthCloses(b)
    <2>1. UNCHANGED useVars
        BY <1>6 DEF HealthCloses, useVars, regVars, listVars, buildVars
    <2>2. FailingIsDead' /\ beats' \in [Machine -> {"off", "on", "failing", "ended"}]
        BY <1>6, CloseClientDead DEF HealthCloses, ReverseInv
    <2> QED
        BY <2>1, <2>2, UseUnchanged DEF useVars, ReverseInv, ReverseTypes
<1> QED
    BY <1>1, <1>2, <1>3, <1>4, <1>5, <1>6 DEF HealthStep

-----------------------------------------------------------------------------
\* GetBuildlet and the build

LEMMA WaitInv ==
    ASSUME ReverseInv, NEW c \in Client,
           SeesNoQueue(c) \/ Request(c) \/ RequestOnNew(c) \/ AwaitFails(c) \/ CancelAwait(c)
           \/ CancelGrab(c) \/ TryInVain(c) \/ QuotaStep(c)
    PROVE  ReverseInv'
<1>1. /\ UNCHANGED <<has, inUse, inHealthCheck, health, doomed, reg, beats, dead>>
      /\ phase' \in [Client -> {"idle", "making", "await", "clean", "build", "over"}]
      /\ \A d \in Client : phase'[d] = phase[d] \/ phase'[d] \in {"making", "await", "over"}
    BY DEF SeesNoQueue, Request, RequestOnNew, AwaitFails, CancelAwait, CancelGrab, TryInVain, QuotaStep, Step, clientVars, reverseVars,
           regVars, listVars, healthVars, buildVars, ReverseInv, ReverseTypes
<1> QED
    BY <1>1 DEF ReverseInv, ReverseTypes, UseInv, HeldInUse, HeldOnce, CheckIsMarked, MarkedIsFree,
                DoomedIsMarked, CheckedIsAdded, FailingIsDead, Holds

LEMMA GrabInv == ASSUME ReverseInv, NEW c \in Client, NEW b \in Machine, TryToGrab(c, b) PROVE ReverseInv'
<1>1. /\ UNCHANGED <<inHealthCheck, health, doomed, reg, beats, dead>>
      /\ phase' = [phase EXCEPT ![c] = "clean"] /\ has' = [has EXCEPT ![c] = b]
      /\ b \notin inUse /\ inUse' = inUse \cup {b}
    BY DEF TryToGrab, Step, Grabbable, clientVars, regVars, healthVars
<1>2. b \notin inHealthCheck /\ \A d \in Client : ~Holds(d, b)
    BY <1>1 DEF ReverseInv, UseInv, HeldInUse, MarkedIsFree, Holds
<1>3. ReverseTypes' /\ FailingIsDead'
    BY <1>1 DEF ReverseInv, ReverseTypes, FailingIsDead
<1>4. /\ phase'[c] = "clean" /\ has'[c] = b
      /\ \A d \in Client \ {c} : phase'[d] = phase[d] /\ has'[d] = has[d]
    BY <1>1 DEF ReverseInv, ReverseTypes
<1>5. HeldInUse' /\ HeldOnce'
    BY <1>1, <1>2, <1>4 DEF ReverseInv, UseInv, HeldInUse, HeldOnce, Holds
<1>6. CheckIsMarked' /\ MarkedIsFree' /\ DoomedIsMarked' /\ CheckedIsAdded'
    BY <1>1, <1>2, <1>4 DEF ReverseInv, UseInv, CheckIsMarked, MarkedIsFree, DoomedIsMarked, CheckedIsAdded, Holds
<1> QED
    BY <1>3, <1>5, <1>6 DEF ReverseInv, UseInv

LEMMA BuildInv ==
    ASSUME ReverseInv, NEW c \in Client, Cleaned(c) \/ CloseBuildlet(c) \/ ExecFails(c)
    PROVE  ReverseInv'
<1>1. CASE Cleaned(c)
    <2>1. /\ UNCHANGED <<has, inUse, inHealthCheck, health, doomed, reg, beats, dead>>
          /\ phase[c] = "clean" /\ phase' = [phase EXCEPT ![c] = "build"]
        BY <1>1 DEF Cleaned, Step, clientVars, regVars, listVars, healthVars
    <2> QED
        BY <2>1 DEF ReverseInv, ReverseTypes, UseInv, HeldInUse, HeldOnce, CheckIsMarked, MarkedIsFree,
                    DoomedIsMarked, CheckedIsAdded, FailingIsDead, Holds
<1>2. CASE CloseBuildlet(c)
    <2>1. /\ UNCHANGED <<inUse, inHealthCheck, health, doomed, reg>>
          /\ phase' = [phase EXCEPT ![c] = "over"] /\ has' = [has EXCEPT ![c] = None]
          /\ CloseClient(has[c]) /\ phase[c] \in {"clean", "build"}
        BY <1>2 DEF CloseBuildlet, regVars, listVars, healthVars
    <2>2. has[c] \in Machine
        BY <2>1 DEF ReverseInv, UseInv, HeldInUse
    <2>3. FailingIsDead' /\ beats' \in [Machine -> {"off", "on", "failing", "ended"}]
        BY <2>1, <2>2, CloseClientDead DEF ReverseInv
    <2>4. UseInv'
        BY <2>1 DEF ReverseInv, ReverseTypes, UseInv, HeldInUse, HeldOnce, CheckIsMarked, MarkedIsFree,
                    DoomedIsMarked, CheckedIsAdded, Holds
    <2>5. ReverseTypes'
        BY <2>1, <2>3 DEF ReverseInv, ReverseTypes
    <2> QED
        BY <2>3, <2>4, <2>5 DEF ReverseInv
<1>3. CASE ExecFails(c)
    <2>1. UNCHANGED useVars /\ UNCHANGED <<beats, dead>>
        BY <1>3 DEF ExecFails, MarkBroken, useVars, reverseVars, regVars, listVars, healthVars, buildVars
    <2> QED
        BY <2>1, UseUnchanged DEF useVars, ReverseInv, ReverseTypes, FailingIsDead
<1> QED
    BY <1>1, <1>2, <1>3

-----------------------------------------------------------------------------
LEMMA ReverseNextInv == ReverseInv /\ [PoolNext]_poolVars => ReverseInv'
<1> SUFFICES ASSUME ReverseInv, [PoolNext]_poolVars PROVE ReverseInv'
    OBVIOUS
<1>1. ASSUME NEW b \in Machine,
             \/ Connect(b) \/ Reconnect(b) \/ StatusAnswered(b) \/ StatusRefused(b)
             \/ RegStep(b) \/ HealthStep(b) \/ BeatStep(b) \/ Weather(b)
      PROVE  ReverseInv'
    BY <1>1, RegInv, ReconnectInv, WatchInv, FailureInv, HealthInv, BeatInv DEF RegStep
<1>2. ASSUME NEW c \in Client,
             \/ SeesNoQueue(c) \/ Request(c) \/ CancelAwait(c) \/ CancelGrab(c)
             \/ TryInVain(c) \/ (\E b \in Machine : TryToGrab(c, b)) \/ BuildStep(c) \/ ExecFails(c)
      PROVE  ReverseInv'
    BY <1>2, WaitInv, GrabInv, BuildInv DEF BuildStep
<1>3. CASE UNCHANGED poolVars
    <2>1. UNCHANGED useVars /\ UNCHANGED <<beats, dead>>
        BY <1>3 DEF poolVars, clientVars, useVars, reverseVars, regVars, listVars, healthVars, buildVars
    <2> QED
        BY <2>1, UseUnchanged DEF useVars, ReverseInv, ReverseTypes, FailingIsDead
<1>4. CASE FinishUpdate
    <2>1. UNCHANGED useVars /\ UNCHANGED <<beats, dead>>
        BY <1>4 DEF FinishUpdate, clientVars, useVars, regVars, listVars, healthVars, buildVars
    <2> QED
        BY <2>1, UseUnchanged DEF useVars, ReverseInv, ReverseTypes, FailingIsDead
<1> QED
    BY <1>1, <1>2, <1>3, <1>4 DEF PoolNext

\* The marks hang together in every state of the pool: a buildlet that a build
\* holds or a check examines is in use, and no build has one that is marked.
THEOREM ReverseInvariant == PoolSpec => []ReverseInv
BY ReverseInitInv, ReverseNextInv, PTL DEF PoolSpec

\* One build or one health check at a time on a buildlet (tryToGrab and
\* healthCheckBuildletLoop), whatever the number of machines and builds.
THEOREM OneUserAtATime == PoolSpec => []OneUser
<1>1. ReverseInv => OneUser
    <2> SUFFICES ASSUME ReverseInv, NEW b \in Machine
                 PROVE  Cardinality(HeldBy(b)) + (IF health[b] = "checking" THEN 1 ELSE 0) <= 1
        BY DEF OneUser
    <2>1. CASE HeldBy(b) = {}
        BY <2>1, FS_EmptySet
    <2>2. CASE HeldBy(b) # {}
        <3>1. PICK c \in Client : Holds(c, b)
            BY <2>2 DEF HeldBy, Holds
        <3>2. HeldBy(b) = {c}
            BY <3>1 DEF HeldBy, Holds, ReverseInv, UseInv, HeldOnce
        <3>3. health[b] # "checking"
            BY <3>1 DEF ReverseInv, UseInv, CheckIsMarked, MarkedIsFree
        <3>4. Cardinality(HeldBy(b)) = 1
            BY <3>2, FS_Singleton, Zenon
        <3> QED
            BY <3>3, <3>4
    <2> QED
        BY <2>1, <2>2
<1> QED
    BY <1>1, ReverseInvariant, PTL

\* A buildlet leaves the pool under a build only when its client is dead: the
\* nuke of a failed health check and that of failed heartbeats are the only
\* ways out, and the first finds its mark still set.
THEOREM HeldBuildletsStay == PoolSpec => HeldUntilDead
<1> DEFINE Stays == \A b \in pool \ pool' : HeldBy(b) # {} => b \in dead
<1>1. ASSUME ReverseInv, [PoolNext]_poolVars PROVE [Stays]_poolVars
    <2>1. ASSUME NEW b \in Machine, HealthNukes(b) PROVE Stays
        <3>1. pool \ pool' \subseteq {b} /\ b \in doomed
            BY <2>1 DEF HealthNukes
        <3>2. HeldBy(b) = {}
            BY <1>1, <3>1 DEF ReverseInv, UseInv, DoomedIsMarked, MarkedIsFree, HeldBy, Holds
        <3> QED
            BY <3>1, <3>2
    <2>2. ASSUME NEW b \in Machine, FailureNukes(b) PROVE Stays
        <3>1. pool \ pool' \subseteq {b} /\ beats[b] = "failing"
            BY <2>2 DEF FailureNukes, BeatsEnd
        <3> QED
            BY <1>1, <3>1 DEF ReverseInv, FailingIsDead
    <2>3. ASSUME NEW b \in Machine,
                 \/ Connect(b) \/ Reconnect(b) \/ StatusAnswered(b) \/ StatusRefused(b)
                 \/ AddBuildlet(b) \/ WatchCloses(b) \/ BeatStep(b) \/ Weather(b)
          PROVE  pool \subseteq pool'
        BY <2>3 DEF Connect, Reconnect, StatusAnswered, StatusRefused, AddBuildlet, WatchCloses, BeatStep,
                    Weather, reverseVars, listVars
    <2>4. ASSUME NEW b \in Machine, HealthStep(b), ~HealthNukes(b) PROVE pool' = pool
        BY <2>4 DEF HealthStep, HealthFindsBroken, HealthSkips, HealthStarts, HealthPasses, HealthFails,
                    HealthCloses, UpdateQuotas, listVars
    <2>5. ASSUME NEW c \in Client,
                 \/ SeesNoQueue(c) \/ Request(c) \/ CancelAwait(c) \/ CancelGrab(c)
                 \/ TryInVain(c) \/ (\E b \in Machine : TryToGrab(c, b)) \/ BuildStep(c)
                 \/ ExecFails(c)
          PROVE  pool' = pool
        BY <2>5 DEF SeesNoQueue, Request, RequestOnNew, CancelAwait, CancelGrab, TryInVain, TryToGrab, BuildStep, QuotaStep, AwaitFails,
                    Cleaned, CloseBuildlet, ExecFails, reverseVars, listVars
    <2>6. ASSUME FinishUpdate PROVE pool' = pool
        BY <2>6 DEF FinishUpdate, listVars
    <2> QED
        BY <1>1, <2>1, <2>2, <2>3, <2>4, <2>5, <2>6 DEF PoolNext, RegStep
<1> QED
    BY <1>1, ReverseInvariant, PTL DEF PoolSpec, HeldUntilDead

-----------------------------------------------------------------------------
(***************************************************************************)
(* Proof of BootingIsKept, for any leases, images, configurations, lengths *)
(* of a period and numbers of mishaps.  It rests on two facts: a lease     *)
(* that was made less than a period ago has longer to go than a renewal    *)
(* gives; and the list a round works from, though it grows old, does not   *)
(* make such a lease look old.                                             *)
(***************************************************************************)

LeaseRecord == [image : Image, left : Int, bot : {"missing", "stuck", "up", "dead"}, age : 0..Period]

MacTypes ==
    /\ DOMAIN mac \subseteq Lease
    /\ \A l \in DOMAIN mac : mac[l] \in LeaseRecord
    /\ \A l \in DOMAIN leases : leases[l] \in LeaseRecord
    /\ visit \subseteq DOMAIN leases

\* A managed lease that is young has more than a renewal to go.
YoungHasLong ==
    \A l \in DOMAIN mac : Managed(l) /\ mac[l].age < Period => mac[l].left + mac[l].age >= CreateFor

\* What looks old in the list is old.
OldIsOld ==
    \A l \in DOMAIN leases \cap DOMAIN mac :
        Managed(l) /\ leases[l].left <= RenewFor => mac[l].age >= Period

\* The round knows nothing any more when it makes leases.
AddsBlindly == pass = "add" => DOMAIN leases = {}

MacInv == MacTypes /\ YoungHasLong /\ OldIsOld /\ AddsBlindly

LEMMA NewLeaseType == ASSUME NEW i \in Image PROVE NewLease(i) \in LeaseRecord
BY MakeMacAssumption DEF NewLease, LeaseRecord, CreateFor

LEMMA AgedType ==
    ASSUME NEW r \in LeaseRecord, NEW x \in Int, NEW y \in 0..Period
    PROVE  [r EXCEPT !.left = x, !.age = y] \in LeaseRecord
BY DEF LeaseRecord

LEMMA InitInv == MacInit => MacInv
<1> SUFFICES ASSUME MacInit PROVE MacInv
    OBVIOUS
<1> DEFINE i0 == CHOOSE i \in Image : TRUE
<1>1. i0 \in Image
    BY MakeMacAssumption
<1>2. NewLease(i0) \in LeaseRecord
    BY <1>1, NewLeaseType
<1>3. MacTypes
    BY <1>2, MakeMacAssumption DEF MacInit, MacTypes, NoLeases
<1>4. YoungHasLong
    BY DEF MacInit, YoungHasLong, Managed
<1>5. OldIsOld /\ AddsBlindly
    BY DEF MacInit, OldIsOld, AddsBlindly, NoLeases
<1> QED
    BY <1>3, <1>4, <1>5 DEF MacInv

\* Passes that visit a lease keep it, or take it away.
LEMMA VisitInv ==
    ASSUME MacInv, NEW p \in {"missing", "dead", "renew", "obsolete"}, NEW l \in Lease,
           Visit(p, l), Vacate(l) \/ Keep
    PROVE  MacInv'
<1>1. visit' = visit \ {l} /\ pass' = pass /\ pass # "add"
    BY DEF Visit
<1>2. /\ mac' = mac \/ mac' = [k \in DOMAIN mac \ {l} |-> mac[k]]
      /\ leases' = leases \/ leases' = [k \in DOMAIN leases \ {l} |-> leases[k]]
    BY DEF Vacate, Keep, Restrict, live
<1>3. MacTypes'
    BY <1>1, <1>2 DEF MacInv, MacTypes
<1>4. YoungHasLong'
    BY <1>2 DEF MacInv, YoungHasLong, Managed
<1>5. OldIsOld'
    BY <1>2 DEF MacInv, OldIsOld, Managed
<1> QED
    BY <1>1, <1>3, <1>4, <1>5 DEF MacInv, AddsBlindly

LEMMA RenewInv == ASSUME MacInv, NEW l \in Lease, Renew(l) PROVE MacInv'
<1>1. /\ visit' = visit \ {l} /\ pass' = pass /\ leases' = leases
      /\ l \in visit /\ l \in DOMAIN leases /\ leases[l] \in LeaseRecord
    BY DEF Renew, Visit, MacInv, MacTypes
<1>2. CASE mac' = mac
    BY <1>1, <1>2 DEF MacInv, MacTypes, YoungHasLong, OldIsOld, AddsBlindly, Managed
<1>3. CASE mac' # mac
    <2>1. Managed(l) /\ l \in DOMAIN mac /\ mac' = [mac EXCEPT ![l].left = RenewFor]
          /\ leases[l].left <= RenewFor
        BY <1>1, <1>3, MakeMacAssumption DEF Renew, IsNew, live, LeaseRecord
    <2>2. mac[l].age >= Period
        BY <1>1, <2>1 DEF MacInv, OldIsOld
    <2>3. /\ DOMAIN mac' = DOMAIN mac
          /\ mac[l] \in LeaseRecord
          /\ mac'[l] = [mac[l] EXCEPT !.left = RenewFor]
          /\ \A k \in DOMAIN mac \ {l} : mac'[k] = mac[k]
        BY <2>1 DEF MacInv, MacTypes
    <2>4. mac'[l] \in LeaseRecord /\ mac'[l].age = mac[l].age
        BY <2>3, MakeMacAssumption DEF LeaseRecord
    <2>5. MacTypes'
        BY <1>1, <2>3, <2>4 DEF MacInv, MacTypes
    <2>6. \A k \in DOMAIN mac : mac'[k].age = mac[k].age
        BY <2>3, <2>4
    <2>7. YoungHasLong'
        <3> SUFFICES ASSUME NEW k \in DOMAIN mac, Managed(k), mac'[k].age < Period
                     PROVE  mac'[k].left + mac'[k].age >= CreateFor
            BY <2>3 DEF YoungHasLong, Managed
        <3>1. k # l
            BY <2>2, <2>3, <2>4, MakeMacAssumption DEF LeaseRecord
        <3> QED
            BY <3>1, <2>3 DEF MacInv, YoungHasLong
    <2>8. OldIsOld'
        BY <1>1, <2>3, <2>6 DEF MacInv, OldIsOld, Managed
    <2> QED
        BY <1>1, <2>5, <2>7, <2>8 DEF MacInv, AddsBlindly
<1> QED
    BY <1>2, <1>3

LEMMA AddInv == ASSUME MacInv, NEW i \in Image, NEW l \in Lease, Add(i, l) PROVE MacInv'
<1>1. /\ visit' = visit /\ pass' = pass /\ leases' = leases /\ DOMAIN leases = {}
      /\ l \notin DOMAIN mac
      /\ mac' = mac \/ mac' = Made(i, l)
    BY DEF Add, live, MacInv, AddsBlindly
<1>2. CASE mac' = mac
    BY <1>1, <1>2 DEF MacInv, MacTypes, YoungHasLong, OldIsOld, AddsBlindly, Managed
<1>3. CASE mac' = Made(i, l)
    <2>1. /\ DOMAIN mac' = DOMAIN mac \cup {l}
          /\ mac'[l] = NewLease(i)
          /\ \A k \in DOMAIN mac : mac'[k] = mac[k]
        BY <1>1, <1>3 DEF Made, live
    <2>2. MacTypes'
        BY <1>1, <2>1, NewLeaseType DEF MacInv, MacTypes
    <2>3. YoungHasLong'
        BY <2>1, MakeMacAssumption DEF MacInv, YoungHasLong, Managed, NewLease, CreateFor
    <2> QED
        BY <1>1, <2>2, <2>3 DEF MacInv, OldIsOld, AddsBlindly
<1> QED
    BY <1>1, <1>2, <1>3

LEMMA TickInv == ASSUME MacInv, Tick PROVE MacInv'
<1>1. /\ leases' = leases /\ visit' = visit /\ pass' = pass
      /\ DOMAIN mac' \subseteq DOMAIN mac
      /\ \A k \in DOMAIN mac' : mac'[k] = Older(k)
    BY DEF Tick, live
<1>2. \A k \in DOMAIN mac :
          /\ Older(k) \in LeaseRecord
          /\ Older(k).age >= mac[k].age
          /\ Managed(k) /\ Older(k).age < Period =>
                Older(k).age = mac[k].age + 1 /\ Older(k).left = mac[k].left - 1
          /\ ~Managed(k) => Older(k) = mac[k]
    <2> SUFFICES ASSUME NEW k \in DOMAIN mac
                 PROVE  /\ Older(k) \in LeaseRecord
                        /\ Older(k).age >= mac[k].age
                        /\ Managed(k) /\ Older(k).age < Period =>
                              Older(k).age = mac[k].age + 1 /\ Older(k).left = mac[k].left - 1
                        /\ ~Managed(k) => Older(k) = mac[k]
        OBVIOUS
    <2>1. mac[k] \in LeaseRecord
        BY DEF MacInv, MacTypes
    <2> DEFINE a == Min({mac[k].age + 1, Period})
    <2>2. a \in 0..Period /\ a >= mac[k].age /\ (a < Period => a = mac[k].age + 1)
        <3>1. mac[k].age \in 0..Period /\ Period \in Nat
            BY <2>1, MakeMacAssumption DEF LeaseRecord
        <3>2. PICK x \in {mac[k].age + 1, Period} : x <= mac[k].age + 1 /\ x <= Period
            BY <3>1
        <3>3. a \in {mac[k].age + 1, Period} /\ a <= mac[k].age + 1 /\ a <= Period
            BY <3>1, <3>2 DEF Min
        <3> QED
            BY <3>1, <3>3
    <2>3. CASE Managed(k)
        <3>1. Older(k) = [mac[k] EXCEPT !.left = mac[k].left - 1, !.age = a]
            BY <2>1, <2>3 DEF Older, LeaseRecord
        <3> HIDE DEF a
        <3>2. Older(k).left = mac[k].left - 1 /\ Older(k).age = a
            BY <2>1, <3>1 DEF LeaseRecord
        <3>3. Older(k) \in LeaseRecord
            <4>1. mac[k].left - 1 \in Int
                BY <2>1 DEF LeaseRecord
            <4> QED
                BY <2>1, <2>2, <3>1, <4>1, AgedType
        <3> QED
            BY <2>2, <2>3, <3>2, <3>3
    <2>4. CASE ~Managed(k)
        BY <2>1, <2>4, MakeMacAssumption DEF Older, LeaseRecord
    <2> QED
        BY <2>3, <2>4
<1>3. MacTypes'
    BY <1>1, <1>2 DEF MacInv, MacTypes
<1>4. YoungHasLong'
    <2> SUFFICES ASSUME NEW k \in DOMAIN mac', Managed(k), mac'[k].age < Period
                 PROVE  mac'[k].left + mac'[k].age >= CreateFor
        BY DEF YoungHasLong, Managed
    <2>1. /\ k \in DOMAIN mac /\ mac[k] \in LeaseRecord
          /\ mac'[k].age = mac[k].age + 1 /\ mac'[k].left = mac[k].left - 1
        BY <1>1, <1>2 DEF MacInv, MacTypes
    <2>2. mac[k].age < Period
        BY <2>1, MakeMacAssumption DEF LeaseRecord
    <2>3. mac[k].left + mac[k].age >= CreateFor
        BY <2>1, <2>2 DEF MacInv, YoungHasLong
    <2> QED
        BY <2>1, <2>3, MakeMacAssumption DEF LeaseRecord, CreateFor
<1>5. OldIsOld'
    <2> SUFFICES ASSUME NEW k \in DOMAIN leases \cap DOMAIN mac', Managed(k), leases[k].left <= RenewFor
                 PROVE  mac'[k].age >= Period
        BY <1>1 DEF OldIsOld, Managed
    <2>1. mac[k].age >= Period /\ mac[k] \in LeaseRecord /\ k \in DOMAIN mac
        BY <1>1 DEF MacInv, OldIsOld, MacTypes
    <2>2. mac'[k].age >= mac[k].age /\ mac'[k] \in LeaseRecord
        BY <1>1, <1>2
    <2> QED
        BY <2>1, <2>2, MakeMacAssumption DEF LeaseRecord
<1> QED
    BY <1>1, <1>3, <1>4, <1>5 DEF MacInv, AddsBlindly

\* A bot is not what the invariant is about.
LEMMA BotInv == ASSUME MacInv, NEW l \in Lease, BotBoots(l) \/ BotFails(l) PROVE MacInv'
<1>1. PICK b \in {"up", "dead", "stuck"} : mac' = [mac EXCEPT ![l].bot = b]
    BY DEF BotBoots, BotFails
<1>2. /\ l \in DOMAIN mac /\ leases' = leases /\ visit' = visit /\ pass' = pass
    BY DEF BotBoots, BotFails, live, roundVars
<1>3. mac[l] \in LeaseRecord
    BY <1>2 DEF MacInv, MacTypes
<1>4. /\ DOMAIN mac' = DOMAIN mac
      /\ mac'[l] = [mac[l] EXCEPT !.bot = b]
      /\ \A k \in DOMAIN mac \ {l} : mac'[k] = mac[k]
    BY <1>1, <1>2
<1>5. mac'[l] \in LeaseRecord /\ mac'[l].age = mac[l].age /\ mac'[l].left = mac[l].left
    BY <1>3, <1>4 DEF LeaseRecord
<1>6. \A k \in DOMAIN mac : mac'[k].age = mac[k].age /\ mac'[k].left = mac[k].left
    BY <1>4, <1>5
<1>7. MacTypes'
    BY <1>2, <1>4, <1>5 DEF MacInv, MacTypes
<1>8. YoungHasLong' /\ OldIsOld'
    BY <1>2, <1>4, <1>6 DEF MacInv, YoungHasLong, OldIsOld, Managed
<1> QED
    BY <1>2, <1>7, <1>8 DEF MacInv, AddsBlindly

LEMMA FindInv == ASSUME MacInv, FindLeases PROVE MacInv'
<1>1. mac' = mac /\ leases' = mac /\ visit' \subseteq DOMAIN mac /\ pass' = "missing"
    BY DEF FindLeases, live
<1>2. OldIsOld'
    <2> SUFFICES ASSUME NEW k \in DOMAIN mac, Managed(k), mac[k].left <= RenewFor
                 PROVE  mac[k].age >= Period
        BY <1>1 DEF OldIsOld, Managed
    <2>1. mac[k] \in LeaseRecord /\ (mac[k].age < Period => mac[k].left + mac[k].age >= CreateFor)
        BY DEF MacInv, MacTypes, YoungHasLong
    <2> QED
        BY <2>1, MakeMacAssumption DEF LeaseRecord, CreateFor
<1> QED
    BY <1>1, <1>2 DEF MacInv, MacTypes, YoungHasLong, AddsBlindly, Managed

\* The other steps leave the leases alone, and the list or all of it.
LEMMA NoLeaseInv ==
    ASSUME MacInv, mac' = mac,
           \/ leases' = leases /\ visit' \subseteq DOMAIN leases /\ pass' # "add"
           \/ leases' = NoLeases /\ visit' = {}
    PROVE  MacInv'
<1>1. CASE leases' = leases /\ visit' \subseteq DOMAIN leases /\ pass' # "add"
    BY <1>1 DEF MacInv, MacTypes, YoungHasLong, OldIsOld, AddsBlindly, Managed
<1>2. CASE leases' = NoLeases /\ visit' = {}
    BY <1>2 DEF MacInv, MacTypes, YoungHasLong, OldIsOld, AddsBlindly, Managed, NoLeases
<1> QED
    BY <1>1, <1>2

LEMMA NextInv == ASSUME MacInv, [MacNext]_macVars PROVE MacInv'
<1>1. CASE ListBots \/ ListingFails \/ RoundEnds
    BY <1>1, NoLeaseInv DEF ListBots, ListingFails, RoundEnds, MacInv, MacTypes
<1>2. CASE FindLeases
    BY <1>2, FindInv
<1>3. CASE NextPass
    <2>1. mac' = mac
        BY <1>3 DEF NextPass
    <2>2. \/ leases' = leases /\ visit' \subseteq DOMAIN leases /\ pass' # "add"
          \/ leases' = NoLeases /\ visit' = {}
        BY <1>3 DEF NextPass
    <2> QED
        BY <2>1, <2>2, NoLeaseInv
<1>4. ASSUME NEW l \in Lease, HandleMissing(l) \/ HandleDead(l) \/ HandleObsolete(l) PROVE MacInv'
    BY <1>4, VisitInv DEF HandleMissing, HandleDead, HandleObsolete
<1>5. ASSUME NEW l \in Lease, Renew(l) PROVE MacInv'
    BY <1>5, RenewInv
<1>6. ASSUME NEW l \in Lease, NEW i \in Image, Add(i, l) PROVE MacInv'
    BY <1>6, AddInv
<1>7. CASE Tick
    BY <1>7, TickInv
<1>8. CASE Redeploy
    BY <1>8, NoLeaseInv DEF Redeploy
<1>9. ASSUME NEW l \in Lease, BotBoots(l) \/ BotFails(l) PROVE MacInv'
    BY <1>9, BotInv
<1>10. CASE UNCHANGED macVars
    BY <1>10 DEF macVars, MacInv, MacTypes, YoungHasLong, OldIsOld, AddsBlindly, Managed
<1> QED
    BY <1>1, <1>2, <1>3, <1>4, <1>5, <1>6, <1>7, <1>8, <1>9, <1>10 DEF MacNext, RoundStep

\* The invariant holds of makemac at work.
THEOREM MacInvariant == MacSpec => []MacInv
BY InitInv, NextInv, PTL DEF MacSpec

\* In the pass for missing bots a lease ends only if handleMissingBots vacates it.
LEMMA OnlyMissing ==
    ASSUME MacInv, [MacNext]_macVars, pass = "missing", NEW l \in live \ live'
    PROVE  mac[l].age >= Period
<1>1. l \in DOMAIN mac /\ l \notin DOMAIN mac' /\ mac' # mac
    BY DEF live
<1>2. PICK k \in Lease : HandleMissing(k)
    <2>1. ASSUME NEW k \in Lease, BotBoots(k) \/ BotFails(k) PROVE FALSE
        BY <1>1, <2>1 DEF BotBoots, BotFails
    <2>2. ~Tick /\ ~UNCHANGED mac
        BY <1>1 DEF Tick
    <2>3. ASSUME NEW k \in Lease, NEW i \in Image, Add(i, k) PROVE FALSE
        BY <2>3 DEF Add
    <2>4. ASSUME NEW k \in Lease, HandleDead(k) \/ Renew(k) \/ HandleObsolete(k) PROVE FALSE
        BY <2>4 DEF HandleDead, Renew, HandleObsolete, Visit
    <2>5. ~(ListBots \/ FindLeases \/ NextPass \/ RoundEnds \/ ListingFails \/ Redeploy)
        BY <2>2 DEF ListBots, FindLeases, NextPass, RoundEnds, ListingFails, Redeploy
    <2> QED
        BY <2>1, <2>2, <2>3, <2>4, <2>5 DEF MacNext, RoundStep, macVars
<1>3. k \in visit /\ Managed(k) /\ ~IsNew(k) /\ Vacate(k)
    BY <1>1, <1>2 DEF HandleMissing, Visit, Keep
<1>4. l = k
    BY <1>1, <1>3 DEF Vacate, Restrict, live
<1>5. k \in DOMAIN leases /\ leases[k] \in LeaseRecord /\ leases[k].left <= RenewFor
    BY <1>3, MakeMacAssumption DEF MacInv, MacTypes, IsNew, LeaseRecord
<1> QED
    BY <1>1, <1>3, <1>4, <1>5 DEF MacInv, OldIsOld

\* handleMissingBots never takes a Mac that is younger than a period, for any
\* leases, configurations and periods, and any number of failures and restarts.
THEOREM BootingMacsAreKept == MacSpec => BootingIsKept
<1>1. MacInv /\ [MacNext]_macVars =>
          [\A l \in live \ live' : pass = "missing" => mac[l].age >= Period]_macVars
    BY OnlyMissing DEF live
<1> QED
    BY <1>1, MacInvariant, PTL DEF MacSpec, BootingIsKept

-----------------------------------------------------------------------------

\* How many chunks the writing goroutine has in its hand, and how many startChunk
\* has started and not yet sent.
InHand == IF zWriter = "chunk" THEN 1 ELSE 0
Unsent == IF zBlock = "send" THEN 1 ELSE 0

\* What was written, what the goroutine has, and what is in the channel are the
\* chunks in order, up to the last one that was sent.
InOrder ==
    /\ \A i \in 1 .. Len(zOut) : zOut[i] = i
    /\ zWriter = "chunk" => zChunk = Len(zOut) + 1
    /\ \A i \in 1 .. Len(chunkc) : chunkc[i] = Len(zOut) + InHand + i
    /\ Len(zOut) + InHand + Len(chunkc) = zStarted - Unsent

GzipInv ==
    /\ zStarted \in Nat /\ zOut \in Seq(Nat) /\ chunkc \in Seq(Nat) /\ zChunk \in Nat
    /\ zErr \in BOOLEAN
    /\ zWriter = "failed" \/ wasWriteErr => zErr
    /\ ~zErr => InOrder
    /\ ~zErr /\ zWriter = "ended" => chunkc = <<>> /\ chunkcClosed
    /\ zBlock # "no" => zPhase \in {"writing", "flushed"}
    /\ chunkcClosed => zPhase \in {"waiting", "closed"}
    /\ zResult = "nil" => ~zErr /\ zWriter = "ended" /\ zPhase = "closed"

LEMMA GzipStep ==
  ASSUME GzipInv, [GzipNext]_gzipVars
  PROVE  GzipInv'
  <1>0. zStarted \in Nat /\ zOut \in Seq(Nat) /\ chunkc \in Seq(Nat) /\ zChunk \in Nat
    BY DEF GzipInv
  <1>. USE DEF callVars, workVars, gzipVars
  <1>1. CASE WriteFull
    BY <1>1 DEF GzipInv, WriteFull, InOrder, InHand, Unsent
  <1>2. CASE CloseBegins
    BY <1>2 DEF GzipInv, CloseBegins, InOrder, InHand, Unsent
  <1>3. CASE StartChunk
    BY <1>3 DEF GzipInv, StartChunk, InOrder, InHand, Unsent
  <1>4. CASE SendChunk
    <2>1. /\ chunkc' \in Seq(Nat) /\ Len(chunkc') = Len(chunkc) + 1
          /\ \A i \in 1 .. Len(chunkc) : chunkc'[i] = chunkc[i]
          /\ chunkc'[Len(chunkc) + 1] = zStarted
      <3>1. chunkc' = Append(chunkc, zStarted)
        BY <1>4 DEF SendChunk
      <3>. QED BY <1>0, <3>1
    <2>2. Len(chunkc) \in Nat /\ Len(zOut) \in Nat
      BY <1>0
    <2>3. ASSUME ~zErr PROVE InOrder'
      <3>1. /\ zBlock = "send" /\ zBlock' = "no" /\ zStarted' = zStarted
            /\ zOut' = zOut /\ zWriter' = zWriter /\ zChunk' = zChunk
        BY <1>4 DEF SendChunk
      <3>2. InHand' = InHand /\ InHand \in {0, 1} /\ Unsent = 1 /\ Unsent' = 0
        BY <3>1 DEF InHand, Unsent
      <3>3. InOrder
        BY <2>3 DEF GzipInv
      <3>4. Len(zOut) + InHand + Len(chunkc') = zStarted
        BY <1>0, <2>1, <2>2, <3>2, <3>3 DEF InOrder
      <3>5. ASSUME NEW i \in 1 .. Len(chunkc') PROVE chunkc'[i] = Len(zOut) + InHand + i
        <4>1. CASE i = Len(chunkc) + 1
          BY <1>0, <2>1, <2>2, <3>2, <3>4, <4>1
        <4>2. CASE i \in 1 .. Len(chunkc)
          BY <2>1, <3>3, <4>2 DEF InOrder
        <4>. QED BY <2>1, <2>2, <4>1, <4>2
      <3>. QED BY <1>0, <3>1, <3>2, <3>3, <3>4, <3>5 DEF InOrder
    <2>. QED BY <1>4, <2>1, <2>3 DEF GzipInv, SendChunk
  <1>5. CASE DiscardChunk
    BY <1>5 DEF GzipInv, DiscardChunk
  <1>6. CASE FlushRest
    BY <1>6 DEF GzipInv, FlushRest, InOrder, InHand, Unsent
  <1>7. CASE CloseChunkc
    BY <1>7 DEF GzipInv, CloseChunkc, InOrder, InHand, Unsent
  <1>8. CASE CloseCompletes
    BY <1>8 DEF GzipInv, CloseCompletes, InOrder, InHand, Unsent
  <1>9. CASE ReceiveChunk
    <2>1. /\ chunkc' \in Seq(Nat) /\ Len(chunkc') = Len(chunkc) - 1 /\ Len(chunkc) > 0
          /\ \A i \in 1 .. Len(chunkc') : chunkc'[i] = chunkc[i + 1]
          /\ zChunk' = chunkc[1] /\ zChunk' \in Nat
      <3>1. chunkc # <<>> /\ chunkc' = Tail(chunkc) /\ zChunk' = Head(chunkc)
        BY <1>9 DEF ReceiveChunk
      <3>. QED BY <1>0, <3>1
    <2>2. Len(chunkc) \in Nat /\ Len(zOut) \in Nat
      BY <1>0
    <2>3. ASSUME ~zErr PROVE InOrder'
      <3>1. /\ zBlock' = zBlock /\ zStarted' = zStarted /\ zOut' = zOut
            /\ zWriter = "range" /\ zWriter' = "chunk"
        BY <1>9 DEF ReceiveChunk
      <3>2. InHand' = 1 /\ InHand = 0 /\ Unsent' = Unsent /\ Unsent \in {0, 1}
        BY <3>1 DEF InHand, Unsent
      <3>3. InOrder
        BY <2>3 DEF GzipInv
      <3>4. Len(zOut) + 1 + Len(chunkc') = zStarted - Unsent
        <4>1. Len(zOut) + InHand + Len(chunkc) = zStarted - Unsent
          BY <3>3 DEF InOrder
        <4>2. Len(zOut) + Len(chunkc) = zStarted - Unsent
          BY <2>2, <3>2, <4>1
        <4>3. PICK n \in Nat : n = Len(chunkc') /\ Len(chunkc) = n + 1
          BY <2>1, <2>2
        <4>. QED BY <2>2, <4>2, <4>3
      <3>5. /\ zChunk' = Len(zOut) + 1
            /\ \A i \in 1 .. Len(chunkc') : chunkc'[i] = Len(zOut) + 1 + i
        <4>1. \A i \in 1 .. Len(chunkc) : chunkc[i] = Len(zOut) + i
          BY <2>2, <3>2, <3>3 DEF InOrder
        <4>. QED BY <2>1, <2>2, <4>1
      <3>. QED BY <1>0, <3>1, <3>2, <3>3, <3>4, <3>5 DEF InOrder
    <2>. QED BY <1>9, <2>1, <2>3 DEF GzipInv, ReceiveChunk
  <1>10. CASE WriteCompressedChunk
    <2>1. /\ zOut' \in Seq(Nat) /\ Len(zOut') = Len(zOut) + 1
          /\ \A i \in 1 .. Len(zOut) : zOut'[i] = zOut[i]
          /\ zOut'[Len(zOut) + 1] = zChunk
      BY <1>0, <1>10 DEF WriteCompressedChunk
    <2>2. Len(chunkc) \in Nat /\ Len(zOut) \in Nat
      BY <1>0
    <2>3. ~zErr => InOrder'
      BY <1>10, <2>1, <2>2 DEF GzipInv, WriteCompressedChunk, InOrder, InHand, Unsent
    <2>. QED BY <1>10, <2>1, <2>3 DEF GzipInv, WriteCompressedChunk
  <1>11. CASE WriteCompressedFails
    BY <1>11 DEF GzipInv, WriteCompressedFails
  <1>12. CASE StopWriting
    BY <1>12 DEF GzipInv, StopWriting
  <1>13. CASE RangeEnds
    BY <1>13 DEF GzipInv, RangeEnds, InOrder, InHand, Unsent
  <1>14. ASSUME NEW c, Compress(c) PROVE GzipInv'
    BY <1>14 DEF GzipInv, Compress, InOrder, InHand, Unsent
  <1>15. CASE UNCHANGED gzipVars
    BY <1>15 DEF GzipInv, InOrder, InHand, Unsent
  <1>. QED BY <1>1, <1>2, <1>3, <1>4, <1>5, <1>6, <1>7, <1>8, <1>9, <1>10, <1>11, <1>12,
              <1>13, <1>14, <1>15 DEF GzipNext, CallStep, WriterStep, CompressStep

\* Close reports success only for a stream that is whole and in order (Close,
\* startChunk, writeCompressed), for any number of chunks and of compressors.
THEOREM SuccessMeansWritten == GzipInit /\ [][GzipNext]_gzipVars => []NilMeansWritten
  <1>1. GzipInit => GzipInv
    <2>. SUFFICES ASSUME GzipInit PROVE GzipInv
      OBVIOUS
    <2>1. zOut \in Seq(Nat) /\ chunkc \in Seq(Nat) /\ Len(zOut) = 0 /\ Len(chunkc) = 0
      BY DEF GzipInit
    <2>2. InOrder
      BY <2>1 DEF GzipInit, InOrder, InHand, Unsent
    <2>. QED BY <2>1, <2>2 DEF GzipInit, GzipInv
  <1>2. GzipInv /\ [GzipNext]_gzipVars => GzipInv'
    BY GzipStep
  <1>3. GzipInv => NilMeansWritten
    <2>. SUFFICES ASSUME GzipInv, zResult = "nil" PROVE zOut = [i \in 1 .. zStarted |-> i]
      BY DEF NilMeansWritten
    <2>1. /\ zOut \in Seq(Nat) /\ Len(zOut) = zStarted
          /\ \A i \in 1 .. Len(zOut) : zOut[i] = i
      BY DEF GzipInv, InOrder, InHand, Unsent
    <2>. QED BY <2>1
  <1>. QED BY <1>1, <1>2, <1>3, PTL
=============================================================================
