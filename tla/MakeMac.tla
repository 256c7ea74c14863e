------------------------------ MODULE MakeMac ------------------------------
(***************************************************************************)
(* src/cmd/makemac/main.go, which keeps enough Macs leased from MacService *)
(* for the bots of a swarming server.  Every hour, and when it starts, it  *)
(* lists the bots and then the leases, and works through the leases in     *)
(* five passes from these two lists, one call of MacService at a time.     *)
(* Bots boot, connect and die, leases expire, and calls fail meanwhile.    *)
(* MacService does not say when a lease was made: a lease that has longer  *)
(* to go than a renewal gives is taken for new.                            *)
(***************************************************************************)
EXTENDS Integers, FiniteSets, FiniteSetsExt, Functions

CONSTANTS
    Lease,          \* IDs
    Foreign,        \* leases that makemac does not manage
    Image,
    Configs,        \* what may be deployed: functions, Image -> MinCount, 0 if unwanted
    Period,         \* ticks between two rounds
    RenewFor,       \* renewExpirationDuration, in ticks
    MaxMishaps      \* bound on failed calls, dead bots and new deployments

CreateFor == RenewFor + Period

ASSUME MakeMacAssumption ==
    /\ Foreign \subseteq Lease /\ Image # {}
    /\ Configs \subseteq [Image -> Nat]
    /\ Period \in Nat \ {0} /\ RenewFor \in Nat /\ RenewFor > Period
    /\ MaxMishaps \in Nat

VARIABLES
    mac,        \* the leases that MacService has, by ID: the image; left, the ticks
                \* until it expires; its bot in swarming, which is "missing",
                \* "stuck" (missing, and will not boot), "up" or "dead"; and,
                \* auxiliary, its age in ticks, up to Period
    config,     \* the deployed configuration
    pass,       \* "off", "idle", "find", "missing", "dead", "renew", "obsolete", "add"
    bots,       \* what swarmingBots returned: the state by ID
    leases,     \* what macServiceLeases returned, by ID, less what was vacated
    visit,      \* the leases that this pass has to look at yet
    need,       \* addNewLeases: how many of an image are to be made
    idle,       \* ticks since the last round began
    mishaps

macVars == <<mac, config, pass, bots, leases, visit, need, idle, mishaps>>
roundVars == <<pass, bots, leases, visit, need, idle>>

live == DOMAIN mac
NewLease(i) == [image |-> i, left |-> CreateFor, bot |-> "missing", age |-> 0]

NoBots == [l \in {} |-> "up"]
NoLeases == [l \in {} |-> NewLease(CHOOSE i \in Image : TRUE)]
NoNeed == [i \in Image |-> 0]

MacInit ==
    /\ mac = [l \in Foreign |-> NewLease(CHOOSE i \in Image : TRUE)]
    /\ config \in Configs
    /\ pass = "idle" /\ bots = NoBots /\ leases = NoLeases /\ visit = {} /\ need = NoNeed
    /\ idle = Period
    /\ mishaps = 0

\* A world without makemac, where no Macs are wanted, for MCMachines.
NotRunning ==
    /\ mac = [l \in {} |-> NewLease(CHOOSE i \in Image : TRUE)] /\ config = NoNeed
    /\ pass = "off" /\ bots = NoBots /\ leases = NoLeases /\ visit = {} /\ need = NoNeed
    /\ idle = 0 /\ mishaps = 0

Mishap == mishaps < MaxMishaps /\ mishaps' = mishaps + 1

Managed(l) == l \notin Foreign

-----------------------------------------------------------------------------
(* A round *)

\* swarmingBots
ListBots ==
    /\ pass = "idle" /\ idle >= Period
    /\ bots' = [l \in {k \in live : mac[k].bot \in {"up", "dead"}} |-> mac[l].bot]
    /\ pass' = "find" /\ idle' = 0
    /\ UNCHANGED <<mac, config, leases, visit, need, mishaps>>

\* macServiceLeases, and the leases that handleMissingBots begins with.
FindLeases ==
    /\ pass = "find"
    /\ leases' = mac
    /\ pass' = "missing" /\ visit' = live \ DOMAIN bots
    /\ UNCHANGED <<mac, config, bots, need, idle, mishaps>>

\* Either listing fails: no round.
ListingFails ==
    /\ \/ pass = "idle" /\ idle >= Period
       \/ pass = "find"
    /\ Mishap
    /\ pass' = "idle" /\ idle' = 0 /\ bots' = NoBots
    /\ UNCHANGED <<mac, config, leases, visit, need>>

\* Vacate, and "drop from map so future calls know it is gone".  After an error,
\* or if it is gone already, it stays in the map.
Vacate(l) ==
    \/ /\ l \in live
       /\ mac' = Restrict(mac, live \ {l}) /\ leases' = Restrict(leases, DOMAIN leases \ {l})
       /\ UNCHANGED mishaps
    \/ /\ IF l \in live THEN Mishap ELSE UNCHANGED mishaps
       /\ mac' \in {mac, Restrict(mac, live \ {l})} /\ UNCHANGED leases

Keep == UNCHANGED <<mac, leases, mishaps>>

\* A pass looks at one lease after the other.
Visit(p, l) ==
    /\ pass = p /\ l \in visit
    /\ visit' = visit \ {l}
    /\ UNCHANGED <<config, pass, bots, need, idle>>

\* Only the expiration tells.
IsNew(l) == leases[l].left > RenewFor

\* handleMissingBots
HandleMissing(l) ==
    /\ Visit("missing", l)
    /\ IF Managed(l) /\ ~IsNew(l) THEN Vacate(l) ELSE Keep

\* handleDeadBots
HandleDead(l) ==
    /\ Visit("dead", l)
    /\ IF Managed(l) THEN Vacate(l) ELSE Keep

\* Mutant: a new lease is renewed, which makes it look old.
RenewAlways(l) ==
    /\ Visit("renew", l)
    /\ IF Managed(l) /\ l \in live
       THEN \/ mac' = [mac EXCEPT ![l].left = RenewFor] /\ UNCHANGED mishaps
            \/ Mishap /\ UNCHANGED mac
       ELSE UNCHANGED <<mac, mishaps>>
    /\ UNCHANGED leases

\* Mutant: a lease is renewed only if it would expire before the next round.
RenewLate(l) ==
    /\ Visit("renew", l)
    /\ IF Managed(l) /\ leases[l].left < Period /\ l \in live
       THEN \/ mac' = [mac EXCEPT ![l].left = RenewFor] /\ UNCHANGED mishaps
            \/ Mishap /\ UNCHANGED mac
       ELSE UNCHANGED <<mac, mishaps>>
    /\ UNCHANGED leases

\* renewLeases
Renew(l) ==
    /\ Visit("renew", l)
    /\ IF Managed(l) /\ ~IsNew(l) /\ l \in live
       THEN \/ mac' = [mac EXCEPT ![l].left = RenewFor] /\ UNCHANGED mishaps
            \/ Mishap /\ UNCHANGED mac
       ELSE UNCHANGED <<mac, mishaps>>
    /\ UNCHANGED leases

\* handleObsoleteLeases
HandleObsolete(l) ==
    /\ Visit("obsolete", l)
    /\ IF Managed(l) /\ config[leases[l].image] = 0 THEN Vacate(l) ELSE Keep

Count(f, i) == Cardinality({l \in DOMAIN f : Managed(l) /\ f[l].image = i})

\* The passes follow each other; the last one counts first.
NextPass ==
    /\ visit = {}
    /\ \/ /\ pass = "missing" /\ pass' = "dead"
          /\ visit' = {l \in DOMAIN leases \cap DOMAIN bots : bots[l] = "dead"}
          /\ UNCHANGED <<bots, leases, need>>
       \/ /\ \/ pass = "dead" /\ pass' = "renew"
             \/ pass = "renew" /\ pass' = "obsolete"
          /\ visit' = DOMAIN leases
          /\ UNCHANGED <<bots, leases, need>>
       \/ /\ pass = "obsolete" /\ pass' = "add"
          /\ need' = [i \in Image |-> Max({0, config[i] - Count(leases, i)})]
          /\ bots' = NoBots /\ leases' = NoLeases /\ UNCHANGED visit
    /\ UNCHANGED <<mac, config, idle, mishaps>>

\* The lease gets an ID that no lease has; an ID stands for all those that were
\* given to one lease after the other.
Made(i, l) == [k \in live \cup {l} |-> IF k = l THEN NewLease(i) ELSE mac[k]]

\* addNewLeases: one more lease; a request that fails may have made one.
Add(i, l) ==
    /\ pass = "add" /\ need[i] > 0
    /\ Managed(l) /\ l \notin live
    /\ need' = [need EXCEPT ![i] = @ - 1]
    /\ \/ mac' = Made(i, l) /\ UNCHANGED mishaps
       \/ mac' \in {mac, Made(i, l)} /\ Mishap
    /\ UNCHANGED <<config, pass, bots, leases, visit, idle>>

RoundEnds ==
    /\ pass = "add" /\ need = NoNeed
    /\ pass' = "idle"
    /\ UNCHANGED <<mac, config, bots, leases, visit, need, idle, mishaps>>

-----------------------------------------------------------------------------
(* The world *)

BotBoots(l) ==
    /\ l \in live /\ mac[l].bot = "missing"
    /\ mac' = [mac EXCEPT ![l].bot = "up"]
    /\ UNCHANGED <<config, roundVars, mishaps>>

BotFails(l) ==
    /\ l \in live /\ mac[l].bot \in {"missing", "up"} /\ Mishap
    /\ mac' = [mac EXCEPT ![l].bot = IF @ = "up" THEN "dead" ELSE "stuck"]
    /\ UNCHANGED <<config, roundVars>>

\* A tick passes for a lease that others do not renew.
Older(l) ==
    IF Managed(l) THEN [mac[l] EXCEPT !.left = @ - 1, !.age = Min({@ + 1, Period})] ELSE mac[l]

\* Time passes between the rounds, and leases expire.  A Mac that is not stuck
\* boots within a period.
Tick ==
    /\ pass = "idle" /\ idle < Period
    /\ \A l \in live : Managed(l) /\ mac[l].bot = "missing" => mac[l].age + 1 < Period
    /\ idle' = idle + 1
    /\ mac' = [l \in {k \in live : Older(k).left > 0} |-> Older(l)]
    /\ UNCHANGED <<config, pass, bots, leases, visit, need, mishaps>>

\* makemac starts again, with the same configuration or another one, and runs
\* a round at once.
Redeploy ==
    /\ Mishap
    /\ config' \in Configs
    /\ pass' = "idle" /\ bots' = NoBots /\ leases' = NoLeases /\ visit' = {} /\ need' = NoNeed
    /\ idle' = Period
    /\ UNCHANGED mac

-----------------------------------------------------------------------------
RoundStep ==
    \/ ListBots \/ FindLeases \/ NextPass \/ RoundEnds
    \/ \E l \in Lease :
        \/ HandleMissing(l) \/ HandleDead(l) \/ Renew(l) \/ HandleObsolete(l)
        \/ \E i \in Image : Add(i, l)

MacNext ==
    \/ RoundStep \/ ListingFails \/ Tick \/ Redeploy
    \/ \E l \in Lease : BotBoots(l) \/ BotFails(l)

\* The loop goes on, time passes, and a Mac that is not stuck boots.
MacFairness ==
    /\ WF_macVars(RoundStep)
    /\ WF_macVars(Tick)
    /\ \A l \in Lease : WF_macVars(BotBoots(l))

MacSpec == MacInit /\ [][MacNext]_macVars /\ MacFairness

-----------------------------------------------------------------------------
(* Properties *)

\* A Mac gets its time to boot: handleMissingBots takes no lease that is younger
\* than a period, though it sees only when leases expire, whatever rounds, late
\* or repeated by a restart, have looked at it before.
BootingIsKept ==
    [][\A l \in live \ live' : pass = "missing" => mac[l].age >= Period]_macVars

\* In the end every image has the Macs it should have, with bots that are up,
\* and they stay: stuck and dead ones are replaced, and no lease expires.
EnoughMacs ==
    <>[](\A i \in Image : Cardinality({l \in live : Managed(l) /\ mac[l].image = i /\ mac[l].bot = "up"})
                          >= config[i])
=============================================================================
