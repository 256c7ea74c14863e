---------------------------- MODULE SessionPool ----------------------------
(***************************************************************************)
(* The pool of gomote sessions, SessionPool of                             *)
(* src/internal/coordinator/remote/remote.go: sessions of one user and     *)
(* builder type under reusable names, the goroutine that destroys expired  *)
(* ones, KeepAlive goroutines, and Close.  Methods are atomic under sp.mu; *)
(* buildlets are closed after it is unlocked.                              *)
(***************************************************************************)
EXTENDS Integers, FiniteSets, FiniteSetsExt

CONSTANTS
    Buildlet,       \* one per AddSession call
    KeepAliver,     \* one per KeepAlive call
    IdleTimeout     \* remoteBuildletIdleTimeout, in ticks of a minute

\* The timeout, 30 minutes, is longer than one tick of a KeepAlive goroutine.
ASSUME SessionAssumption == IdleTimeout \in Nat \ {0, 1} /\ IsFiniteSet(Buildlet)

Names == 0 .. Cardinality(Buildlet) - 1     \* the n of <user>-<type>-<n>

VARIABLES
    m,          \* sp.m: name -> session, `left' being the time to Expires
    free,       \* sp.mu is not locked
    added,      \* buildlets that were added
    destroying, \* buildlets that DestroySession has taken out of m
    closes,     \* calls of Close per buildlet
    poll,       \* the polling goroutine: "idle", "locking", "closing", "stopped"
    expiring,   \* the buildlets that it has taken out of m
    ka,         \* the KeepAlive goroutines
    due,        \* KeepAlive goroutines whose ticker fired
    close       \* sp.Close: "no", "waiting", "returned"

sessionVars == <<m, free, added, destroying, closes, poll, expiring, ka, due, close>>

NoCall == [on |-> FALSE, name |-> 0, buildlet |-> "none", used |-> FALSE]
Without(f, S) == [x \in DOMAIN f \ S |-> f[x]]
Renew(f, n) == [f EXCEPT ![n].left = IdleTimeout]

\* A pool without sessions, with its poller and Close in the given states.
EmptyPool(poller, closing) ==
    /\ m = [n \in {} |-> 0]
    /\ free = TRUE
    /\ added = {} /\ destroying = {} /\ expiring = {}
    /\ closes = [b \in Buildlet |-> 0]
    /\ poll = poller
    /\ ka = [k \in KeepAliver |-> NoCall]
    /\ due = {}
    /\ close = closing

SessionInit == EmptyPool("idle", "no")

-----------------------------------------------------------------------------
\* AddSession: the first name that is not taken.
AddSession(b) ==
    /\ free
    /\ b \notin added
    /\ added' = added \cup {b}
    /\ LET n == Min(Names \ DOMAIN m)
       IN  m' = [x \in DOMAIN m \cup {n} |->
                   IF x = n THEN [buildlet |-> b, left |-> IdleTimeout] ELSE m[x]]
    /\ UNCHANGED <<free, destroying, closes, poll, expiring, ka, due, close>>

\* Mutant: the session is taken out of the map only after it was closed.
DestroySessionLate(n) ==
    /\ free
    /\ n \in DOMAIN m
    /\ destroying' = destroying \cup {m[n].buildlet}
    /\ UNCHANGED <<m, free, added, closes, poll, expiring, ka, due, close>>

\* DestroySession, until the unlock.
DestroySession(n) ==
    /\ free
    /\ n \in DOMAIN m
    /\ m' = Without(m, {n})
    /\ destroying' = destroying \cup {m[n].buildlet}
    /\ UNCHANGED <<free, added, closes, poll, expiring, ka, due, close>>

DestroyClose(b) ==
    /\ b \in destroying
    /\ destroying' = destroying \ {b}
    /\ closes' = [closes EXCEPT ![b] = @ + 1]
    /\ UNCHANGED <<m, free, added, poll, expiring, ka, due, close>>

\* Session and RenewTimeout
RenewTimeout(n) ==
    /\ free
    /\ n \in DOMAIN m
    /\ m' = Renew(m, n)
    /\ UNCHANGED <<free, added, destroying, closes, poll, expiring, ka, due, close>>

-----------------------------------------------------------------------------
(* KeepAlive *)

KeepAlive(k, n) ==
    /\ free
    /\ n \in DOMAIN m
    /\ ~ka[k].used
    /\ m' = Renew(m, n)
    /\ ka' = [ka EXCEPT ![k] = [on |-> TRUE, name |-> n, buildlet |-> m[n].buildlet,
                                used |-> TRUE]]
    /\ UNCHANGED <<free, added, destroying, closes, poll, expiring, due, close>>

\* Every minute.  When the session is gone the function returns without
\* sp.mu.Unlock().
KeepAliveTick(k) ==
    /\ k \in due /\ free
    /\ due' = due \ {k}
    /\ IF ka[k].name \in DOMAIN m
       THEN m' = Renew(m, ka[k].name) /\ UNCHANGED free
       ELSE free' = FALSE /\ UNCHANGED m
    /\ UNCHANGED <<added, destroying, closes, poll, expiring, ka, close>>

\* Its context, the SSH session's, ends.
KeepAliveStop(k) ==
    /\ ka[k].on
    /\ ka' = [ka EXCEPT ![k].on = FALSE]
    /\ due' = due \ {k}
    /\ UNCHANGED <<m, free, added, destroying, closes, poll, expiring, close>>

\* A minute passes.  A goroutine whose ticker fires gets the lock before the
\* next one does, unless nobody can.
Minute ==
    /\ due = {} \/ ~free
    /\ m' = [n \in DOMAIN m |-> [m[n] EXCEPT !.left = IF @ > 0 THEN @ - 1 ELSE 0]]
    /\ due' = due \cup {k \in KeepAliver : ka[k].on}
    /\ UNCHANGED <<free, added, destroying, closes, poll, expiring, ka, close>>

-----------------------------------------------------------------------------
(* destroyExpiredSessions and Close *)

Expired == {n \in DOMAIN m : m[n].left = 0}

PollFires ==
    /\ poll = "idle"
    /\ poll' = "locking"
    /\ UNCHANGED <<m, free, added, destroying, closes, expiring, ka, due, close>>

PollTakes ==
    /\ poll = "locking" /\ free
    /\ poll' = "closing"
    /\ m' = Without(m, Expired)
    /\ expiring' = {m[n].buildlet : n \in Expired}
    /\ UNCHANGED <<free, added, destroying, closes, ka, due, close>>

PollCloses(b) ==
    /\ poll = "closing" /\ b \in expiring
    /\ expiring' = expiring \ {b}
    /\ closes' = [closes EXCEPT ![b] = @ + 1]
    /\ UNCHANGED <<m, free, added, destroying, poll, ka, due, close>>

PollEnds ==
    /\ poll = "closing" /\ expiring = {}
    /\ poll' = "idle"
    /\ UNCHANGED <<m, free, added, destroying, closes, expiring, ka, due, close>>

\* PeriodicallyDo sees its context and returns; pollWait.Done().
PollStops ==
    /\ poll = "idle" /\ close # "no"
    /\ poll' = "stopped"
    /\ UNCHANGED <<m, free, added, destroying, closes, expiring, ka, due, close>>

Close ==
    /\ close = "no"
    /\ close' = "waiting"
    /\ UNCHANGED <<m, free, added, destroying, closes, poll, expiring, ka, due>>

CloseReturns ==
    /\ close = "waiting" /\ poll = "stopped"
    /\ close' = "returned"
    /\ UNCHANGED <<m, free, added, destroying, closes, poll, expiring, ka, due>>

-----------------------------------------------------------------------------
PollStep ==
    PollFires \/ PollTakes \/ (\E b \in Buildlet : PollCloses(b)) \/ PollEnds

SessionNext ==
    \/ \E b \in Buildlet : AddSession(b) \/ DestroyClose(b)
    \/ \E n \in Names : DestroySession(n) \/ RenewTimeout(n)
    \/ \E k \in KeepAliver : \/ \E n \in Names : KeepAlive(k, n)
                             \/ KeepAliveTick(k) \/ KeepAliveStop(k)
    \/ Minute
    \/ PollStep
    \/ PollStops
    \/ Close
    \/ CloseReturns

SessionSpec == SessionInit /\ [][SessionNext]_sessionVars

\* Goroutines are scheduled and get a mutex that is free again and again; the
\* ticker of a poller that is idle and cancelled may win a select only so often.
SessionFairness ==
    /\ WF_sessionVars(PollStep)
    /\ SF_sessionVars(PollStops)
    /\ WF_sessionVars(CloseReturns)
    /\ WF_sessionVars(\E b \in Buildlet : DestroyClose(b))
    /\ \A k \in KeepAliver : WF_sessionVars(KeepAliveTick(k))

SessionFairSpec == SessionSpec /\ SessionFairness

-----------------------------------------------------------------------------
(* Properties *)

InMap == {m[n].buildlet : n \in DOMAIN m}

\* A buildlet is closed by whoever takes its session out of the map, once, and
\* never while the session can still be handed out: DestroySession and the
\* polling goroutine race for it.
ClosedOnce ==
    \A b \in Buildlet :
        closes[b] + Cardinality({S \in {1, 2, 3} : \/ S = 1 /\ b \in InMap
                                                   \/ S = 2 /\ b \in destroying
                                                   \/ S = 3 /\ b \in expiring})
            = IF b \in added THEN 1 ELSE 0

\* A session with an SSH session attached to it does not expire: its KeepAlive
\* goroutine renews it in time, whatever else goes on.
KeptAlive ==
    \A k \in KeepAliver : \A n \in Expired :
        free /\ ka[k].on /\ ka[k].name = n => m[n].buildlet # ka[k].buildlet

\* The buildlet of a session is closed once, and not while the session is used.
ClosedInTime == ClosedOnce /\ KeptAlive

\* "It waits for polling to conclude before returning": polling concludes, and
\* Close returns.
CloseEnds == close = "waiting" ~> close = "returned"
=============================================================================
