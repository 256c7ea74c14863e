--------------------------- MODULE PoolSessions ---------------------------
(***************************************************************************)
(* What the pools of cloud buildlets see of the session pool of module     *)
(* SessionPool, src/internal/coordinator/remote/remote.go.  Before they    *)
(* take a VM for a stray, the cleaning loops of gce.go and ec2.go ask      *)
(* isRemoteBuildlet, which is SessionPool.IsSession, and ask under its     *)
(* lock.  A session is named after the GetBuildlet call that made its VM.  *)
(***************************************************************************)
EXTENDS Quota

CONSTANT Gomote     \* the GetBuildlet calls that are made for a gomote

ASSUME GomoteAssumption == Gomote \subseteq Client

VARIABLES
    gomote,     \* sessions: "none", "open" (in sp.m), "ended" (taken out of it)
    lockLost    \* sp.mu was locked and will not be unlocked

gomoteVars == <<gomote, lockLost>>

NoSessions ==
    /\ gomote = [c \in Client |-> "none"]
    /\ lockLost = FALSE

\* AddSession.
OpenSession(c) ==
    /\ c \in Gomote /\ gomote[c] = "none"
    /\ ~lockLost
    /\ gomote' = [gomote EXCEPT ![c] = "open"]
    /\ UNCHANGED lockLost

\* DestroySession or destroyExpiredSessions takes it out of the map.
EndSession(c) ==
    /\ gomote[c] = "open"
    /\ ~lockLost
    /\ gomote' = [gomote EXCEPT ![c] = "ended"]
    /\ UNCHANGED lockLost

\* The goroutine of KeepAlive ticks for a session that is gone, and returns
\* without unlocking.
KeepAliveLeaves(c) ==
    /\ gomote[c] = "ended"
    /\ ~lockLost
    /\ lockLost' = TRUE
    /\ UNCHANGED gomote

\* IsSession is called, gets the lock and returns found.
IsSession(c, found) == ~lockLost /\ found = (gomote[c] = "open")
=============================================================================
