------------------------------ MODULE MCGomote ------------------------------
(***************************************************************************)
(* What stands behind a gomote, on small instances.  A behaviour is about  *)
(* one of five things, chosen by part: the sessions of the pool, the       *)
(* rendezvous at which an instance comes up, the reverse connections over  *)
(* which it is used, a directory that is fetched from it as a compressed   *)
(* tar file, or the EC2 pool, with two requests of which one fits at a     *)
(* time.                                                                   *)
(***************************************************************************)
EXTENDS SessionPool, Rendezvous, Revdial, Pargzip, EC2Pool

VARIABLE part

OneQueue == {"cpu"}
Two == {"a", "b"}
TwoCost == [cpu |-> [c \in Two |-> 2]]
TwoLess == {<<"a", "b">>}
TwoLimits == [cpu |-> {3}]

allVars == <<part, sessionVars, rdvVars, revVars, gzipVars, poolVars>>

\* Where a part is not the chosen one it is over (the pool of sessions is closed,
\* the calls have failed), or nobody has begun.
Init ==
    /\ RevInit /\ GzipInit /\ PoolInit
    /\ \/ part = "sessions" /\ SessionInit /\ NoInstances("failed")
       \/ part = "rendezvous" /\ EmptyPool("stopped", "returned") /\ RdvInit
       \/ part \in {"dials", "tgz", "ec2"} /\ EmptyPool("stopped", "returned") /\ NoInstances("failed")

Next ==
    /\ UNCHANGED part
    /\ \/ part = "sessions" /\ SessionNext /\ UNCHANGED <<rdvVars, revVars, gzipVars, poolVars>>
       \/ part = "rendezvous" /\ RdvNext /\ UNCHANGED <<sessionVars, revVars, gzipVars, poolVars>>
       \/ part = "dials" /\ RevNext /\ UNCHANGED <<sessionVars, rdvVars, gzipVars, poolVars>>
       \/ part = "tgz" /\ GzipNext /\ UNCHANGED <<sessionVars, rdvVars, revVars, poolVars>>
       \/ part = "ec2" /\ PoolNext /\ UNCHANGED <<sessionVars, rdvVars, revVars, gzipVars>>

\* No fair action of a part that is over, or where nobody has begun, is enabled,
\* so its fairness is harmless.
Spec ==
    /\ Init /\ [][Next]_allVars
    /\ SessionFairness /\ RdvFairness /\ RevFairness /\ GzipFairness /\ PoolFairness
=============================================================================
