--------------------------- MODULE MCCoordinator ---------------------------
(***************************************************************************)
(* The coordinator's own logic on a small instance.  A behaviour is about  *)
(* one of three things, chosen by part: try sets and post-submit work,     *)
(* which share their state, or the tests of one build.                     *)
(***************************************************************************)
EXTENDS TrySets, TestSharding

VARIABLE part

\* A commit that was submitted as it was tested: the change's revision.
MCWork == {<<"k", "b1">>}
MCGoTests == <<"a", "b">>
MCMiscTests == <<"m">>
MCDuration == [a |-> 4, b |-> 5, m |-> 6]

allVars == <<part, tryVars, shardVars>>

Init == part \in {"tries", "work", "tests"} /\ TryInit /\ ShardInit

\* What has to do with the builds of the revisions in Work: try sets are
\* wanted for good and nobody asks for their outcome.
WorkStep ==
  \/ \E k \in Key : FindTryWork(k)
  \/ \E r \in Work :
       \/ \E s \in DOMAIN set : \/ AwaitRetries(s, r[2]) \/ AwaitWakes(s, r[2])
                              \/ AwaitRestarts(s, r[2]) \/ AwaitInstalls(s, r[2])
       \/ \E i \in PostBuilds(r) \cup TryBuilds(r) : BuildStep(i)

Next ==
  /\ UNCHANGED part
  /\ \/ part = "tries" /\ (UserStep \/ GoroutineStep) /\ UNCHANGED shardVars
     \/ part = "work" /\ (FindStep \/ WorkStep) /\ UNCHANGED shardVars
     \/ part = "tests" /\ ShardNext /\ UNCHANGED tryVars

\* No fair action is enabled before a user, the dashboard or a build has taken
\* the first step, so the fairness of the parts that are not chosen is harmless.
Spec == Init /\ [][Next]_allVars /\ TryFairness /\ ShardFairness
=============================================================================
