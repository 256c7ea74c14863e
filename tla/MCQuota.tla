------------------------------ MODULE MCQuota ------------------------------
(* An instance of Quota for TLC: one queue and three items, a release build  *)
(* and two post-submit builds of the same commit time, which SchedItem.Less  *)
(* does not order.                                                           *)
EXTENDS Quota, SchedItem

OneQueue == {"cpu"}
Three == {"a", "b", "c"}
ThreeCost == [cpu |-> [a |-> 2, b |-> 1, c |-> 2]]
Shrinking == [cpu |-> {1, 3}]

Build(isRelease) ==
    [isRelease |-> isRelease, isGomote |-> FALSE, isTry |-> FALSE,
     onReleaseBranch |-> FALSE, commitTime |-> 1, requestTime |-> 2]
ThreeBuilds == [a |-> Build(TRUE), b |-> Build(FALSE), c |-> Build(FALSE)]
ThreeLess == {p \in Three \X Three : SchedLess(ThreeBuilds[p[1]], ThreeBuilds[p[2]])}
=============================================================================
