----------------------------- MODULE SchedItem -----------------------------
(***************************************************************************)
(* The order in which builds get buildlets: SchedItem.Less of              *)
(* src/internal/coordinator/pool/queue/item.go.  A branch is whether its   *)
(* name starts with "release-branch"; a time is an integer, and 0 is the   *)
(* zero time.  The quota queues of module Quota are heaps in this order.    *)
(***************************************************************************)
EXTENDS Integers

CONSTANT Time      \* the times that occur

ASSUME TimeAssumption == Time \subseteq Int /\ 0 \in Time

SchedItems == [isRelease : BOOLEAN, isGomote : BOOLEAN, isTry : BOOLEAN,
               onReleaseBranch : BOOLEAN, commitTime : Time, requestTime : Time]

PriorityUrgent == 0
PriorityInteractive == 1
PriorityAutomated == 2
PriorityBatch == 3

Priority(s) ==
    IF s.isRelease THEN PriorityUrgent
    ELSE IF s.isGomote THEN PriorityInteractive
    ELSE IF s.isTry THEN PriorityAutomated
    ELSE PriorityBatch

SortTime(s) ==
    IF s.isGomote \/ s.isTry \/ s.commitTime = 0 THEN s.requestTime ELSE s.commitTime

\* The closure releaseBranch of Less: its parameter is i, and its body looks at
\* the receiver s.
ReleaseBranch(s, i) == s.onReleaseBranch

SchedLess(s, other) ==
    IF Priority(s) # Priority(other) THEN Priority(s) < Priority(other)
    ELSE IF /\ Priority(s) = PriorityAutomated
            /\ ReleaseBranch(s, s) # ReleaseBranch(s, other)
         THEN ReleaseBranch(s, s)
    ELSE IF Priority(s) = PriorityBatch THEN SortTime(s) > SortTime(other)
    ELSE SortTime(other) > SortTime(s)

-----------------------------------------------------------------------------
(* Properties *)

Incomparable(a, b) == ~SchedLess(a, b) /\ ~SchedLess(b, a)

\* Less is a strict weak order on a set of items: irreflexive, asymmetric and
\* transitive, and so is being incomparable.
StrictWeakOrder(S) ==
    \A a, b, c \in S :
        /\ ~SchedLess(a, a)
        /\ ~(SchedLess(a, b) /\ SchedLess(b, a))
        /\ SchedLess(a, b) /\ SchedLess(b, c) => SchedLess(a, c)
        /\ Incomparable(a, b) /\ Incomparable(b, c) => Incomparable(a, c)

=============================================================================
