---------------------------- MODULE MCMachines ----------------------------
(***************************************************************************)
(* The machines that are not made by the coordinator, on small instances.  *)
(* A behaviour is about one of two things, chosen by part: the pool of the *)
(* machines that connect to the coordinator by themselves, or makemac,     *)
(* which leases Macs for swarming.                                         *)
(***************************************************************************)
EXTENDS ReversePool, MakeMac

\* Two callers, or a caller and the first report, each make a queue.
HostQueues == {"q1", "q2"}
Two == {"a", "b"}
TwoCost == [q \in HostQueues |-> [c \in Two |-> 1]]
TwoLess == {<<"a", "b">>}
NoLimits == [q \in HostQueues |-> {}]

TwoConfigs == {[old |-> 1, new |-> 0], [old |-> 0, new |-> 1]}

VARIABLE part

allVars == <<part, poolVars, macVars>>

Init ==
    /\ PoolInit
    /\ \/ part = "reverse" /\ NotRunning
       \/ part = "makemac" /\ MacInit

Next ==
    /\ UNCHANGED part
    /\ \/ part = "reverse" /\ PoolNext /\ UNCHANGED macVars
       \/ part = "makemac" /\ MacNext /\ UNCHANGED poolVars

\* No fair action of a part that is not the chosen one is enabled: no machine
\* connects, or makemac does not run.  So its fairness is harmless.
Spec == Init /\ [][Next]_allVars /\ PoolFairness /\ MacFairness
=============================================================================
