------------------------------ MODULE MCRelui ------------------------------
(***************************************************************************)
(* relui on small instances.  A behaviour is about one of three things,    *)
(* chosen by part: a workflow through crashes and restarts, the signing of *)
(* artifacts, or the schedules by which workflows start.                   *)
(***************************************************************************)
EXTENDS ReluiWorker, Signing, Schedules

VARIABLE part

\* A plain task and an expansion that adds one.
SmallName == {"tag", "plan", "x"}
SmallInitial == {"tag", "plan"}
SmallDeps == [tag |-> {}, plan |-> {"tag"}, x |-> {}]
SmallAdds == [plan |-> {"x"}]
SmallResult == SmallAdds

partVars == <<part, allVars, signingVars, schedVars>>

PartInit ==
    /\ part \in {"worker", "signing", "schedules"}
    /\ ReluiInit /\ SigningInit /\ SchedInit

PartNext ==
    /\ UNCHANGED part
    /\ \/ part = "worker" /\ ReluiNext /\ UNCHANGED <<signingVars, schedVars>>
       \/ part = "signing" /\ SigningNext /\ UNCHANGED <<allVars, schedVars>>
       \/ part = "schedules" /\ SchedNext /\ UNCHANGED <<allVars, signingVars>>

\* In a part that is not the chosen one nothing has begun, and no fair action is
\* enabled, so its fairness is harmless.
PartSpec == PartInit /\ [][PartNext]_partVars /\ ReluiFairness /\ SigningFairness
=============================================================================
