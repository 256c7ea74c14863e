----------------------------- MODULE MCEngines -----------------------------
(***************************************************************************)
(* The two engines that the rest of the system stands on, on small         *)
(* instances.  A behaviour is about one of them, chosen by part: the       *)
(* workflow engine under relui, or a quota queue under the buildlet pools, *)
(* used while Run sleeps.                                                  *)
(***************************************************************************)
EXTENDS MCWorkflow, MCQuota

VARIABLE part

allVars == <<part, vars, quotaVars>>

InQueue(A) == part = "queue" /\ Asleep /\ A /\ UNCHANGED <<part, vars>>

EnginesInit == part \in {"workflow", "queue"} /\ Init /\ QuotaInit

EnginesNext ==
    \/ (RunStep \/ (part = "workflow" /\ Next)) /\ UNCHANGED <<part, quotaVars>>
    \/ InQueue(QuotaNext)

\* The fairness of FairSpec, and that of QuotaFairSpec where a queue is in use.
EnginesSpec ==
    /\ EnginesInit /\ [][EnginesNext]_allVars
    /\ WF_vars(RunStep)
    /\ \A q \in Queue :
        /\ \A c \in Client : WF_quotaVars(AwaitStep(q, c)) /\ WF_quotaVars(ReturnQuota(q, c))
        /\ WF_quotaVars(Updated(q, Poller))
        /\ SF_allVars(InQueue(\E n \in Limits[q] : UpdateLimit(q, n)))
=============================================================================
