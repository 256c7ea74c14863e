---------------------------- MODULE QuotaService ----------------------------
(***************************************************************************)
(* What a queue.Quota promises to its callers, without the goroutines that *)
(* keep the promise (src/internal/coordinator/pool/queue/quota.go and      *)
(* item.go): items wait, a grant goes to an item that nobody precedes and  *)
(* that fits, whoever gives up or is done has the amount returned.  Module *)
(* Quota implements it; ReversePool is built on it.                        *)
(***************************************************************************)
EXTENDS Integers

CONSTANTS Queue, Client, Cost, Less, Limits, Untracked

VARIABLES
    waiting,    \* [Queue -> SUBSET Client]: items in the queue
    limit, used, untrackedUsed,
    granted,    \* items that were granted, for good
    state       \* [Queue -> [Client -> State]]

serviceVars == <<waiting, limit, used, untrackedUsed, granted, state>>

State == {"new", "waiting", "leaving", "failed", "held", "done"}

ServiceInit ==
    /\ waiting = [q \in Queue |-> {}]
    /\ limit = [q \in Queue |-> 0]
    /\ used = [q \in Queue |-> 0]
    /\ untrackedUsed = [q \in Queue |-> 0]
    /\ granted = [q \in Queue |-> {}]
    /\ state = [q \in Queue |-> [c \in Client |-> "new"]]

Move(q, c, from, to) ==
    /\ state[q][c] = from
    /\ state' = [state EXCEPT ![q][c] = to]

\* Among items that Less does not order any may be the next one.
Foremost(q) == {c \in waiting[q] : \A d \in waiting[q] : <<d, c>> \notin Less}

\* Enqueue
Ask(q, c) ==
    /\ Move(q, c, "new", "waiting")
    /\ waiting' = [waiting EXCEPT ![q] = @ \cup {c}]
    /\ UNCHANGED <<limit, used, untrackedUsed, granted>>

\* tryPop by some goroutine
Grant(q, c) ==
    /\ c \in Foremost(q)
    /\ Cost[q][c] <= limit[q] - used[q] - untrackedUsed[q]
    /\ waiting' = [waiting EXCEPT ![q] = @ \ {c}]
    /\ granted' = [granted EXCEPT ![q] = @ \cup {c}]
    /\ used' = [used EXCEPT ![q] = @ + Cost[q][c]]
    /\ UNCHANGED <<limit, untrackedUsed, state>>

\* Await returns nil.
Obtain(q, c) ==
    /\ c \in granted[q]
    /\ Move(q, c, "waiting", "held")
    /\ UNCHANGED <<waiting, limit, used, untrackedUsed, granted>>

\* Await's context ends: cancel, and then ReturnQuota if a grant came first.
GiveUp(q, c) ==
    /\ Move(q, c, "waiting", "leaving")
    /\ waiting' = [waiting EXCEPT ![q] = @ \ {c}]
    /\ UNCHANGED <<limit, used, untrackedUsed, granted>>

Leave(q, c) ==
    /\ Move(q, c, "leaving", "failed")
    /\ used' = [used EXCEPT ![q] = IF c \in granted[q] THEN @ - Cost[q][c] ELSE @]
    /\ UNCHANGED <<waiting, limit, untrackedUsed, granted>>

Return(q, c) ==
    /\ Move(q, c, "held", "done")
    /\ used' = [used EXCEPT ![q] = @ - Cost[q][c]]
    /\ UNCHANGED <<waiting, limit, untrackedUsed, granted>>

Report(q, n) ==
    /\ limit' = [limit EXCEPT ![q] = n]
    /\ UNCHANGED <<waiting, used, untrackedUsed, granted, state>>

ReportUntracked(q, n) ==
    /\ untrackedUsed' = [untrackedUsed EXCEPT ![q] = n]
    /\ UNCHANGED <<waiting, limit, used, granted, state>>

\* UpdateQuotas, of the reverse pool only
ReportBoth(q, u, n) ==
    /\ used' = [used EXCEPT ![q] = u]
    /\ limit' = [limit EXCEPT ![q] = n]
    /\ UNCHANGED <<waiting, untrackedUsed, granted, state>>

ServiceNext ==
    \E q \in Queue :
        \/ \E c \in Client : \/ Ask(q, c) \/ Grant(q, c) \/ Obtain(q, c) \/ GiveUp(q, c)
                             \/ Leave(q, c) \/ Return(q, c)
        \/ \E n \in Limits[q] : Report(q, n)
        \/ \E n \in Untracked : ReportUntracked(q, n)

ServiceSpec == ServiceInit /\ [][ServiceNext]_serviceVars
=============================================================================
