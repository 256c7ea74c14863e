------------------------------- MODULE Quota -------------------------------
(***************************************************************************)
(* The quota queues of the coordinator's buildlet pools,                   *)
(* src/internal/coordinator/pool/queue/quota.go.  One queue.Quota per      *)
(* element of Queue, one Item per client and queue.  Every method is a     *)
(* critical section under q.mu followed by the deferred call of updated,   *)
(* a loop of tryPop calls that each take the lock again: between them any  *)
(* other goroutine may get in.  A goroutine's place is at[q][t].           *)
(*                                                                         *)
(* The heap is the set of its items together with the one on top: among    *)
(* items that SchedItem.Less does not order, any may be on top.            *)
(***************************************************************************)
EXTENDS Integers, FiniteSets, FiniteSetsExt

CONSTANTS
    Queue,      \* the Quota values
    Client,     \* callers, each with one Item per queue
    Cost,       \* [Queue -> [Client -> Nat]]: the cost the Item is enqueued with
    Less,       \* SUBSET (Client \X Client): SchedItem.Less
    Limits,     \* [Queue -> SUBSET Int]: what UpdateLimit may be called with
    Untracked   \* what UpdateUntracked may be called with

Poller == "poller"      \* the goroutine that reports limits
None == "none"

ASSUME QuotaAssumption ==
    /\ Cost \in [Queue -> [Client -> Nat]]
    /\ Less \subseteq Client \X Client
    /\ Limits \in [Queue -> SUBSET Int]
    /\ Untracked \subseteq Int
    /\ Poller \notin Client
    /\ None \notin Client
    \* Less is a strict weak order: a set of items has a top.
    /\ \A S \in SUBSET Client : S # {} => \E c \in S : \A d \in S : <<d, c>> \notin Less

VARIABLES
    queue,          \* q.queue, as a set
    head,           \* q.queue[0]
    limit,
    used,
    untrackedUsed,
    popped,         \* the items whose popped channel is closed
    at              \* where each goroutine is with respect to each queue

quotaVars == <<queue, head, limit, used, untrackedUsed, popped, at>>

Thread == Client \cup {Poller}

\* A goroutine inside updated() after the step in question, and where it goes
\* from there.
After == [pushed |-> "await", cancelled |-> "refund", refunded |-> "failed",
          returned |-> "done", reported |-> "idle"]
Updating == {"pushed", "cancelled", "refunded", "returned", "reported"}
Place == Updating \cup {"new", "await", "refund", "failed", "held", "done", "idle"}

QuotaInit ==
    /\ queue = [q \in Queue |-> {}]
    /\ head = [q \in Queue |-> None]
    /\ limit = [q \in Queue |-> 0]
    /\ used = [q \in Queue |-> 0]
    /\ untrackedUsed = [q \in Queue |-> 0]
    /\ popped = [q \in Queue |-> {}]
    /\ at = [q \in Queue |-> [t \in Thread |-> IF t = Poller THEN "idle" ELSE "new"]]

-----------------------------------------------------------------------------
(* The heap *)

Top(S) == IF S = {} THEN {None} ELSE {c \in S : \A d \in S : <<d, c>> \notin Less}

\* Mutant: items are appended and never sifted up.
ReheapUnsorted(q, S) ==
    /\ queue' = [queue EXCEPT ![q] = S]
    /\ \E c \in (IF S = {} THEN {None} ELSE S) : head' = [head EXCEPT ![q] = c]

\* heap.Push, heap.Remove, heap.Pop leave a heap of S.
Reheap(q, S) ==
    /\ queue' = [queue EXCEPT ![q] = S]
    /\ \E c \in Top(S) : head' = [head EXCEPT ![q] = c]

Go(q, t, place) == at' = [at EXCEPT ![q][t] = place]

-----------------------------------------------------------------------------
(* updated and tryPop *)

Fits(q) ==
    queue[q] # {} /\ Cost[q][head[q]] <= limit[q] - used[q] - untrackedUsed[q]

\* Mutant: the item's channel is not closed.
TryPopUnannounced(q, t) ==
    /\ at[q][t] \in Updating
    /\ Fits(q)
    /\ used' = [used EXCEPT ![q] = @ + Cost[q][head[q]]]
    /\ Reheap(q, queue[q] \ {head[q]})
    /\ UNCHANGED <<limit, untrackedUsed, popped, at>>

\* tryPop with success: charge the cost, close popped, go round again.
TryPop(q, t) ==
    /\ at[q][t] \in Updating
    /\ Fits(q)
    /\ used' = [used EXCEPT ![q] = @ + Cost[q][head[q]]]
    /\ popped' = [popped EXCEPT ![q] = @ \cup {head[q]}]
    /\ Reheap(q, queue[q] \ {head[q]})
    /\ UNCHANGED <<limit, untrackedUsed, at>>

\* tryPop returns nil and so does updated.
LeaveUpdated(q, t) ==
    /\ at[q][t] \in Updating
    /\ ~Fits(q)
    /\ Go(q, t, After[at[q][t]])
    /\ UNCHANGED <<queue, head, limit, used, untrackedUsed, popped>>

-----------------------------------------------------------------------------
(* Enqueue, Await, ReturnQuota *)

Enqueue(q, c) ==
    /\ at[q][c] = "new"
    /\ Reheap(q, queue[q] \cup {c})
    /\ Go(q, c, "pushed")
    /\ UNCHANGED <<limit, used, untrackedUsed, popped>>

\* case <-i.popped
AwaitPopped(q, c) ==
    /\ at[q][c] = "await"
    /\ c \in popped[q]
    /\ Go(q, c, "held")
    /\ UNCHANGED <<queue, head, limit, used, untrackedUsed, popped>>

\* case <-ctx.Done(): i.cancel().  The context may end at any time, also after
\* the item was popped; both cases of the select can be ready.
AwaitCancelled(q, c) ==
    /\ at[q][c] = "await"
    /\ Reheap(q, queue[q] \ {c})
    /\ Go(q, c, "cancelled")
    /\ UNCHANGED <<limit, used, untrackedUsed, popped>>

\* Await goes on with i.ReturnQuota(): a no-op unless the item was popped.
Refund(q, c) ==
    /\ at[q][c] = "refund"
    /\ IF c \in popped[q]
       THEN /\ used' = [used EXCEPT ![q] = @ - Cost[q][c]]
            /\ Go(q, c, "refunded")
       ELSE /\ Go(q, c, "failed")
            /\ UNCHANGED used
    /\ UNCHANGED <<queue, head, limit, untrackedUsed, popped>>

\* Mutant: ReturnQuota without the deferred updated.
ReturnQuotaSilently(q, c) ==
    /\ at[q][c] = "held"
    /\ used' = [used EXCEPT ![q] = @ - Cost[q][c]]
    /\ Go(q, c, "done")
    /\ UNCHANGED <<queue, head, limit, untrackedUsed, popped>>

\* ReturnQuota by a caller whose Await succeeded.
ReturnQuota(q, c) ==
    /\ at[q][c] = "held"
    /\ used' = [used EXCEPT ![q] = @ - Cost[q][c]]
    /\ Go(q, c, "returned")
    /\ UNCHANGED <<queue, head, limit, untrackedUsed, popped>>

-----------------------------------------------------------------------------
(* Reports of limits *)

UpdateLimit(q, n) ==
    /\ at[q][Poller] = "idle"
    /\ limit' = [limit EXCEPT ![q] = n]
    /\ Go(q, Poller, "reported")
    /\ UNCHANGED <<queue, head, used, untrackedUsed, popped>>

UpdateUntracked(q, n) ==
    /\ at[q][Poller] = "idle"
    /\ untrackedUsed' = [untrackedUsed EXCEPT ![q] = n]
    /\ Go(q, Poller, "reported")
    /\ UNCHANGED <<queue, head, limit, used, popped>>

-----------------------------------------------------------------------------
Updated(q, t) == TryPop(q, t) \/ LeaveUpdated(q, t)

\* What a client's goroutine does without its caller deciding anything.
AwaitStep(q, c) == Updated(q, c) \/ AwaitPopped(q, c) \/ Refund(q, c)

QuotaNext ==
    \E q \in Queue :
        \/ \E c \in Client : \/ AwaitStep(q, c)
                             \/ Enqueue(q, c)
                             \/ AwaitCancelled(q, c)
                             \/ ReturnQuota(q, c)
        \/ Updated(q, Poller)
        \/ \E n \in Limits[q] : UpdateLimit(q, n)
        \/ \E n \in Untracked : UpdateUntracked(q, n)

QuotaSpec == QuotaInit /\ [][QuotaNext]_quotaVars

\* Goroutines are scheduled, holders return what they hold ("the caller must
\* call ReturnQuota()"), and every round of polling reports a limit.
QuotaFairSpec ==
    /\ QuotaSpec
    /\ \A q \in Queue :
        /\ \A c \in Client : WF_quotaVars(AwaitStep(q, c)) /\ WF_quotaVars(ReturnQuota(q, c))
        /\ WF_quotaVars(Updated(q, Poller))
        /\ SF_quotaVars(\E n \in Limits[q] : UpdateLimit(q, n))

-----------------------------------------------------------------------------
(* Properties *)

\* Type invariant: an item is queued until it is popped or cancelled, and the
\* head is an item of the queue that none of the others precedes.
QuotaTypeOK ==
    /\ queue \in [Queue -> SUBSET Client]
    /\ head \in [Queue -> Client \cup {None}]
    /\ \A q \in Queue : head[q] \in Top(queue[q])
    /\ limit \in [Queue -> Int]
    /\ used \in [Queue -> Int]
    /\ untrackedUsed \in [Queue -> Int]
    /\ popped \in [Queue -> SUBSET Client]
    /\ at \in [Queue -> [Thread -> Place]]
    /\ \A q \in Queue : at[q][Poller] \in {"idle", "reported"}

\* No wakeup is lost: when the item at the head of a queue fits, a goroutine is
\* inside updated() and will pop it.  Every method that changes the queue or
\* the amounts unlocks first and calls updated() afterwards, so the window in
\* between must always be some goroutine's duty.
NoLostWakeup == \A q \in Queue : Fits(q) => \E t \in Thread : at[q][t] \in Updating

\* An item is queued, or popped, or out: nobody waits for a channel that no
\* longer can be closed, and what has been cancelled cannot be popped later.
WaitersArePresent ==
    \A q \in Queue, c \in Client :
        /\ c \in queue[q] => c \notin popped[q] /\ at[q][c] \in {"pushed", "await"}
        /\ at[q][c] \in {"pushed", "await"} => c \in queue[q] \cup popped[q]
        /\ at[q][c] \in {"held", "refunded", "returned", "done"} => c \in popped[q]
        /\ at[q][c] = "new" => c \notin popped[q]

\* The clients whose item is charged to the queue.
Charged(q) ==
    {c \in popped[q] : at[q][c] \in {"pushed", "await", "cancelled", "refund", "held"}}

\* An item that is popped had nobody more important in its queue, and with it
\* the use of the project stays within the limit that is known at that time.
GrantsInOrder ==
    [][\A q \in Queue : \A c \in popped'[q] \ popped[q] :
          /\ \A d \in queue[q] : <<d, c>> \notin Less
          /\ used'[q] + untrackedUsed[q] <= limit[q]]_quotaVars

\* Room for any single item beside what the project's other instances use.
Room == \A q \in Queue, c \in Client : Cost[q][c] <= limit[q] - untrackedUsed[q]

\* Whoever waits gets the quota or gives up, if the holders return theirs and
\* the reports do not stay too low for good: nobody waits for ever.
WaiterServed ==
    []<>Room => \A q \in Queue, c \in Client : []<>(at[q][c] # "await")

\* A client's place as its caller sees it: what goes on inside updated() is not
\* part of the service.
Seen == [new |-> "new", pushed |-> "waiting", await |-> "waiting",
         cancelled |-> "leaving", refund |-> "leaving", refunded |-> "failed",
         failed |-> "failed", held |-> "held", returned |-> "done", done |-> "done"]

Service == INSTANCE QuotaService WITH
    waiting <- queue, granted <- popped,
    state <- [q \in Queue |-> [c \in Client |-> Seen[at[q][c]]]]

\* The queues with their goroutines implement the service: an item is granted in
\* order and within what is left, whichever goroutine happens to do it, and its
\* owner sees one of the service's steps or none.
ImplementsService == Service!ServiceSpec

QuotaInv == QuotaTypeOK /\ WaitersArePresent /\ NoLostWakeup
=============================================================================
