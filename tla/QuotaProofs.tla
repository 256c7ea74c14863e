---------------------------- MODULE QuotaProofs ----------------------------
(* Proofs about module Quota, for any number of queues, clients, costs and   *)
(* reported limits.  QuotaInv is inductive as it stands: NoLostWakeup needs  *)
(* of the types only that the place of every goroutine is known.             *)
EXTENDS Quota, SchedItem, TLAPS

\* The poller is not a client.
LEMMA PollerIsNoClient == Poller \notin Client
BY QuotaAssumption

\* A goroutine that moves keeps the places of all goroutines well typed.
LEMMA GoType ==
    ASSUME QuotaTypeOK, NEW q \in Queue, NEW t \in Thread, NEW p \in Place, Go(q, t, p),
           t = Poller => p \in {"idle", "reported"}
    PROVE  /\ at' \in [Queue -> [Thread -> Place]]
           /\ \A r \in Queue : at'[r][Poller] \in {"idle", "reported"}
BY DEF QuotaTypeOK, Go, Thread

\* It is at its new place, and the others are where they were.
LEMMA GoAt ==
    ASSUME QuotaTypeOK, NEW q \in Queue, NEW t \in Thread, NEW p, Go(q, t, p)
    PROVE  /\ at'[q][t] = p
           /\ \A r \in Queue, u \in Thread : r # q \/ u # t => at'[r][u] = at[r][u]
BY DEF QuotaTypeOK, Go

\* A heap operation keeps the queue and its head well typed.
LEMMA ReheapType ==
    ASSUME QuotaTypeOK, NEW q \in Queue, NEW S \in SUBSET Client, Reheap(q, S)
    PROVE  /\ queue' \in [Queue -> SUBSET Client]
           /\ head' \in [Queue -> Client \cup {None}]
           /\ \A r \in Queue : head'[r] \in Top(queue'[r])
  <1>. PICK c \in Top(S) : head' = [head EXCEPT ![q] = c]
    BY DEF Reheap
  <1>1. c \in Client \cup {None}
    BY DEF Top
  <1>2. queue' = [queue EXCEPT ![q] = S]
    BY DEF Reheap
  <1>3. head'[q] \in Top(queue'[q])
    BY <1>2 DEF QuotaTypeOK
  <1>4. ASSUME NEW r \in Queue, r # q PROVE head'[r] \in Top(queue'[r])
    BY <1>2, <1>4 DEF QuotaTypeOK
  <1>. QED BY <1>1, <1>2, <1>3, <1>4 DEF QuotaTypeOK

\* The initial state: nothing is queued and everybody is outside.
LEMMA InitInv == QuotaInit => QuotaInv
BY QuotaAssumption DEF QuotaInit, QuotaInv, QuotaTypeOK, WaitersArePresent, NoLostWakeup,
    Top, Fits, Thread, Place, Poller, None
-----------------------------------------------------------------------------
(* One lemma per action: it preserves QuotaInv. *)

\* tryPop moves the head from the queue to the popped items; its goroutine
\* stays inside updated(), which is what NoLostWakeup asks for.
LEMMA TryPopInv ==
    ASSUME QuotaInv, NEW q \in Queue, NEW t \in Thread, TryPop(q, t)
    PROVE  QuotaInv'
  <1>. USE DEF TryPop, Reheap
  <1>1. head[q] \in queue[q] /\ head[q] \in Client
    BY DEF QuotaInv, QuotaTypeOK, Fits, Top
  <1>2. Cost[q][head[q]] \in Int
    BY <1>1, QuotaAssumption
  <1>3. QuotaTypeOK'
    BY <1>1, <1>2 DEF QuotaInv, QuotaTypeOK, Top
  <1>4. WaitersArePresent'
    BY <1>1 DEF QuotaInv, QuotaTypeOK, WaitersArePresent
  <1>5. NoLostWakeup'
    BY DEF QuotaInv, QuotaTypeOK, NoLostWakeup, Fits
  <1>. QED BY <1>3, <1>4, <1>5 DEF QuotaInv

\* A goroutine leaves updated() only when the head does not fit.
LEMMA LeaveUpdatedInv ==
    ASSUME QuotaInv, NEW q \in Queue, NEW t \in Thread, LeaveUpdated(q, t)
    PROVE  QuotaInv'
  <1>. USE DEF LeaveUpdated, Go
  <1>0. /\ After["pushed"] = "await" /\ After["cancelled"] = "refund"
        /\ After["refunded"] = "failed" /\ After["returned"] = "done"
        /\ After["reported"] = "idle"
    BY DEF After
  <1>1. QuotaTypeOK'
    BY <1>0 DEF QuotaInv, QuotaTypeOK, Top, Thread, Place, Updating, Poller
  <1>2. WaitersArePresent'
    BY <1>0 DEF QuotaInv, QuotaTypeOK, WaitersArePresent, Updating, Thread
  <1>3. NoLostWakeup'
    BY DEF QuotaInv, QuotaTypeOK, NoLostWakeup, Fits
  <1>. QED BY <1>1, <1>2, <1>3 DEF QuotaInv

\* push: the item may be the new head, and its own goroutine calls updated().
LEMMA EnqueueInv ==
    ASSUME QuotaInv, NEW q \in Queue, NEW c \in Client, Enqueue(q, c)
    PROVE  QuotaInv'
  <1>. USE DEF Enqueue, Reheap, Go
  <1>1. QuotaTypeOK'
    <2>1. QuotaTypeOK /\ c \in Thread /\ c # Poller /\ "pushed" \in Place
      BY PollerIsNoClient DEF QuotaInv, Thread, Place, Updating
    <2>2. queue[q] \cup {c} \in SUBSET Client
      BY <2>1 DEF QuotaTypeOK
    <2>3. Reheap(q, queue[q] \cup {c}) /\ Go(q, c, "pushed")
      BY DEF Enqueue
    <2>4. UNCHANGED <<limit, used, untrackedUsed, popped>>
      BY DEF Enqueue
    <2>. HIDE DEF Reheap, Go, Enqueue
    <2>. QED BY <2>1, <2>2, <2>3, <2>4, ReheapType, GoType DEF QuotaTypeOK
  <1>2. WaitersArePresent'
    BY DEF QuotaInv, QuotaTypeOK, WaitersArePresent, Updating, Thread
  <1>3. NoLostWakeup'
    BY DEF QuotaInv, QuotaTypeOK, NoLostWakeup, Fits, Updating, Thread
  <1>. QED BY <1>1, <1>2, <1>3 DEF QuotaInv

\* Await returns nil: only the place of its goroutine changes.
LEMMA AwaitPoppedInv ==
    ASSUME QuotaInv, NEW q \in Queue, NEW c \in Client, AwaitPopped(q, c)
    PROVE  QuotaInv'
  <1>. USE DEF AwaitPopped, Go
  <1>1. QuotaTypeOK'
    BY PollerIsNoClient DEF QuotaInv, QuotaTypeOK, Top, Thread, Place, Updating
  <1>2. WaitersArePresent'
    BY DEF QuotaInv, QuotaTypeOK, WaitersArePresent, Updating, Thread
  <1>3. NoLostWakeup'
    BY DEF QuotaInv, QuotaTypeOK, NoLostWakeup, Fits, Updating, Thread
  <1>. QED BY <1>1, <1>2, <1>3 DEF QuotaInv

\* cancel: the next item may fit where the cancelled one did not.
LEMMA AwaitCancelledInv ==
    ASSUME QuotaInv, NEW q \in Queue, NEW c \in Client, AwaitCancelled(q, c)
    PROVE  QuotaInv'
  <1>. USE DEF AwaitCancelled, Reheap, Go
  <1>1. QuotaTypeOK'
    <2>1. QuotaTypeOK /\ c \in Thread /\ c # Poller /\ "cancelled" \in Place
      BY PollerIsNoClient DEF QuotaInv, Thread, Place, Updating
    <2>2. queue[q] \ {c} \in SUBSET Client
      BY <2>1 DEF QuotaTypeOK
    <2>3. Reheap(q, queue[q] \ {c}) /\ Go(q, c, "cancelled")
      BY DEF AwaitCancelled
    <2>4. UNCHANGED <<limit, used, untrackedUsed, popped>>
      BY DEF AwaitCancelled
    <2>. HIDE DEF Reheap, Go, AwaitCancelled
    <2>. QED BY <2>1, <2>2, <2>3, <2>4, ReheapType, GoType DEF QuotaTypeOK
  <1>2. WaitersArePresent'
    BY DEF QuotaInv, QuotaTypeOK, WaitersArePresent, Updating, Thread
  <1>3. NoLostWakeup'
    BY DEF QuotaInv, QuotaTypeOK, NoLostWakeup, Fits, Updating, Thread
  <1>. QED BY <1>1, <1>2, <1>3 DEF QuotaInv

\* The cancelled Await: after cancel the item is popped or will never be.
LEMMA RefundInv ==
    ASSUME QuotaInv, NEW q \in Queue, NEW c \in Client, Refund(q, c)
    PROVE  QuotaInv'
  <1>. USE DEF Refund, Go
  <1>1. Cost[q][c] \in Int
    BY QuotaAssumption
  <1>2. QuotaTypeOK'
    <2>1. QuotaTypeOK /\ c \in Thread /\ c # Poller /\ "refunded" \in Place /\ "failed" \in Place
      BY PollerIsNoClient DEF QuotaInv, Thread, Place, Updating
    <2>2. \E p \in {"refunded", "failed"} : Go(q, c, p)
      BY DEF Refund
    <2>3. /\ UNCHANGED <<queue, head, limit, untrackedUsed, popped>>
          /\ used' \in [Queue -> Int]
      BY <1>1, <2>1 DEF Refund, QuotaTypeOK
    <2>. HIDE DEF Go, Refund
    <2>. QED BY <2>1, <2>2, <2>3, GoType DEF QuotaTypeOK, Top
  <1>3. WaitersArePresent'
    <2>1. c \notin queue[q] /\ c \in Thread /\ Client \subseteq Thread /\ UNCHANGED <<queue, popped>>
      BY DEF QuotaInv, WaitersArePresent, Thread
    <2>2. CASE c \in popped[q]
      <3>1. Go(q, c, "refunded")
        BY <2>2
      <3>. HIDE DEF Go, Refund
      <3>2. /\ at'[q][c] = "refunded"
            /\ \A r \in Queue, u \in Thread : r # q \/ u # c => at'[r][u] = at[r][u]
        BY <2>1, <3>1, GoAt DEF QuotaInv
      <3>. QED BY <2>1, <2>2, <3>2 DEF QuotaInv, WaitersArePresent
    <2>3. CASE c \notin popped[q]
      <3>1. Go(q, c, "failed")
        BY <2>3
      <3>. HIDE DEF Go, Refund
      <3>2. /\ at'[q][c] = "failed"
            /\ \A r \in Queue, u \in Thread : r # q \/ u # c => at'[r][u] = at[r][u]
        BY <2>1, <3>1, GoAt DEF QuotaInv
      <3>. QED BY <2>1, <2>3, <3>2 DEF QuotaInv, WaitersArePresent
    <2>. QED BY <2>2, <2>3
  <1>4. NoLostWakeup'
    BY DEF QuotaInv, QuotaTypeOK, NoLostWakeup, Fits, Updating, Thread
  <1>. QED BY <1>2, <1>3, <1>4 DEF QuotaInv

\* ReturnQuota makes room; the returning goroutine calls updated().
LEMMA ReturnQuotaInv ==
    ASSUME QuotaInv, NEW q \in Queue, NEW c \in Client, ReturnQuota(q, c)
    PROVE  QuotaInv'
  <1>. USE DEF ReturnQuota, Go
  <1>1. Cost[q][c] \in Int
    BY QuotaAssumption
  <1>2. QuotaTypeOK'
    <2>1. QuotaTypeOK /\ c \in Thread /\ c # Poller /\ "returned" \in Place
      BY PollerIsNoClient DEF QuotaInv, Thread, Place, Updating
    <2>2. Go(q, c, "returned")
      BY DEF ReturnQuota
    <2>3. /\ UNCHANGED <<queue, head, limit, untrackedUsed, popped>>
          /\ used' \in [Queue -> Int]
      BY <1>1, <2>1 DEF ReturnQuota, QuotaTypeOK
    <2>. HIDE DEF Go, ReturnQuota
    <2>. QED BY <2>1, <2>2, <2>3, GoType DEF QuotaTypeOK, Top
  <1>3. WaitersArePresent'
    BY DEF QuotaInv, QuotaTypeOK, WaitersArePresent, Updating, Thread
  <1>4. NoLostWakeup'
    BY DEF QuotaInv, QuotaTypeOK, NoLostWakeup, Fits, Updating, Thread
  <1>. QED BY <1>2, <1>3, <1>4 DEF QuotaInv

\* A report changes what fits, and the poller calls updated().
LEMMA ReportInv ==
    ASSUME QuotaInv, NEW q \in Queue, NEW n \in Int,
           UpdateLimit(q, n) \/ UpdateUntracked(q, n)
    PROVE  QuotaInv'
  <1>. USE DEF UpdateLimit, UpdateUntracked, Go
  <1>1. QuotaTypeOK'
    <2>1. QuotaTypeOK /\ Poller \in Thread /\ "reported" \in Place
      BY DEF QuotaInv, Thread, Place, Updating
    <2>2. Go(q, Poller, "reported")
      BY DEF UpdateLimit, UpdateUntracked
    <2>3. /\ UNCHANGED <<queue, head, used, popped>>
          /\ limit' \in [Queue -> Int] /\ untrackedUsed' \in [Queue -> Int]
      BY <2>1 DEF UpdateLimit, UpdateUntracked, QuotaTypeOK
    <2>. HIDE DEF Go, UpdateLimit, UpdateUntracked
    <2>. QED BY <2>1, <2>2, <2>3, GoType DEF QuotaTypeOK, Top
  <1>2. WaitersArePresent'
    <2>1. ASSUME NEW r \in Queue, NEW c \in Client PROVE at'[r][c] = at[r][c]
      <3>1. c # Poller /\ c \in Thread
        BY PollerIsNoClient DEF Thread
      <3>2. at' = [at EXCEPT ![q][Poller] = "reported"]
        OBVIOUS
      <3>3. at \in [Queue -> [Thread -> Place]]
        BY DEF QuotaInv, QuotaTypeOK
      <3>. HIDE DEF UpdateLimit, UpdateUntracked, Go, Poller
      <3>4. CASE r = q BY <3>1, <3>2, <3>3, <3>4
      <3>5. CASE r # q BY <3>2, <3>3, <3>5
      <3>. QED BY <3>4, <3>5
    <2>. QED BY <2>1 DEF QuotaInv, WaitersArePresent
  <1>3. NoLostWakeup'
    BY DEF QuotaInv, QuotaTypeOK, NoLostWakeup, Fits, Updating, Thread
  <1>. QED BY <1>1, <1>2, <1>3 DEF QuotaInv

\* Every step, stuttering included, preserves QuotaInv.
LEMMA NextInv == QuotaInv /\ [QuotaNext]_quotaVars => QuotaInv'
  <1>. SUFFICES ASSUME QuotaInv, [QuotaNext]_quotaVars PROVE QuotaInv'
    OBVIOUS
  <1>1. CASE UNCHANGED quotaVars
    BY <1>1 DEF quotaVars, QuotaInv, QuotaTypeOK, WaitersArePresent, NoLostWakeup, Fits, Top
  <1>2. CASE QuotaNext
    <2>. PICK q \in Queue :
            \/ \E c \in Client : \/ AwaitStep(q, c) \/ Enqueue(q, c)
                                 \/ AwaitCancelled(q, c) \/ ReturnQuota(q, c)
            \/ Updated(q, Poller)
            \/ \E n \in Limits[q] : UpdateLimit(q, n)
            \/ \E n \in Untracked : UpdateUntracked(q, n)
      BY <1>2 DEF QuotaNext
    <2>1. ASSUME NEW c \in Client, AwaitStep(q, c) PROVE QuotaInv'
      BY <2>1, TryPopInv, LeaveUpdatedInv, AwaitPoppedInv, RefundInv
         DEF AwaitStep, Updated, Thread
    <2>2. CASE Updated(q, Poller)
      BY <2>2, TryPopInv, LeaveUpdatedInv DEF Updated, Thread
    <2>3. ASSUME NEW c \in Client,
                 Enqueue(q, c) \/ AwaitCancelled(q, c) \/ ReturnQuota(q, c)
          PROVE  QuotaInv'
      BY <2>3, EnqueueInv, AwaitCancelledInv, ReturnQuotaInv
    <2>4. ASSUME NEW n \in Limits[q] \cup Untracked,
                 UpdateLimit(q, n) \/ UpdateUntracked(q, n)
          PROVE  QuotaInv'
      <3>1. n \in Int BY QuotaAssumption
      <3>. QED BY <2>4, <3>1, ReportInv
    <2>. QED BY <2>1, <2>2, <2>3, <2>4
  <1>. QED BY <1>1, <1>2

-----------------------------------------------------------------------------
(* The theorems. *)

\* QuotaInv holds in every reachable state.
THEOREM QuotaInvariant == QuotaSpec => []QuotaInv
BY InitInv, NextInv, PTL DEF QuotaSpec

\* The heap, the amounts and the places of the goroutines keep their types.
THEOREM QuotaTypeCorrect == QuotaSpec => []QuotaTypeOK
  <1>1. QuotaInv => QuotaTypeOK BY DEF QuotaInv
  <1>. QED BY <1>1, QuotaInvariant, PTL

\* No interleaving of the unlocked windows before updated() strands an item
\* that fits.
THEOREM WakeupsAreNotLost == QuotaSpec => []NoLostWakeup
  <1>1. QuotaInv => NoLostWakeup BY DEF QuotaInv
  <1>. QED BY <1>1, QuotaInvariant, PTL

\* An Await that races with tryPop finds its item queued or popped, never lost.
THEOREM NoWaiterIsLost == QuotaSpec => []WaitersArePresent
  <1>1. QuotaInv => WaitersArePresent BY DEF QuotaInv
  <1>. QED BY <1>1, QuotaInvariant, PTL

\* tryPop grants quota to the most important waiting item and within the limit.
THEOREM GrantOrder == QuotaSpec => GrantsInOrder
  <1>. DEFINE Ordered == \A q \in Queue : \A c \in popped'[q] \ popped[q] :
                            /\ \A d \in queue[q] : <<d, c>> \notin Less
                            /\ used'[q] + untrackedUsed[q] <= limit[q]
  <1>1. QuotaInv /\ [QuotaNext]_quotaVars => [Ordered]_quotaVars
    <2>. SUFFICES ASSUME QuotaInv, QuotaNext PROVE Ordered
      OBVIOUS
    <2>1. ASSUME NEW q \in Queue, NEW t \in Thread, TryPop(q, t) PROVE Ordered
      <3>1. head[q] \in queue[q] /\ head[q] \in Client /\ head[q] \in Top(queue[q])
        BY <2>1 DEF TryPop, QuotaInv, QuotaTypeOK, Fits, Top
      <3>2. \A d \in queue[q] : <<d, head[q]>> \notin Less
        BY <3>1 DEF Top
      <3>3. Cost[q][head[q]] \in Int
        BY <3>1, QuotaAssumption
      <3>4. /\ \A p \in Queue : popped'[p] \ popped[p] \subseteq {head[q]}
            /\ \A p \in Queue : p # q => popped'[p] = popped[p]
        BY <2>1 DEF TryPop, QuotaInv, QuotaTypeOK
      <3>5. used'[q] + untrackedUsed[q] <= limit[q]
        BY <2>1, <3>3 DEF TryPop, QuotaInv, QuotaTypeOK, Fits
      <3>. QED BY <3>2, <3>4, <3>5
    <2>2. ASSUME popped' = popped PROVE Ordered
      BY <2>2
    <2>3. \/ popped' = popped
          \/ \E q \in Queue : \E t \in Thread : TryPop(q, t)
      BY DEF QuotaNext, AwaitStep, Updated, LeaveUpdated, AwaitPopped, Refund, Enqueue,
             AwaitCancelled, ReturnQuota, UpdateLimit, UpdateUntracked, Thread
    <2>. QED BY <2>1, <2>2, <2>3
  <1>2. QuotaSpec => [][Ordered]_quotaVars
    BY <1>1, QuotaInvariant, PTL DEF QuotaSpec
  <1>. QED BY <1>2 DEF GrantsInOrder

-----------------------------------------------------------------------------
(* Quota implements QuotaService. *)

\* A client is never where only the goroutine that reports limits can be.
ClientPlaces == \A q \in Queue, c \in Client : at[q][c] \notin {"idle", "reported"}

\* A step moves one goroutine, a client's to a client's place, or none.
LEMMA ClientPlacesNext ==
    ASSUME QuotaInv, ClientPlaces, [QuotaNext]_quotaVars
    PROVE  ClientPlaces'
  <1>1. ASSUME NEW q \in Queue, NEW t \in Thread, NEW p, Go(q, t, p),
               t = Poller \/ p \notin {"idle", "reported"}
        PROVE  ClientPlaces'
    <2>1. /\ at'[q][t] = p
          /\ \A r \in Queue, u \in Thread : r # q \/ u # t => at'[r][u] = at[r][u]
      BY <1>1, GoAt DEF QuotaInv
    <2>2. Client \subseteq Thread
      BY DEF Thread
    <2>. QED BY <1>1, <2>1, <2>2, PollerIsNoClient DEF ClientPlaces
  <1>2. ASSUME at' = at PROVE ClientPlaces'
    BY <1>2 DEF ClientPlaces
  <1>3. ASSUME NEW q \in Queue, NEW c \in Client,
               AwaitPopped(q, c) \/ Refund(q, c) \/ Enqueue(q, c) \/ AwaitCancelled(q, c)
                 \/ ReturnQuota(q, c)
        PROVE  ClientPlaces'
    BY <1>1, <1>3 DEF AwaitPopped, Refund, Enqueue, AwaitCancelled, ReturnQuota, Thread
  <1>4. ASSUME NEW q \in Queue, NEW t \in Thread, LeaveUpdated(q, t) PROVE ClientPlaces'
    <2>1. /\ After["pushed"] = "await" /\ After["cancelled"] = "refund"
          /\ After["refunded"] = "failed" /\ After["returned"] = "done"
      BY DEF After
    <2>2. t = Poller \/ After[at[q][t]] \notin {"idle", "reported"}
      BY <1>4, <2>1 DEF LeaveUpdated, Updating, ClientPlaces, Thread
    <2>. QED BY <1>1, <1>4, <2>2 DEF LeaveUpdated
  <1>5. ASSUME NEW q \in Queue, NEW n, UpdateLimit(q, n) \/ UpdateUntracked(q, n)
        PROVE  ClientPlaces'
    BY <1>1, <1>5 DEF UpdateLimit, UpdateUntracked, Thread
  <1>. QED
    BY <1>2, <1>3, <1>4, <1>5 DEF QuotaNext, AwaitStep, Updated, Thread, TryPop, quotaVars

\* The state of the service.
Abstract == [q \in Queue |-> [c \in Client |-> Seen[at[q][c]]]]

\* A client that goes from one place to another is seen to do so, and only it.
LEMMA SeenMove ==
    ASSUME QuotaTypeOK, NEW q \in Queue, NEW c \in Client, NEW place \in Place,
           Go(q, c, place)
    PROVE  Abstract' = [Abstract EXCEPT ![q][c] = Seen[place]]
  <1>1. /\ at'[q][c] = place
        /\ \A p \in Queue, d \in Client : p # q \/ d # c => at'[p][d] = at[p][d]
    BY GoAt DEF Thread
  <1>2. \A p \in Queue, d \in Client :
          Abstract'[p][d] = [Abstract EXCEPT ![q][c] = Seen[place]][p][d]
    BY <1>1 DEF Abstract
  <1>. QED BY <1>2 DEF Abstract

\* tryPop, by whatever goroutine, is a grant to the item on top.
LEMMA TryPopGrants ==
    ASSUME QuotaInv, NEW q \in Queue, NEW t \in Thread, TryPop(q, t)
    PROVE  head[q] \in Client /\ Service!Grant(q, head[q])
  <1>1. head[q] \in queue[q] /\ head[q] \in Client /\ head[q] \in Top(queue[q])
    BY DEF TryPop, QuotaInv, QuotaTypeOK, Fits, Top
  <1>2. head[q] \in Service!Foremost(q)
    BY <1>1 DEF Top, Service!Foremost
  <1>. QED BY <1>1, <1>2 DEF TryPop, Fits, Reheap, Service!Grant

\* A goroutine that leaves updated() changes nothing its caller sees.
LEMMA LeavingIsUnseen ==
    ASSUME QuotaInv, ClientPlaces, NEW q \in Queue, NEW t \in Thread, LeaveUpdated(q, t)
    PROVE  UNCHANGED Service!serviceVars
  <1>. DEFINE to == After[at[q][t]]
  <1>1. /\ at'[q][t] = to
        /\ \A r \in Queue, u \in Thread : r # q \/ u # t => at'[r][u] = at[r][u]
    BY GoAt DEF LeaveUpdated, QuotaInv
  <1>2. t \in Client => Seen[to] = Seen[at[q][t]]
    BY DEF LeaveUpdated, Updating, ClientPlaces, After, Seen
  <1>3. \A r \in Queue, c \in Client : Seen[at'[r][c]] = Seen[at[r][c]]
    BY <1>1, <1>2 DEF Thread
  <1>4. Abstract' = Abstract
    BY <1>3 DEF Abstract
  <1>. QED BY <1>4 DEF LeaveUpdated, Abstract, Service!serviceVars

\* What a client's goroutine does is a step of the client in the service.
LEMMA ClientSteps ==
    ASSUME QuotaInv, NEW q \in Queue, NEW c \in Client
    PROVE  /\ Enqueue(q, c) => Service!Ask(q, c)
           /\ AwaitPopped(q, c) => Service!Obtain(q, c)
           /\ AwaitCancelled(q, c) => Service!GiveUp(q, c)
           /\ Refund(q, c) => Service!Leave(q, c)
           /\ ReturnQuota(q, c) => Service!Return(q, c)
  <1>1. /\ Seen["new"] = "new" /\ Seen["pushed"] = "waiting" /\ Seen["await"] = "waiting"
        /\ Seen["cancelled"] = "leaving" /\ Seen["refund"] = "leaving"
        /\ Seen["refunded"] = "failed" /\ Seen["failed"] = "failed"
        /\ Seen["held"] = "held" /\ Seen["returned"] = "done"
    BY DEF Seen
  <1>2. {"pushed", "held", "cancelled", "refunded", "failed", "returned"} \subseteq Place
    BY DEF Place, Updating
  <1>3. ASSUME NEW place \in Place, Go(q, c, place),
               NEW from, Seen[at[q][c]] = from, NEW to, Seen[place] = to
        PROVE  Service!Move(q, c, from, to)
    <2>1. Abstract' = [Abstract EXCEPT ![q][c] = to]
      BY <1>3, SeenMove DEF QuotaInv
    <2>2. Abstract[q][c] = from
      BY <1>3 DEF Abstract
    <2>. QED BY <2>1, <2>2 DEF Abstract, Service!Move
  <1>4. Enqueue(q, c) => Service!Ask(q, c)
    BY <1>1, <1>2, <1>3 DEF Enqueue, Reheap, Service!Ask
  <1>5. AwaitPopped(q, c) => Service!Obtain(q, c)
    BY <1>1, <1>2, <1>3 DEF AwaitPopped, Service!Obtain
  <1>6. AwaitCancelled(q, c) => Service!GiveUp(q, c)
    BY <1>1, <1>2, <1>3 DEF AwaitCancelled, Reheap, Service!GiveUp
  <1>7. Refund(q, c) => Service!Leave(q, c)
    <2>1. used = [used EXCEPT ![q] = used[q]]
      BY DEF QuotaInv, QuotaTypeOK
    <2>. QED BY <1>1, <1>2, <1>3, <2>1 DEF Refund, Service!Leave
  <1>8. ReturnQuota(q, c) => Service!Return(q, c)
    BY <1>1, <1>2, <1>3 DEF ReturnQuota, Service!Return
  <1>. QED BY <1>4, <1>5, <1>6, <1>7, <1>8

\* A report changes one amount, and the place of nobody but the poller.
LEMMA ReportSteps ==
    ASSUME QuotaInv, NEW q \in Queue, NEW n
    PROVE  /\ UpdateLimit(q, n) => Service!Report(q, n)
           /\ UpdateUntracked(q, n) => Service!ReportUntracked(q, n)
  <1>1. ASSUME Go(q, Poller, "reported") PROVE Abstract' = Abstract
    <2>1. \A r \in Queue, c \in Client : at'[r][c] = at[r][c]
      BY <1>1, GoAt, PollerIsNoClient DEF QuotaInv, Thread
    <2>. QED BY <2>1 DEF Abstract
  <1>. QED
    BY <1>1 DEF UpdateLimit, UpdateUntracked, Abstract, Service!Report, Service!ReportUntracked

\* Every step of the queues is a step of the service or leaves it alone.
LEMMA ServiceStep ==
    ASSUME QuotaInv, ClientPlaces, [QuotaNext]_quotaVars
    PROVE  [Service!ServiceNext]_(Service!serviceVars)
  <1>1. CASE UNCHANGED quotaVars
    <2>1. Abstract' = Abstract
      BY <1>1 DEF quotaVars, Abstract
    <2>. QED BY <1>1, <2>1 DEF quotaVars, Abstract, Service!serviceVars
  <1>2. ASSUME NEW q \in Queue, NEW t \in Thread, Updated(q, t)
        PROVE  Service!ServiceNext \/ UNCHANGED Service!serviceVars
    BY <1>2, TryPopGrants, LeavingIsUnseen DEF Updated, Service!ServiceNext
  <1>3. ASSUME NEW q \in Queue, NEW c \in Client,
               AwaitPopped(q, c) \/ Refund(q, c) \/ Enqueue(q, c) \/ AwaitCancelled(q, c)
                 \/ ReturnQuota(q, c)
        PROVE  Service!ServiceNext
    BY <1>3, ClientSteps DEF Service!ServiceNext
  <1>4. ASSUME NEW q \in Queue, NEW n \in Limits[q], UpdateLimit(q, n)
        PROVE  Service!ServiceNext
    BY <1>4, ReportSteps DEF Service!ServiceNext
  <1>5. ASSUME NEW q \in Queue, NEW n \in Untracked, UpdateUntracked(q, n)
        PROVE  Service!ServiceNext
    BY <1>5, ReportSteps DEF Service!ServiceNext
  <1>6. CASE QuotaNext
    <2>. PICK q \in Queue :
            \/ \E c \in Client : \/ AwaitStep(q, c) \/ Enqueue(q, c)
                                 \/ AwaitCancelled(q, c) \/ ReturnQuota(q, c)
            \/ Updated(q, Poller)
            \/ \E n \in Limits[q] : UpdateLimit(q, n)
            \/ \E n \in Untracked : UpdateUntracked(q, n)
      BY <1>6 DEF QuotaNext
    <2>1. ASSUME NEW c \in Client, AwaitStep(q, c)
          PROVE  Service!ServiceNext \/ UNCHANGED Service!serviceVars
      BY <2>1, <1>2, <1>3 DEF AwaitStep, Thread
    <2>2. Poller \in Thread
      BY DEF Thread
    <2>3. CASE \E c \in Client : \/ AwaitStep(q, c) \/ Enqueue(q, c)
                                \/ AwaitCancelled(q, c) \/ ReturnQuota(q, c)
      BY <2>3, <1>3, <2>1
    <2>4. CASE Updated(q, Poller)
      BY <2>4, <1>2, <2>2
    <2>5. CASE \E n \in Limits[q] : UpdateLimit(q, n)
      BY <2>5, <1>4
    <2>6. CASE \E n \in Untracked : UpdateUntracked(q, n)
      BY <2>6, <1>5
    <2>. QED BY <2>3, <2>4, <2>5, <2>6
  <1>. QED BY <1>1, <1>6

\* The queues and their goroutines implement the service: whoever calls updated(),
\* in whichever order, the callers see grants in order and within the limits.
THEOREM QuotaImplementsService == QuotaSpec => ImplementsService
  <1>1. QuotaInit => ClientPlaces /\ Service!ServiceInit
    BY PollerIsNoClient DEF QuotaInit, ClientPlaces, Thread, Seen, Service!ServiceInit
  <1>2. QuotaInv /\ ClientPlaces /\ [QuotaNext]_quotaVars => ClientPlaces'
    BY ClientPlacesNext
  <1>3. QuotaInv /\ ClientPlaces /\ [QuotaNext]_quotaVars
          => [Service!ServiceNext]_(Service!serviceVars)
    BY ServiceStep
  <1>. QED
    BY <1>1, <1>2, <1>3, QuotaInvariant, PTL DEF QuotaSpec, ImplementsService, Service!ServiceSpec

-----------------------------------------------------------------------------
\* What Less computes for two items of the same priority.
LEMMA LessByKey ==
    ASSUME NEW a \in SchedItems, NEW b \in SchedItems
    PROVE  /\ Priority(a) \in 0..3
           /\ SortTime(a) \in Int
           /\ SchedLess(a, b) <=>
                IF Priority(a) # Priority(b) THEN Priority(a) < Priority(b)
                ELSE IF Priority(a) = 3 THEN SortTime(a) > SortTime(b)
                ELSE SortTime(b) > SortTime(a)
  <1>1. Priority(a) \in 0..3
    BY DEF SchedItems, Priority, PriorityUrgent, PriorityInteractive, PriorityAutomated,
           PriorityBatch
  <1>2. SortTime(a) \in Int
    BY TimeAssumption DEF SchedItems, SortTime
  <1>3. ReleaseBranch(a, a) = ReleaseBranch(a, b)
    BY DEF ReleaseBranch
  <1>. QED BY <1>1, <1>2, <1>3 DEF SchedLess, PriorityBatch

\* For every set of times, Less is a strict weak order on all items.  Without
\* it container/heap, and so every quota queue, could put an item on top that
\* another one precedes.
THEOREM LessIsStrictWeakOrder == StrictWeakOrder(SchedItems)
  <1>. SUFFICES ASSUME NEW a \in SchedItems, NEW b \in SchedItems, NEW c \in SchedItems
                PROVE  /\ ~SchedLess(a, a)
                       /\ ~(SchedLess(a, b) /\ SchedLess(b, a))
                       /\ SchedLess(a, b) /\ SchedLess(b, c) => SchedLess(a, c)
                       /\ Incomparable(a, b) /\ Incomparable(b, c) => Incomparable(a, c)
    BY DEF StrictWeakOrder
  <1>. DEFINE P(i) == Priority(i)
              T(i) == SortTime(i)
  <1>1. /\ P(a) \in 0..3 /\ P(b) \in 0..3 /\ P(c) \in 0..3
        /\ T(a) \in Int /\ T(b) \in Int /\ T(c) \in Int
    BY LessByKey
  <1>2. \A i, j \in {a, b, c} :
          SchedLess(i, j) <=> IF P(i) # P(j) THEN P(i) < P(j)
                              ELSE IF P(i) = 3 THEN T(i) > T(j) ELSE T(j) > T(i)
    BY LessByKey
  <1>. HIDE DEF P, T
  <1>. QED BY <1>1, <1>2 DEF Incomparable
=============================================================================
