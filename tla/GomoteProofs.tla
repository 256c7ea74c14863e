---------------------------- MODULE GomoteProofs ----------------------------
(***************************************************************************)
(* What stands behind a gomote: its session, the rendezvous at which its   *)
(* instance comes up, and the EC2 pool.                                    *)
(***************************************************************************)
EXTENDS SessionPool, Rendezvous, EC2Pool, QuotaProofs, FiniteSetTheorems, WellFoundedInduction

-----------------------------------------------------------------------------
(***************************************************************************)
(* Proofs about SessionPool.                                               *)
(***************************************************************************)

Sessions == [buildlet : Buildlet, left : 0..IdleTimeout]
Calls == [on : BOOLEAN, name : Names \cup {0}, buildlet : Buildlet \cup {"none"}, used : BOOLEAN]

SessionTypes ==
    /\ DOMAIN m \in SUBSET Names
    /\ m \in [DOMAIN m -> Sessions]
    /\ free \in BOOLEAN
    /\ added \in SUBSET Buildlet
    /\ destroying \in SUBSET Buildlet
    /\ expiring \in SUBSET Buildlet
    /\ closes \in [Buildlet -> Nat]
    /\ ka \in [KeepAliver -> Calls]
    /\ due \in SUBSET {k \in KeepAliver : ka[k].on}
    /\ \A k \in KeepAliver : ka[k].on => ka[k].used

\* A buildlet has one session; the poller's list is empty before it takes a new one.
OneSession == \A n, p \in DOMAIN m : m[n].buildlet = m[p].buildlet => n = p
ListIsEmptied == poll # "closing" => expiring = {}

\* Where a buildlet is: in the map, with one of the two closers, or closed.
In(b) == \E n \in DOMAIN m : m[n].buildlet = b
Mapped(b)     == closes[b] = 0 /\  In(b) /\ b \notin destroying /\ b \notin expiring
Destroyed(b)  == closes[b] = 0 /\ ~In(b) /\ b \in destroying    /\ b \notin expiring
TimedOut(b)   == closes[b] = 0 /\ ~In(b) /\ b \notin destroying /\ b \in expiring
Closed(b)     == closes[b] = 1 /\ ~In(b) /\ b \notin destroying /\ b \notin expiring
Unknown(b)    == closes[b] = 0 /\ ~In(b) /\ b \notin destroying /\ b \notin expiring
OnePlace ==
    \A b \in Buildlet : IF b \in added THEN Mapped(b) \/ Destroyed(b) \/ TimedOut(b) \/ Closed(b)
                                       ELSE Unknown(b)

\* A goroutine that has not yet ticked in this minute has one left to do so.
Watches(k, n) == ka[k].on /\ ka[k].name = n /\ m[n].buildlet = ka[k].buildlet
Renewed ==
    free => \A k \in KeepAliver : \A n \in DOMAIN m :
                Watches(k, n) => m[n].left >= IF k \in due THEN 1 ELSE 2

SessionInv == SessionTypes /\ OneSession /\ ListIsEmptied /\ OnePlace /\ Renewed

-----------------------------------------------------------------------------
LEMMA LessIsWellFounded == IsWellFoundedOn({p \in Nat \X Nat : p[1] < p[2]}, Nat)
BY NatLessThanWellFounded DEF OpToRel

\* A set of natural numbers that is not empty has a least element.
LEMMA MinIsMember ==
  ASSUME NEW S \in SUBSET Nat, S # {}
  PROVE  Min(S) \in S
  <1>. DEFINE R == {p \in Nat \X Nat : p[1] < p[2]}
  <1>0. IsWellFoundedOn(R, Nat)
    BY LessIsWellFounded
  <1>1. PICK x \in S : \A y \in S : ~(<<y, x>> \in R)
    BY <1>0, WFMin
  <1>2. ASSUME NEW y \in S PROVE x <= y
    <2>1. x \in Nat /\ y \in Nat /\ ~(<<y, x>> \in R)
      BY <1>1
    <2>2. ~(y < x)
      BY <2>1
    <2>. QED BY <2>1, <2>2
  <1>. QED BY <1>1, <1>2 DEF Min

LEMMA NamesFacts ==
  /\ Cardinality(Buildlet) \in Nat
  /\ Names \in SUBSET Nat
  /\ IsFiniteSet(Names)
  /\ Cardinality(Names) = Cardinality(Buildlet)
  <1>1. Cardinality(Buildlet) \in Nat
    BY SessionAssumption, FS_CardinalityType
  <1>2. Names \in SUBSET Nat
    BY <1>1 DEF Names
  <1>3. /\ IsFiniteSet(Names)
        /\ Cardinality(Names) = IF 0 > Cardinality(Buildlet) - 1 THEN 0 ELSE Cardinality(Buildlet) - 1 - 0 + 1
    BY <1>1, FS_Interval DEF Names
  <1>. QED BY <1>1, <1>2, <1>3

\* AddSession finds a name: there are as many names as buildlets, and this one
\* has none.
LEMMA NameIsFound ==
  ASSUME SessionInv, NEW b \in Buildlet, b \notin added
  PROVE  Min(Names \ DOMAIN m) \in Names \ DOMAIN m
  <1>. DEFINE f == [n \in DOMAIN m |-> m[n].buildlet]
  <1>1. f \in Injection(DOMAIN m, Buildlet \ {b})
    <2>1. ASSUME NEW n \in DOMAIN m PROVE f[n] \in Buildlet \ {b}
      BY DEF SessionInv, SessionTypes, Sessions, OnePlace, Unknown, In
    <2>. QED BY <2>1 DEF SessionInv, OneSession, Injection, IsInjective
  <1>2. IsFiniteSet(Buildlet \ {b}) /\ Cardinality(Buildlet \ {b}) = Cardinality(Buildlet) - 1
    BY SessionAssumption, FS_RemoveElement
  <1>3. Cardinality(DOMAIN m) <= Cardinality(Buildlet) - 1
    BY <1>1, <1>2, FS_Injection
  <1>4. DOMAIN m # Names
    BY <1>3, NamesFacts
  <1>5. Names \ DOMAIN m \in SUBSET Nat /\ Names \ DOMAIN m # {}
    BY <1>4, NamesFacts DEF SessionInv, SessionTypes
  <1>. QED BY <1>5, MinIsMember

-----------------------------------------------------------------------------
LEMMA SessionInitInv == SessionInit => SessionInv
BY SessionAssumption DEF SessionInit, EmptyPool, SessionInv, SessionTypes, OneSession, ListIsEmptied,
   OnePlace, Unknown, In, Renewed, NoCall, Calls, Sessions

LEMMA AddSessionInv ==
  ASSUME SessionInv, NEW b \in Buildlet, AddSession(b) PROVE SessionInv'
  <1>. DEFINE n == Min(Names \ DOMAIN m)
  <1>1. n \in Names \ DOMAIN m
    BY NameIsFound DEF AddSession
  <1>2. /\ m' = [x \in DOMAIN m \cup {n} |->
                   IF x = n THEN [buildlet |-> b, left |-> IdleTimeout] ELSE m[x]]
        /\ added' = added \cup {b} /\ b \notin added
        /\ UNCHANGED <<free, destroying, closes, poll, expiring, ka, due, close>>
    BY DEF AddSession
  <1>. HIDE DEF n
  <1>3. DOMAIN m' = DOMAIN m \cup {n} /\ m'[n] = [buildlet |-> b, left |-> IdleTimeout]
        /\ \A x \in DOMAIN m : m'[x] = m[x]
    BY <1>1, <1>2
  <1>4. ~In(b)
    BY <1>2 DEF SessionInv, OnePlace, Unknown
  <1>5. SessionTypes'
    BY <1>1, <1>2, SessionAssumption DEF SessionInv, SessionTypes, Sessions
  <1>6. OneSession'
    BY <1>3, <1>4 DEF SessionInv, OneSession, In
  <1>7. ListIsEmptied'
    BY <1>2 DEF SessionInv, ListIsEmptied
  <1>8. OnePlace'
    <2>1. In(b)' /\ \A c \in Buildlet \ {b} : In(c)' <=> In(c)
      BY <1>1, <1>3 DEF In
    <2>2. Mapped(b)'
      BY <1>2, <2>1 DEF SessionInv, OnePlace, Unknown, Mapped
    <2>3. ASSUME NEW c \in Buildlet, c # b
          PROVE  /\ c \in added' <=> c \in added
                 /\ Mapped(c)' <=> Mapped(c)
                 /\ Destroyed(c)' <=> Destroyed(c)
                 /\ TimedOut(c)' <=> TimedOut(c)
                 /\ Closed(c)' <=> Closed(c)
                 /\ Unknown(c)' <=> Unknown(c)
      BY <1>2, <2>1, <2>3 DEF Mapped, Destroyed, TimedOut, Closed, Unknown
    <2>. QED BY <1>2, <2>2, <2>3 DEF SessionInv, OnePlace
  <1>9. Renewed'
    BY <1>1, <1>2, <1>3, SessionAssumption DEF SessionInv, Renewed, Watches
  <1>. QED BY <1>5, <1>6, <1>7, <1>8, <1>9 DEF SessionInv

\* The session named n is taken out of the map.
LEMMA TakenOut ==
  ASSUME SessionTypes, OneSession, NEW S \in SUBSET DOMAIN m, m' = Without(m, S)
  PROVE  /\ DOMAIN m' = DOMAIN m \ S
         /\ \A x \in DOMAIN m' : m'[x] = m[x]
         /\ m' \in [DOMAIN m' -> Sessions]
         /\ OneSession'
         /\ \A b \in Buildlet : In(b)' <=> In(b) /\ ~\E n \in S : m[n].buildlet = b
  <1>1. DOMAIN m' = DOMAIN m \ S /\ \A x \in DOMAIN m' : m'[x] = m[x]
    BY DEF Without
  <1>2. m' \in [DOMAIN m' -> Sessions]
    BY DEF Without, SessionTypes
  <1>3. OneSession'
    BY <1>1 DEF OneSession
  <1>4. \A b \in Buildlet : In(b)' <=> In(b) /\ ~\E n \in S : m[n].buildlet = b
    BY <1>1 DEF OneSession, In
  <1>. QED BY <1>1, <1>2, <1>3, <1>4

LEMMA DestroySessionInv ==
  ASSUME SessionInv, NEW n \in Names, DestroySession(n) PROVE SessionInv'
  <1>1. /\ n \in DOMAIN m /\ m' = Without(m, {n})
        /\ destroying' = destroying \cup {m[n].buildlet}
        /\ UNCHANGED <<free, added, closes, poll, expiring, ka, due, close>>
    BY DEF DestroySession
  <1>2. /\ DOMAIN m' = DOMAIN m \ {n}
        /\ \A x \in DOMAIN m' : m'[x] = m[x]
        /\ m' \in [DOMAIN m' -> Sessions]
        /\ OneSession'
        /\ \A b \in Buildlet : In(b)' <=> In(b) /\ m[n].buildlet # b
    <2>1. {n} \in SUBSET DOMAIN m
      BY <1>1
    <2>. QED BY <1>1, <2>1, TakenOut DEF SessionInv
  <1>3. m[n].buildlet \in Buildlet
    BY <1>1 DEF SessionInv, SessionTypes, Sessions
  <1>. PICK b \in Buildlet : b = m[n].buildlet
    BY <1>3
  <1>4. SessionTypes'
    BY <1>1, <1>2, <1>3 DEF SessionInv, SessionTypes
  <1>5. ListIsEmptied'
    BY <1>1 DEF SessionInv, ListIsEmptied
  <1>6. OnePlace'
    <2>1. Destroyed(b)' /\ b \in added
      <3>1. In(b)
        BY <1>1 DEF In
      <3>. QED BY <1>1, <1>2, <1>3, <3>1
               DEF SessionInv, OnePlace, Unknown, Mapped, Destroyed, TimedOut, Closed
    <2>2. ASSUME NEW c \in Buildlet, c # b
          PROVE  /\ Mapped(c)' <=> Mapped(c)
                 /\ Destroyed(c)' <=> Destroyed(c)
                 /\ TimedOut(c)' <=> TimedOut(c)
                 /\ Closed(c)' <=> Closed(c)
                 /\ Unknown(c)' <=> Unknown(c)
      BY <1>1, <1>2, <2>2 DEF Mapped, Destroyed, TimedOut, Closed, Unknown
    <2>. QED BY <1>1, <2>1, <2>2 DEF SessionInv, OnePlace
  <1>7. Renewed'
    BY <1>1, <1>2 DEF SessionInv, Renewed, Watches
  <1>. QED BY <1>2, <1>4, <1>5, <1>6, <1>7 DEF SessionInv

\* Closing a buildlet that was taken out of the map.
LEMMA CloseOnce ==
  ASSUME SessionInv, NEW b \in Buildlet,
         \/ b \in destroying /\ destroying' = destroying \ {b} /\ expiring' = expiring
         \/ b \in expiring /\ expiring' = expiring \ {b} /\ destroying' = destroying,
         closes' = [closes EXCEPT ![b] = @ + 1],
         UNCHANGED <<m, free, added, poll, ka, due, close>>
  PROVE  SessionInv'
  <1>1. SessionTypes' /\ OneSession' /\ ListIsEmptied' /\ Renewed'
    BY DEF SessionInv, SessionTypes, OneSession, ListIsEmptied, Renewed, Watches
  <1>2. OnePlace'
    <2>1. \A c \in Buildlet : In(c)' <=> In(c)
      BY DEF In
    <2>2. Closed(b)' /\ b \in added
      BY <2>1 DEF SessionInv, SessionTypes, OnePlace, Unknown, Mapped, Destroyed, TimedOut, Closed
    <2>3. ASSUME NEW c \in Buildlet, c # b
          PROVE  /\ Mapped(c)' <=> Mapped(c)
                 /\ Destroyed(c)' <=> Destroyed(c)
                 /\ TimedOut(c)' <=> TimedOut(c)
                 /\ Closed(c)' <=> Closed(c)
                 /\ Unknown(c)' <=> Unknown(c)
      BY <2>1, <2>3 DEF SessionInv, SessionTypes, Mapped, Destroyed, TimedOut, Closed, Unknown
    <2>. QED BY <2>2, <2>3 DEF SessionInv, OnePlace
  <1>. QED BY <1>1, <1>2 DEF SessionInv

\* Steps that renew a session, or none.
LEMMA PlacesKept ==
  ASSUME OnePlace, OneSession, DOMAIN m' = DOMAIN m,
         \A n \in DOMAIN m : m'[n].buildlet = m[n].buildlet,
         UNCHANGED <<added, destroying, closes, expiring>>
  PROVE  OnePlace' /\ OneSession'
  <1>1. \A c \in Buildlet : In(c)' <=> In(c)
    BY DEF In
  <1>2. OneSession'
    BY DEF OneSession
  <1>3. ASSUME NEW c \in Buildlet
        PROVE  /\ Mapped(c)' <=> Mapped(c)
               /\ Destroyed(c)' <=> Destroyed(c)
               /\ TimedOut(c)' <=> TimedOut(c)
               /\ Closed(c)' <=> Closed(c)
               /\ Unknown(c)' <=> Unknown(c)
    BY <1>1 DEF Mapped, Destroyed, TimedOut, Closed, Unknown
  <1>. QED BY <1>2, <1>3 DEF OnePlace

LEMMA RenewFacts ==
  ASSUME SessionTypes, NEW n \in DOMAIN m, m' = Renew(m, n)
  PROVE  /\ DOMAIN m' = DOMAIN m
         /\ m' \in [DOMAIN m' -> Sessions]
         /\ \A x \in DOMAIN m : m'[x].buildlet = m[x].buildlet
         /\ m'[n].left = IdleTimeout
         /\ \A x \in DOMAIN m : m'[x].left = m[x].left \/ m'[x].left = IdleTimeout
BY SessionAssumption DEF Renew, SessionTypes, Sessions

LEMMA RenewTimeoutInv ==
  ASSUME SessionInv, NEW n \in Names, RenewTimeout(n) PROVE SessionInv'
  <1>1. /\ n \in DOMAIN m /\ m' = Renew(m, n)
        /\ UNCHANGED <<free, added, destroying, closes, poll, expiring, ka, due, close>>
    BY DEF RenewTimeout
  <1>2. /\ DOMAIN m' = DOMAIN m
        /\ m' \in [DOMAIN m' -> Sessions]
        /\ \A x \in DOMAIN m : m'[x].buildlet = m[x].buildlet
        /\ \A x \in DOMAIN m : m'[x].left = m[x].left \/ m'[x].left = IdleTimeout
    BY <1>1, RenewFacts DEF SessionInv
  <1>3. OnePlace' /\ OneSession'
    BY <1>1, <1>2, PlacesKept DEF SessionInv
  <1>4. SessionTypes' /\ ListIsEmptied'
    BY <1>1, <1>2 DEF SessionInv, SessionTypes, ListIsEmptied
  <1>5. Renewed'
    BY <1>1, <1>2, SessionAssumption DEF SessionInv, Renewed, Watches
  <1>. QED BY <1>3, <1>4, <1>5 DEF SessionInv

LEMMA KeepAliveInv ==
  ASSUME SessionInv, NEW k \in KeepAliver, NEW n \in Names, KeepAlive(k, n) PROVE SessionInv'
  <1>1. /\ n \in DOMAIN m /\ m' = Renew(m, n) /\ ~ka[k].used
        /\ ka' = [ka EXCEPT ![k] = [on |-> TRUE, name |-> n, buildlet |-> m[n].buildlet,
                                    used |-> TRUE]]
        /\ UNCHANGED <<free, added, destroying, closes, poll, expiring, due, close>>
    BY DEF KeepAlive
  <1>2. /\ DOMAIN m' = DOMAIN m
        /\ m' \in [DOMAIN m' -> Sessions]
        /\ \A x \in DOMAIN m : m'[x].buildlet = m[x].buildlet
        /\ m'[n].left = IdleTimeout
        /\ \A x \in DOMAIN m : m'[x].left = m[x].left \/ m'[x].left = IdleTimeout
    BY <1>1, RenewFacts DEF SessionInv
  <1>3. OnePlace' /\ OneSession'
    BY <1>1, <1>2, PlacesKept DEF SessionInv
  <1>4. SessionTypes'
    <2>1. m[n].buildlet \in Buildlet
      BY <1>1 DEF SessionInv, SessionTypes, Sessions
    <2>2. ka' \in [KeepAliver -> Calls] /\ \A j \in KeepAliver : ka'[j].on => ka'[j].used
      BY <1>1, <2>1 DEF SessionInv, SessionTypes, Calls
    <2>3. \A j \in KeepAliver : ka[j].on => ka'[j].on
      BY <1>1 DEF SessionInv, SessionTypes
    <2>. QED BY <1>1, <1>2, <2>2, <2>3 DEF SessionInv, SessionTypes
  <1>5. ListIsEmptied'
    BY <1>1 DEF SessionInv, ListIsEmptied
  <1>6. Renewed'
    <2>. SUFFICES ASSUME free', NEW j \in KeepAliver, NEW x \in DOMAIN m', Watches(j, x)'
                  PROVE  m'[x].left >= IF j \in due' THEN 1 ELSE 2
      BY DEF Renewed
    <2>1. CASE j = k
      <3>1. x = n
        BY <1>1, <2>1 DEF SessionInv, SessionTypes, Watches
      <3>. QED BY <1>2, <3>1, SessionAssumption
    <2>2. CASE j # k
      <3>1. Watches(j, x) /\ free
        BY <1>1, <1>2, <2>2 DEF SessionInv, SessionTypes, Watches
      <3>. QED BY <1>1, <1>2, <3>1, SessionAssumption DEF SessionInv, Renewed
    <2>. QED BY <2>1, <2>2
  <1>. QED BY <1>3, <1>4, <1>5, <1>6 DEF SessionInv

LEMMA KeepAliveTickInv ==
  ASSUME SessionInv, NEW k \in KeepAliver, KeepAliveTick(k) PROVE SessionInv'
  <1>0. /\ k \in due /\ due' = due \ {k}
        /\ UNCHANGED <<added, destroying, closes, poll, expiring, ka, close>>
    BY DEF KeepAliveTick
  <1>1. CASE ka[k].name \in DOMAIN m
    <2>. DEFINE n == ka[k].name
    <2>1. m' = Renew(m, n) /\ free' = free
      BY <1>1 DEF KeepAliveTick
    <2>. n \in DOMAIN m
      BY <1>1
    <2>2. /\ DOMAIN m' = DOMAIN m
          /\ m' \in [DOMAIN m' -> Sessions]
          /\ \A x \in DOMAIN m : m'[x].buildlet = m[x].buildlet
          /\ m'[n].left = IdleTimeout
          /\ \A x \in DOMAIN m : m'[x].left = m[x].left \/ m'[x].left = IdleTimeout
      BY <2>1, RenewFacts DEF SessionInv
    <2>3. OnePlace' /\ OneSession'
      BY <1>0, <2>2, PlacesKept DEF SessionInv
    <2>4. SessionTypes' /\ ListIsEmptied'
      BY <1>0, <2>1, <2>2 DEF SessionInv, SessionTypes, ListIsEmptied
    <2>5. Renewed'
      <3>. SUFFICES ASSUME free', NEW j \in KeepAliver, NEW x \in DOMAIN m', Watches(j, x)'
                    PROVE  m'[x].left >= IF j \in due' THEN 1 ELSE 2
        BY DEF Renewed
      <3>1. Watches(j, x) /\ free
        BY <1>0, <2>1, <2>2 DEF Watches
      <3>2. CASE j = k
        BY <2>2, <3>1, <3>2, SessionAssumption DEF Watches
      <3>3. CASE j # k
        BY <1>0, <2>2, <3>1, <3>3, SessionAssumption DEF SessionInv, Renewed
      <3>. QED BY <3>2, <3>3
    <2>. QED BY <2>3, <2>4, <2>5 DEF SessionInv
  <1>2. CASE ka[k].name \notin DOMAIN m
    <2>1. m' = m /\ free' = FALSE
      BY <1>2 DEF KeepAliveTick
    <2>2. OnePlace' /\ OneSession'
      BY <1>0, <2>1, PlacesKept DEF SessionInv
    <2>. QED BY <1>0, <2>1, <2>2 DEF SessionInv, SessionTypes, ListIsEmptied, Renewed
  <1>. QED BY <1>1, <1>2

LEMMA KeepAliveStopInv ==
  ASSUME SessionInv, NEW k \in KeepAliver, KeepAliveStop(k) PROVE SessionInv'
  <1>1. /\ ka' = [ka EXCEPT ![k].on = FALSE] /\ due' = due \ {k}
        /\ UNCHANGED <<m, free, added, destroying, closes, poll, expiring, close>>
    BY DEF KeepAliveStop
  <1>2. /\ ka' \in [KeepAliver -> Calls] /\ ~ka'[k].on
        /\ \A j \in KeepAliver \ {k} : ka'[j] = ka[j]
    BY <1>1 DEF SessionInv, SessionTypes, Calls
  <1>3. OnePlace' /\ OneSession'
    BY <1>1, PlacesKept DEF SessionInv
  <1>4. SessionTypes' /\ ListIsEmptied'
    BY <1>1, <1>2 DEF SessionInv, SessionTypes, ListIsEmptied
  <1>5. Renewed'
    BY <1>1, <1>2 DEF SessionInv, Renewed, Watches
  <1>. QED BY <1>3, <1>4, <1>5 DEF SessionInv

LEMMA MinuteInv == ASSUME SessionInv, Minute PROVE SessionInv'
  <1>1. /\ due = {} \/ ~free
        /\ m' = [n \in DOMAIN m |-> [m[n] EXCEPT !.left = IF @ > 0 THEN @ - 1 ELSE 0]]
        /\ due' = due \cup {k \in KeepAliver : ka[k].on}
        /\ UNCHANGED <<free, added, destroying, closes, poll, expiring, ka, close>>
    BY DEF Minute
  <1>2. ASSUME NEW n \in DOMAIN m
        PROVE  /\ m'[n] \in Sessions
               /\ m'[n].buildlet = m[n].buildlet
               /\ m[n].left >= 2 => m'[n].left >= 1
    <2>1. m[n] \in Sessions
      BY DEF SessionInv, SessionTypes
    <2>. QED BY <1>1, <2>1, SessionAssumption DEF Sessions
  <1>3. DOMAIN m' = DOMAIN m /\ m' \in [DOMAIN m' -> Sessions]
    BY <1>1, <1>2
  <1>4. OnePlace' /\ OneSession'
    BY <1>1, <1>2, <1>3, PlacesKept DEF SessionInv
  <1>5. SessionTypes' /\ ListIsEmptied'
    BY <1>1, <1>3 DEF SessionInv, SessionTypes, ListIsEmptied
  <1>6. Renewed'
    <2>. SUFFICES ASSUME free', NEW j \in KeepAliver, NEW x \in DOMAIN m', Watches(j, x)'
                  PROVE  j \in due' /\ m'[x].left >= 1
      BY DEF Renewed
    <2>1. Watches(j, x) /\ free /\ due = {} /\ ka[j].on /\ x \in DOMAIN m
      BY <1>1, <1>2, <1>3 DEF Watches
    <2>2. m[x].left >= 2
      BY <2>1 DEF SessionInv, Renewed
    <2>. QED BY <1>1, <1>2, <2>1, <2>2
  <1>. QED BY <1>4, <1>5, <1>6 DEF SessionInv

LEMMA PollTakesInv == ASSUME SessionInv, PollTakes PROVE SessionInv'
  <1>1. /\ poll = "locking" /\ poll' = "closing" /\ m' = Without(m, Expired)
        /\ expiring' = {m[n].buildlet : n \in Expired}
        /\ UNCHANGED <<free, added, destroying, closes, ka, due, close>>
    BY DEF PollTakes
  <1>2. /\ DOMAIN m' = DOMAIN m \ Expired
        /\ \A x \in DOMAIN m' : m'[x] = m[x]
        /\ m' \in [DOMAIN m' -> Sessions]
        /\ OneSession'
        /\ \A b \in Buildlet : In(b)' <=> In(b) /\ ~\E n \in Expired : m[n].buildlet = b
    <2>1. Expired \in SUBSET DOMAIN m
      BY DEF Expired
    <2>. QED BY <1>1, <2>1, TakenOut DEF SessionInv
  <1>3. SessionTypes' /\ ListIsEmptied'
    <2>1. \A n \in Expired : m[n].buildlet \in Buildlet
      BY DEF SessionInv, SessionTypes, Sessions, Expired
    <2>2. expiring' \in SUBSET Buildlet
      BY <1>1, <2>1
    <2>. QED BY <1>1, <1>2, <2>2 DEF SessionInv, SessionTypes, ListIsEmptied
  <1>4. OnePlace'
    <2>. SUFFICES ASSUME NEW b \in Buildlet
                  PROVE  IF b \in added THEN \/ Mapped(b)' \/ Destroyed(b)'
                                              \/ TimedOut(b)' \/ Closed(b)'
                                         ELSE Unknown(b)'
      BY <1>1 DEF OnePlace
    <2>1. expiring = {}
      BY <1>1 DEF SessionInv, ListIsEmptied
    <2>2. b \in expiring' <=> \E n \in Expired : m[n].buildlet = b
      BY <1>1
    <2>3. b \in expiring' => In(b)
      BY <2>2 DEF In, Expired
    <2>. QED BY <1>1, <1>2, <2>1, <2>2, <2>3
             DEF SessionInv, OnePlace, Unknown, Mapped, Destroyed, TimedOut, Closed
  <1>5. Renewed'
    BY <1>1, <1>2 DEF SessionInv, Renewed, Watches
  <1>. QED BY <1>2, <1>3, <1>4, <1>5 DEF SessionInv

\* Steps of the poller and of Close that touch no session.
LEMMA IdleStepInv ==
  ASSUME SessionInv,
         UNCHANGED <<m, free, added, destroying, closes, expiring, ka, due>>,
         poll' = "closing" \/ expiring = {}
  PROVE  SessionInv'
  <1>1. OnePlace' /\ OneSession'
    BY PlacesKept DEF SessionInv
  <1>. QED BY <1>1 DEF SessionInv, SessionTypes, ListIsEmptied, Renewed, Watches

LEMMA SessionNextInv == SessionInv /\ [SessionNext]_sessionVars => SessionInv'
  <1>. SUFFICES ASSUME SessionInv, [SessionNext]_sessionVars PROVE SessionInv'
    OBVIOUS
  <1>1. ASSUME NEW b \in Buildlet, DestroyClose(b) PROVE SessionInv'
    BY <1>1, CloseOnce DEF DestroyClose
  <1>2. ASSUME NEW b \in Buildlet, PollCloses(b) PROVE SessionInv'
    BY <1>2, CloseOnce DEF PollCloses
  <1>3. CASE PollFires \/ PollEnds \/ PollStops
    BY <1>3, IdleStepInv DEF PollFires, PollEnds, PollStops, SessionInv, ListIsEmptied
  <1>4. CASE Close \/ CloseReturns \/ UNCHANGED sessionVars
    BY <1>4, IdleStepInv DEF Close, CloseReturns, sessionVars, SessionInv, ListIsEmptied
  <1>. QED BY <1>1, <1>2, <1>3, <1>4, AddSessionInv, DestroySessionInv, RenewTimeoutInv,
              KeepAliveInv, KeepAliveTickInv, KeepAliveStopInv, MinuteInv, PollTakesInv
           DEF SessionNext, PollStep

\* The inductive invariant: one session per buildlet, one place for each
\* buildlet, and a minute left for every goroutine that has not ticked.
THEOREM SessionInvariant == SessionSpec => []SessionInv
BY SessionInitInv, SessionNextInv, PTL DEF SessionSpec

\* A buildlet that was added is closed once or still has exactly one owner that
\* will close it: the map, DestroySession or the polling goroutine.
LEMMA OneOwner == ASSUME SessionInv PROVE ClosedOnce
  <1>. SUFFICES ASSUME NEW b \in Buildlet
                PROVE  closes[b] + Cardinality({S \in {1, 2, 3} : \/ S = 1 /\ b \in InMap
                                                                  \/ S = 2 /\ b \in destroying
                                                                  \/ S = 3 /\ b \in expiring})
                         = IF b \in added THEN 1 ELSE 0
    BY DEF ClosedOnce
  <1>. DEFINE P == {S \in {1, 2, 3} : \/ S = 1 /\ b \in InMap
                                      \/ S = 2 /\ b \in destroying
                                      \/ S = 3 /\ b \in expiring}
  <1>1. b \in InMap <=> In(b)
    BY DEF InMap, In
  <1>2. Cardinality({}) = 0 /\ \A x : Cardinality({x}) = 1
    BY FS_EmptySet, FS_Singleton
  <1>3. CASE b \notin added
    <2>1. P = {} /\ closes[b] = 0
      BY <1>1, <1>3 DEF SessionInv, OnePlace, Unknown
    <2>. QED BY <1>2, <1>3, <2>1
  <1>4. CASE b \in added
    <2>1. CASE Mapped(b)
      <3>0. P = {1} /\ closes[b] = 0
        BY <1>1, <2>1 DEF Mapped
      <3>1. Cardinality(P) = 1
        BY ONLY <1>2, <3>0
      <3>. QED BY <1>4, <3>0, <3>1
    <2>2. CASE Destroyed(b)
      <3>0. P = {2} /\ closes[b] = 0
        BY <1>1, <2>2 DEF Destroyed
      <3>1. Cardinality(P) = 1
        BY ONLY <1>2, <3>0
      <3>. QED BY <1>4, <3>0, <3>1
    <2>3. CASE TimedOut(b)
      <3>0. P = {3} /\ closes[b] = 0
        BY <1>1, <2>3 DEF TimedOut
      <3>1. Cardinality(P) = 1
        BY ONLY <1>2, <3>0
      <3>. QED BY <1>4, <3>0, <3>1
    <2>4. CASE Closed(b)
      <3>1. P = {} /\ closes[b] = 1
        BY <1>1, <2>4 DEF Closed
      <3>. QED BY <1>2, <1>4, <3>1
    <2>. QED BY <1>4, <2>1, <2>2, <2>3, <2>4 DEF SessionInv, OnePlace
  <1>. QED BY <1>3, <1>4

\* A buildlet is closed once, by whoever takes its session out of sp.m, and a
\* session with an SSH session attached never expires, for every number of
\* sessions, of KeepAlive goroutines and every timeout above one tick.
THEOREM SessionsClosedInTime == SessionSpec => []ClosedInTime
  <1>1. SessionInv => KeptAlive
    BY SessionAssumption DEF SessionInv, SessionTypes, Sessions, Renewed, Watches, KeptAlive, Expired
  <1>2. SessionInv => ClosedInTime
    BY <1>1, OneOwner DEF ClosedInTime
  <1>. QED BY <1>2, SessionInvariant, PTL

-----------------------------------------------------------------------------
(***************************************************************************)
(* Proofs about Rendezvous.                                                *)
(***************************************************************************)

Letters == {<<n>> : n \in 0 .. Visits}

RdvTypes ==
    /\ registered \in SUBSET Instance /\ late \in SUBSET Instance
    /\ shut \in SUBSET Instance /\ done \in SUBSET Instance
    /\ ch \in [Instance -> {<<>>} \cup Letters]
    /\ purging \in Instance \cup {NoEntry}
    /\ task \in [Instance -> {"none", "pending", "running", "failed"}]
    /\ start \in [Instance -> {"new", "request", "query", "select", "deregister", "up", "failed"}]
    /\ wait \in [Instance -> {"off", "lookup", "select", "client", "error", "left", "over"}]
    /\ got \in [Instance -> 0 .. Visits]
    /\ res \in [Instance -> {"empty", "client", "error"}]
    /\ visit \in [Visit -> {"none", "refused", "found", "client", "error", "handed", "told", "panicked"}]

\* What may keep the buildlet of instance i from being used, and whether some
\* connection of it has been answered.
Told(i) == \E w \in Visit : w[1] = i /\ visit[w] = "told"
Blamed(i) == i \in done \cup late \/ Told(i)
Answered(i) == \E w \in Visit : w[1] = i /\ visit[w] \in {"handed", "told"}

\* The entry: registered by RegisterInstance and until the attempt or the waiter
\* is through, unless it expires.
EntryOf(i) ==
    /\ start[i] = "new" => i \notin registered
    /\ start[i] \in {"request", "query"} => i \in registered \cup late
    /\ start[i] = "failed" \/ wait[i] = "over" => i \notin registered
    /\ purging = i => i \in late

\* The waiter: started by TaskUp, its result is what startNewSwarmingTask sees.
WaiterOf(i) ==
    /\ start[i] \in {"new", "request", "query"} => wait[i] = "off"
    /\ start[i] = "select" => wait[i] # "off"
    /\ res[i] # "empty" <=> wait[i] = "over"
    /\ start[i] = "up" => res[i] = "client"
    /\ wait[i] \in {"lookup", "select"} => i \in registered \cup late \cup done
    /\ wait[i] \in {"lookup", "select"} /\ start[i] # "select" => i \in done
    /\ wait[i] = "left" => i \in done
    /\ wait[i] \in {"off", "lookup", "select"} => got[i] = Failure

\* An error has somebody to blame for it.
BlameOf(i) ==
    /\ "error" \in {wait[i], res[i]} \/ ch[i] = <<Failure>> => Blamed(i)
    /\ start[i] \in {"new", "request"} => task[i] = "none"
    /\ start[i] \in {"deregister", "failed"} => Blamed(i) \/ task[i] \in {"none", "failed"}

\* A result came from somebody.
SourceOf(i) ==
    /\ ch[i] # <<>> \/ i \in shut \/ wait[i] \in {"client", "error"} => i \in late \/ Answered(i)
    /\ "client" \in {wait[i], res[i]} => got[i] # Failure
    /\ got[i] # Failure => visit[<<i, got[i]>>] = "handed"

\* A buildlet that was handed over is somewhere.
HandedOf(i) ==
    \A v \in Visit : v[1] = i =>
        /\ visit[v] # "none" => task[i] # "none"
        /\ visit[v] = "panicked" => i \in late \/ Answered(i)
        /\ visit[v] = "handed" => got[i] = v[2] \/ ch[i] = <<v[2]>>

\* What is in the channel was handed over.
LetterOf(i) == \A n \in 1 .. Visits : ch[i] = <<n>> => visit[<<i, n>>] = "handed"

AttemptOf(i) == /\ EntryOf(i) /\ WaiterOf(i) /\ BlameOf(i)
                /\ SourceOf(i) /\ HandedOf(i) /\ LetterOf(i)

RdvInv == RdvTypes /\ \A i \in Instance : AttemptOf(i)

-----------------------------------------------------------------------------
LEMMA VisitOf == ASSUME NEW v \in Visit PROVE v[1] \in Instance /\ v[2] \in 1 .. Visits /\ v = <<v[1], v[2]>>
BY DEF Visit

LEMMA VisitIs == ASSUME NEW i \in Instance, NEW n \in 1 .. Visits PROVE <<i, n>> \in Visit
BY DEF Visit

LEMMA LetterIs == ASSUME NEW x \in Letters PROVE \E n \in 0 .. Visits : x = <<n>> /\ Head(x) = n
BY DEF Letters

LEMMA RdvInitInv == RdvInit => RdvInv
  <1>. SUFFICES ASSUME RdvInit PROVE RdvInv
    OBVIOUS
  <1>1. RdvTypes
    BY RendezvousAssumption DEF RdvInit, NoInstances, RdvTypes, Failure
  <1>2. ASSUME NEW i \in Instance PROVE AttemptOf(i)
    BY RendezvousAssumption
       DEF RdvInit, NoInstances, AttemptOf, EntryOf, WaiterOf, BlameOf, SourceOf, HandedOf, LetterOf
  <1>. QED BY <1>1, <1>2 DEF RdvInv

\* A step that leaves instance i and its visits alone.
LEMMA Untouched ==
  ASSUME NEW i \in Instance, AttemptOf(i), RdvTypes,
         i \in registered' <=> i \in registered, i \in late => i \in late', i \in done => i \in done',
         ch'[i] = ch[i], task'[i] = task[i], start'[i] = start[i], i \in shut' <=> i \in shut,
         wait'[i] = wait[i], res'[i] = res[i], got'[i] = got[i],
         purging' = i => purging = i,
         \A v \in Visit : v[1] = i => visit'[v] = visit[v]
  PROVE  AttemptOf(i)'
  <1>1. (Blamed(i) => Blamed(i)') /\ (Answered(i) => Answered(i)')
    BY DEF Blamed, Told, Answered
  <1>2. EntryOf(i)'
    BY DEF AttemptOf, EntryOf
  <1>3. WaiterOf(i)'
    BY DEF AttemptOf, WaiterOf
  <1>4. BlameOf(i)'
    BY <1>1 DEF AttemptOf, BlameOf
  <1>5. HandedOf(i)'
    BY <1>1 DEF AttemptOf, HandedOf
  <1>6. \A n \in 1 .. Visits : visit'[<<i, n>>] = visit[<<i, n>>]
    BY VisitIs
  <1>7. LetterOf(i)'
    BY <1>6 DEF AttemptOf, LetterOf
  <1>8. got[i] # Failure => got[i] \in 1 .. Visits
    BY RendezvousAssumption DEF RdvTypes, Failure
  <1>9. SourceOf(i)'
    BY <1>1, <1>6, <1>8 DEF AttemptOf, SourceOf
  <1>. QED BY <1>2, <1>3, <1>4, <1>5, <1>7, <1>9 DEF AttemptOf

LEMMA BlameGrows ==
  ASSUME NEW i \in Instance, done \subseteq done', late \subseteq late',
         \A v \in Visit : visit[v] \in {"handed", "told"} => visit'[v] = visit[v]
  PROVE  (Blamed(i) => Blamed(i)') /\ (Answered(i) => Answered(i)')
BY DEF Blamed, Told, Answered

LEMMA RdvStartInv ==
  ASSUME RdvInv, NEW i \in Instance, StartStep(i) PROVE RdvInv'
  <1>1. RdvTypes'
    BY DEF RdvInv, RdvTypes, StartStep, RegisterInstance, TaskRequested, Unavailable, TaskUp,
       TaskFailureSeen, ResultSeen, DeregisterInstance, Start, Wait
  <1>2. ASSUME NEW j \in Instance, j # i PROVE AttemptOf(j)'
    <2>1. AttemptOf(j) /\ RdvTypes
      BY DEF RdvInv
    <2>. QED BY <1>2, <2>1, Untouched
             DEF RdvTypes, StartStep, RegisterInstance, TaskRequested, Unavailable, TaskUp,
                 TaskFailureSeen, ResultSeen, DeregisterInstance, Start, Wait
  <1>3. AttemptOf(i)'
    <2>0. UNCHANGED <<ch, shut, got, res, visit, late>> /\ done \subseteq done'
      BY DEF StartStep, RegisterInstance, TaskRequested, Unavailable, TaskUp,
             TaskFailureSeen, ResultSeen, DeregisterInstance
    <2>1. (Blamed(i) => Blamed(i)') /\ (Answered(i) => Answered(i)')
      BY <2>0, BlameGrows
    <2>2. EntryOf(i)' /\ WaiterOf(i)' /\ BlameOf(i)' /\ wait'[i] \in {wait[i], "lookup"}
          /\ (task'[i] = "none" => task[i] = "none")
      <3>. USE <2>0, <2>1 DEF RdvInv, RdvTypes, AttemptOf, EntryOf, WaiterOf, BlameOf, Start, Wait
      <3>2. CASE RegisterInstance(i)
        BY <3>2, RendezvousAssumption DEF RegisterInstance, Free
      <3>3. CASE TaskRequested(i)
        BY <3>3 DEF TaskRequested
      <3>4. CASE Unavailable(i)
        BY <3>4 DEF Unavailable, Blamed
      <3>5. CASE TaskUp(i)
        BY <3>5 DEF TaskUp
      <3>6. CASE TaskFailureSeen(i)
        BY <3>6 DEF TaskFailureSeen, Blamed
      <3>7. CASE ResultSeen(i)
        BY <3>7 DEF ResultSeen
      <3>8. CASE DeregisterInstance(i)
        BY <3>8 DEF DeregisterInstance
      <3>. QED BY <3>2, <3>3, <3>4, <3>5, <3>6, <3>7, <3>8 DEF StartStep
    <2>3. SourceOf(i)' /\ HandedOf(i)' /\ LetterOf(i)'
      <3>1. SourceOf(i) /\ HandedOf(i) /\ LetterOf(i)
        BY DEF RdvInv, AttemptOf
      <3>. QED BY <2>0, <2>1, <2>2, <3>1 DEF SourceOf, HandedOf, LetterOf
    <2>. QED BY <2>2, <2>3 DEF AttemptOf
  <1>. QED BY <1>1, <1>2, <1>3 DEF RdvInv

LEMMA RdvWaitInv ==
  ASSUME RdvInv, NEW i \in Instance, WaitStep(i) PROVE RdvInv'
  <1>0. ASSUME WaitReceives(i)
        PROVE  \E n \in 0 .. Visits :
                   /\ ch[i] = <<n>> /\ Head(ch[i]) = n
                   /\ wait' = [wait EXCEPT ![i] = IF n = Failure THEN "error" ELSE "client"]
                   /\ got' = [got EXCEPT ![i] = n]
    <2>1. ch[i] \in Letters
      BY <1>0 DEF WaitReceives, RdvInv, RdvTypes
    <2>2. PICK n \in 0 .. Visits : ch[i] = <<n>> /\ Head(ch[i]) = n
      BY <2>1, LetterIs
    <2>. QED BY <1>0, <2>2 DEF WaitReceives, Wait
  <1>1. RdvTypes'
    <2>1. CASE Lookup(i) \/ WaitLeaves(i) \/ WaitReturns(i)
      <3>1. UNCHANGED <<ch, got, visit, task, start, purging, late, done>>
        BY <2>1 DEF Lookup, WaitLeaves, WaitReturns
      <3>2. wait' \in [Instance -> {"off", "lookup", "select", "client", "error", "left", "over"}]
        BY <2>1 DEF RdvInv, RdvTypes, Lookup, WaitLeaves, WaitReturns, Wait
      <3>4. res' \in [Instance -> {"empty", "client", "error"}]
        <4>1. res' = res \/ \E r \in {"client", "error"} : res' = [res EXCEPT ![i] = r]
          BY <2>1 DEF Lookup, WaitLeaves, WaitReturns
        <4>. QED BY <4>1 DEF RdvInv, RdvTypes
      <3>3. registered' \in SUBSET Instance /\ shut' \in SUBSET Instance
        BY <2>1 DEF RdvInv, RdvTypes, Lookup, WaitLeaves, WaitReturns, Wait
      <3>. QED BY <3>1, <3>2, <3>3, <3>4 DEF RdvInv, RdvTypes
    <2>2. CASE WaitReceives(i)
      <3>1. wait' \in [Instance -> {"off", "lookup", "select", "client", "error", "left", "over"}]
            /\ got' \in [Instance -> 0 .. Visits]
        BY <1>0, <2>2 DEF RdvInv, RdvTypes
      <3>. QED BY <2>2, <3>1 DEF RdvInv, RdvTypes, WaitReceives
    <2>. QED BY <2>1, <2>2 DEF WaitStep
  <1>2. ASSUME NEW j \in Instance, j # i PROVE AttemptOf(j)'
    <2>1. AttemptOf(j) /\ RdvTypes
      BY DEF RdvInv
    <2>. QED BY <1>2, <2>1, Untouched
             DEF RdvTypes, WaitStep, Lookup, WaitReceives, WaitLeaves, WaitReturns, Wait
  <1>3. AttemptOf(i)'
    <2>0. UNCHANGED <<task, start, visit, late, done>>
      BY DEF WaitStep, Lookup, WaitReceives, WaitLeaves, WaitReturns
    <2>1. (Blamed(i) => Blamed(i)') /\ (Answered(i) => Answered(i)')
      BY <2>0, BlameGrows
    <2>2. CASE Lookup(i) \/ WaitLeaves(i) \/ WaitReturns(i)
      <3>0. UNCHANGED <<ch, got>>
        BY <2>2 DEF Lookup, WaitLeaves, WaitReturns
      <3>1. EntryOf(i)' /\ WaiterOf(i)' /\ BlameOf(i)'
        <4>. USE <2>0, <2>1, <3>0 DEF RdvInv, RdvTypes, AttemptOf, EntryOf, WaiterOf, BlameOf, Wait
        <4>1. CASE Lookup(i)
          BY <4>1 DEF Lookup, Blamed
        <4>2. CASE WaitLeaves(i)
          BY <4>2 DEF WaitLeaves
        <4>3. CASE WaitReturns(i)
          BY <4>3 DEF WaitReturns, Blamed
        <4>. QED BY <2>2, <4>1, <4>2, <4>3
      <3>2. SourceOf(i) /\ HandedOf(i) /\ LetterOf(i)
        BY DEF RdvInv, AttemptOf
      <3>3. SourceOf(i)'
        BY <2>0, <2>1, <2>2, <3>0, <3>2
           DEF RdvInv, RdvTypes, SourceOf, Lookup, WaitLeaves, WaitReturns, Wait
      <3>4. HandedOf(i)' /\ LetterOf(i)'
        BY <2>0, <2>1, <3>0, <3>2 DEF HandedOf, LetterOf
      <3>. QED BY <3>1, <3>3, <3>4 DEF AttemptOf
    <2>3. CASE WaitReceives(i)
      <3>1. PICK n \in 0 .. Visits :
                /\ ch[i] = <<n>> /\ Head(ch[i]) = n
                /\ wait' = [wait EXCEPT ![i] = IF n = Failure THEN "error" ELSE "client"]
                /\ got' = [got EXCEPT ![i] = n]
        BY <1>0, <2>3
      <3>2. /\ wait[i] = "select" /\ wait'[i] = IF n = Failure THEN "error" ELSE "client"
            /\ got'[i] = n /\ ch'[i] = <<>> /\ UNCHANGED <<registered, shut, purging, res>>
        BY <2>3, <3>1 DEF WaitReceives, Wait, RdvInv, RdvTypes
      <3>3. EntryOf(i)' /\ WaiterOf(i)' /\ BlameOf(i)'
        BY <2>0, <2>1, <3>1, <3>2 DEF RdvInv, AttemptOf, EntryOf, WaiterOf, BlameOf
      <3>4. SourceOf(i) /\ HandedOf(i) /\ LetterOf(i) /\ got[i] = Failure
        BY <3>2 DEF RdvInv, AttemptOf, WaiterOf
      <3>5. n # Failure => n \in 1 .. Visits
        BY RendezvousAssumption DEF Failure
      <3>6. SourceOf(i)'
        BY <2>0, <2>1, <3>1, <3>2, <3>4, <3>5 DEF SourceOf, LetterOf
      <3>7. LetterOf(i)'
        BY <3>2 DEF LetterOf
      <3>8. HandedOf(i)'
        <4>. SUFFICES ASSUME NEW v \in Visit, v[1] = i
                      PROVE  /\ visit'[v] # "none" => task'[i] # "none"
                             /\ visit'[v] = "panicked" => i \in late' \/ Answered(i)'
                             /\ visit'[v] = "handed" => got'[i] = v[2] \/ ch'[i] = <<v[2]>>
          BY DEF HandedOf
        <4>1. v[2] # Failure
          BY VisitOf DEF Failure
        <4>. QED BY <2>0, <2>1, <3>1, <3>2, <3>4, <4>1 DEF HandedOf
      <3>. QED BY <3>3, <3>6, <3>7, <3>8 DEF AttemptOf
    <2>. QED BY <2>2, <2>3 DEF WaitStep
  <1>. QED BY <1>1, <1>2, <1>3 DEF RdvInv

LEMMA RdvEnvInv ==
  ASSUME RdvInv, NEW i \in Instance,
         ContextEnds(i) \/ PurgeFinds(i) \/ Deadline(i) \/ TaskMoves(i)
  PROVE  RdvInv'
  <1>1. RdvTypes'
    BY DEF RdvInv, RdvTypes, ContextEnds, PurgeFinds, Deadline, TaskMoves
  <1>2. ASSUME NEW j \in Instance, j # i PROVE AttemptOf(j)'
    <2>1. AttemptOf(j) /\ RdvTypes
      BY DEF RdvInv
    <2>. QED BY <1>2, <2>1, Untouched
             DEF RdvTypes, ContextEnds, PurgeFinds, Deadline, TaskMoves
  <1>3. AttemptOf(i)'
    <2>0. /\ UNCHANGED <<ch, shut, got, res, wait, visit, start>>
          /\ done \subseteq done' /\ late \subseteq late' /\ (task'[i] = "none" <=> task[i] = "none")
      BY DEF ContextEnds, PurgeFinds, Deadline, TaskMoves, RdvInv, RdvTypes
    <2>1. (Blamed(i) => Blamed(i)') /\ (Answered(i) => Answered(i)')
      BY <2>0, BlameGrows
    <2>2. EntryOf(i)' /\ WaiterOf(i)' /\ BlameOf(i)'
      <3>. USE <2>0, <2>1 DEF RdvInv, RdvTypes, AttemptOf, EntryOf, WaiterOf, BlameOf
      <3>2. CASE ContextEnds(i)
        BY <3>2 DEF ContextEnds
      <3>3. CASE PurgeFinds(i)
        BY <3>3 DEF PurgeFinds
      <3>4. CASE Deadline(i)
        BY <3>4 DEF Deadline
      <3>5. CASE TaskMoves(i)
        BY <3>5 DEF TaskMoves
      <3>. QED BY <3>2, <3>3, <3>4, <3>5
    <2>3. SourceOf(i)' /\ HandedOf(i)' /\ LetterOf(i)'
      <3>1. SourceOf(i) /\ HandedOf(i) /\ LetterOf(i)
        BY DEF RdvInv, AttemptOf
      <3>. QED BY <2>0, <2>1, <3>1 DEF SourceOf, HandedOf, LetterOf
    <2>. QED BY <2>2, <2>3 DEF AttemptOf
  <1>. QED BY <1>1, <1>2, <1>3 DEF RdvInv

LEMMA PurgeSendsInv == ASSUME RdvInv, PurgeSends PROVE RdvInv'
  <1>. PICK i \in Instance : i = purging
    BY DEF RdvInv, RdvTypes, PurgeSends
  <1>0. <<Failure>> \in Letters
    BY RendezvousAssumption DEF Letters, Failure
  <1>1. RdvTypes'
    BY <1>0 DEF RdvInv, RdvTypes, PurgeSends
  <1>2. ASSUME NEW j \in Instance, j # i PROVE AttemptOf(j)'
    <2>1. AttemptOf(j) /\ RdvTypes
      BY DEF RdvInv
    <2>. QED BY <1>2, <2>1, Untouched, RendezvousAssumption DEF RdvTypes, PurgeSends
  <1>3. AttemptOf(i)'
    <2>1. Blamed(i)' /\ i \in late /\ i \in late'
      BY DEF RdvInv, AttemptOf, EntryOf, PurgeSends, Blamed
    <2>2. ch[i] = <<>> /\ ch'[i] = <<Failure>> /\ UNCHANGED <<shut, got, res, wait, visit, start, task>>
      BY DEF PurgeSends, RdvInv, RdvTypes
    <2>3. EntryOf(i)' /\ WaiterOf(i)' /\ BlameOf(i)'
      BY <2>1, <2>2, RendezvousAssumption
         DEF RdvInv, AttemptOf, EntryOf, WaiterOf, BlameOf, PurgeSends
    <2>4. SourceOf(i) /\ HandedOf(i)
      BY DEF RdvInv, AttemptOf
    <2>5. SourceOf(i)' /\ LetterOf(i)'
      BY <2>1, <2>2, <2>4 DEF SourceOf, LetterOf, Failure
    <2>6. HandedOf(i)'
      BY <2>1, <2>2, <2>4 DEF HandedOf
    <2>. QED BY <2>3, <2>5, <2>6 DEF AttemptOf
  <1>. QED BY <1>1, <1>2, <1>3 DEF RdvInv

LEMMA RdvVisitInv ==
  ASSUME RdvInv, NEW v \in Visit, Arrive(v) \/ VisitStep(v) PROVE RdvInv'
  <1>. PICK i \in Instance : i = v[1]
    BY VisitOf
  <1>0. ASSUME Deliver(v)
        PROVE  \E r \in {"client", "error"}, n \in 0 .. Visits :
                   /\ visit[v] = r /\ n = Result(v, r) /\ <<n>> \in Letters
                   /\ visit' = [visit EXCEPT ![v] = IF r = "client" THEN "handed" ELSE "told"]
                   /\ ch' = [ch EXCEPT ![i] = <<n>>]
    <2>1. PICK r \in {"client", "error"} :
              /\ visit[v] = r
              /\ visit' = [visit EXCEPT ![v] = IF r = "client" THEN "handed" ELSE "told"]
              /\ ch' = [ch EXCEPT ![i] = <<Result(v, r)>>]
      BY <1>0 DEF Deliver, Visiting
    <2>2. Result(v, r) \in 0 .. Visits
      BY VisitOf, RendezvousAssumption DEF Result, Failure
    <2>3. <<Result(v, r)>> \in Letters
      BY <2>2 DEF Letters
    <2>. QED BY <2>1, <2>2, <2>3
  <1>1. RdvTypes'
    <2>1. CASE Arrive(v) \/ Invalid(v) \/ Connected(v) \/ Panic(v)
      BY <2>1 DEF RdvInv, RdvTypes, Arrive, Invalid, Connected, Panic, Visiting
    <2>2. CASE Deliver(v)
      <3>1. PICK r \in {"client", "error"}, n \in 0 .. Visits :
                /\ visit' = [visit EXCEPT ![v] = IF r = "client" THEN "handed" ELSE "told"]
                /\ ch' = [ch EXCEPT ![i] = <<n>>] /\ <<n>> \in Letters
        BY <1>0, <2>2
      <3>. QED BY <2>2, <3>1 DEF RdvInv, RdvTypes, Deliver
    <2>. QED BY <2>1, <2>2 DEF VisitStep
  <1>2. ASSUME NEW j \in Instance, j # i PROVE AttemptOf(j)'
    <2>1. AttemptOf(j) /\ RdvTypes
      BY DEF RdvInv
    <2>2. \A w \in Visit : w[1] = j => visit'[w] = visit[w]
      BY <1>2 DEF RdvInv, RdvTypes, Arrive, VisitStep, Invalid, Connected, Deliver, Panic, Visiting
    <2>. QED BY <1>2, <2>1, <2>2, Untouched
             DEF RdvTypes, Arrive, VisitStep, Invalid, Connected, Deliver, Panic
  <1>3. AttemptOf(i)'
    <2>0. v[2] \in 1 .. Visits /\ v = <<i, v[2]>>
      BY VisitOf
    <2>1. \A w \in Visit : w # v => visit'[w] = visit[w]
      BY DEF RdvInv, RdvTypes, Arrive, VisitStep, Invalid, Connected, Deliver, Panic, Visiting
    <2>2. visit[v] \notin {"told", "handed"}
      BY DEF Arrive, VisitStep, Invalid, Connected, Deliver, Panic, Visiting
    <2>3. (Blamed(i) => Blamed(i)') /\ (Answered(i) => Answered(i)')
      BY <2>1, <2>2, BlameGrows DEF Arrive, VisitStep, Invalid, Connected, Deliver, Panic
    <2>4. \A n \in 1 .. Visits : visit[<<i, n>>] = "handed" => visit'[<<i, n>>] = "handed"
      BY <2>1, <2>2, VisitIs
    <2>5. SourceOf(i) /\ HandedOf(i) /\ LetterOf(i)
      BY DEF RdvInv, AttemptOf
    <2>6. got[i] # Failure => got[i] \in 1 .. Visits
      BY RendezvousAssumption DEF RdvInv, RdvTypes, Failure
    <2>7. CASE Arrive(v) \/ Invalid(v) \/ Connected(v) \/ Panic(v)
      <3>1. /\ visit'[v] \notin {"none", "handed"} /\ task[i] # "none"
            /\ visit'[v] = "panicked" => i \in shut
            /\ UNCHANGED <<registered, late, ch, shut, purging, task, start, wait, got, res, done>>
        BY <2>7 DEF Arrive, Invalid, Connected, Panic, Visiting, RdvInv, RdvTypes, AttemptOf, HandedOf
      <3>2. EntryOf(i)' /\ WaiterOf(i)' /\ BlameOf(i)'
        BY <2>3, <3>1 DEF RdvInv, AttemptOf, EntryOf, WaiterOf, BlameOf
      <3>3. SourceOf(i)' /\ LetterOf(i)'
        BY <2>3, <2>4, <2>5, <2>6, <3>1 DEF SourceOf, LetterOf
      <3>4. HandedOf(i)'
        <4>1. i \in shut => i \in late \/ Answered(i)'
          BY <2>3, <2>5 DEF SourceOf
        <4>. QED BY <2>1, <2>3, <2>5, <3>1, <4>1 DEF HandedOf
      <3>. QED BY <3>2, <3>3, <3>4 DEF AttemptOf
    <2>8. CASE Deliver(v)
      <3>1. PICK r \in {"client", "error"}, n \in 0 .. Visits :
                /\ visit[v] = r /\ n = Result(v, r)
                /\ visit' = [visit EXCEPT ![v] = IF r = "client" THEN "handed" ELSE "told"]
                /\ ch' = [ch EXCEPT ![i] = <<n>>]
        BY <1>0, <2>8
      <3>2. /\ ch[i] = <<>> /\ ch'[i] = <<n>> /\ task[i] # "none"
            /\ visit'[v] = IF r = "client" THEN "handed" ELSE "told"
            /\ UNCHANGED <<registered, late, shut, purging, task, start, wait, got, res, done>>
        BY <2>8, <3>1 DEF Deliver, RdvInv, RdvTypes, AttemptOf, HandedOf
      <3>3. EntryOf(i)' /\ WaiterOf(i)'
        BY <3>2 DEF RdvInv, AttemptOf, EntryOf, WaiterOf
      <3>4. BlameOf(i)'
        <4>1. r = "error" => Blamed(i)'
          BY <3>2 DEF Blamed, Told
        <4>2. r = "client" => ch'[i] # <<Failure>>
          BY <2>0, <3>1, <3>2 DEF Result, Failure
        <4>. QED BY <2>3, <3>2, <4>1, <4>2 DEF RdvInv, AttemptOf, BlameOf
      <3>5. Answered(i)'
        BY <3>2 DEF Answered
      <3>6. SourceOf(i)'
        BY <2>4, <2>5, <2>6, <3>2, <3>5 DEF SourceOf
      <3>7. LetterOf(i)'
        <4>. SUFFICES ASSUME NEW p \in 1 .. Visits, ch'[i] = <<p>> PROVE visit'[<<i, p>>] = "handed"
          BY DEF LetterOf
        <4>1. p = n
          BY <3>2
        <4>2. r = "client" /\ p = v[2]
          BY <3>1, <4>1 DEF Result, Failure
        <4>. QED BY <2>0, <3>2, <4>2
      <3>8. HandedOf(i)'
        <4>. SUFFICES ASSUME NEW w \in Visit, w[1] = i
                      PROVE  /\ visit'[w] # "none" => task'[i] # "none"
                             /\ visit'[w] = "panicked" => i \in late' \/ Answered(i)'
                             /\ visit'[w] = "handed" => got'[i] = w[2] \/ ch'[i] = <<w[2]>>
          BY DEF HandedOf
        <4>1. CASE w = v
          BY <3>1, <3>2, <4>1 DEF Result
        <4>2. CASE w # v
          <5>1. visit[w] = "handed" => got[i] = w[2]
            BY <2>5, <3>2 DEF HandedOf
          <5>. QED BY <2>1, <2>5, <3>2, <3>5, <4>2, <5>1 DEF HandedOf
        <4>. QED BY <4>1, <4>2
      <3>. QED BY <3>3, <3>4, <3>6, <3>7, <3>8 DEF AttemptOf
    <2>. QED BY <2>7, <2>8 DEF VisitStep
  <1>. QED BY <1>1, <1>2, <1>3 DEF RdvInv

LEMMA RdvNextInv == RdvInv /\ [RdvNext]_rdvVars => RdvInv'
  <1>. SUFFICES ASSUME RdvInv, [RdvNext]_rdvVars PROVE RdvInv'
    OBVIOUS
  <1>1. CASE UNCHANGED rdvVars
    <2>1. RdvTypes'
      BY <1>1 DEF RdvInv, RdvTypes, rdvVars
    <2>2. ASSUME NEW i \in Instance PROVE AttemptOf(i)'
      BY <1>1, Untouched DEF RdvInv, rdvVars
    <2>. QED BY <2>1, <2>2 DEF RdvInv
  <1>. QED BY <1>1, RdvStartInv, RdvWaitInv, RdvEnvInv, PurgeSendsInv, RdvVisitInv DEF RdvNext

\* The inductive invariant about the attempts to create an instance.
THEOREM RdvInvariant == RdvSpec => []RdvInv
BY RdvInitInv, RdvNextInv, PTL DEF RdvSpec

\* Whatever the order of waiter, buildlet, purge and timeouts, a buildlet that
\* found its name is on its way to the waiter or is what the instance came up
\* with, and HandleReverse panics, blocks or sends to nobody only if a context
\* ended, the deadline passed, the task failed or another connection of the same
\* name was served; and no attempt leaves its name registered.  For any instances
\* and visits.
THEOREM HandedOverIsUsed == RdvSpec => []UsedOrRefused
  <1>1. ASSUME RdvInv PROVE FoundIsUsed
    <2>. SUFFICES ASSUME NEW v \in Visit, ~Excused(v),
                         visit[v] \in {"client", "error", "handed", "panicked"}
                  PROVE  Sendable(v) \/ InChannel(v) \/ Received(v)
      BY <1>1 DEF FoundIsUsed, RdvInv, RdvTypes
    <2>. PICK i \in Instance : i = v[1]
      BY VisitOf
    <2>0. RdvTypes /\ AttemptOf(i) /\ v = <<i, v[2]>> /\ v[2] \in 1 .. Visits
      BY <1>1, VisitOf DEF RdvInv
    <2>1. /\ i \notin done \cup late /\ task[i] # "failed" /\ task[i] # "none"
          /\ \A w \in Visit : w[1] = i /\ w # v => visit[w] \notin {"handed", "told"}
      BY <2>0 DEF Excused, AttemptOf, HandedOf
    <2>2. CASE visit[v] # "handed"
      <3>1. ~Answered(i)
        BY <2>1, <2>2 DEF Answered
      <3>. QED BY <2>0, <2>1, <2>2, <3>1 DEF AttemptOf, SourceOf, HandedOf, Sendable
    <2>3. CASE visit[v] = "handed"
      <3>1. ~Blamed(i)
        BY <2>1, <2>3 DEF Blamed, Told
      <3>2. start[i] \in {"query", "select", "up"}
        BY <2>0, <2>1, <3>1 DEF RdvTypes, AttemptOf, BlameOf
      <3>3. got[i] # Failure => got[i] = v[2]
        <4>1. SUFFICES ASSUME got[i] # Failure PROVE got[i] = v[2]
          OBVIOUS
        <4>2. got[i] \in 1 .. Visits
          BY <2>0, <4>1, RendezvousAssumption DEF RdvTypes, Failure
        <4>3. <<i, got[i]>> \in Visit /\ visit[<<i, got[i]>>] = "handed"
          BY <2>0, <4>1, <4>2, VisitIs DEF AttemptOf, SourceOf
        <4>4. <<i, got[i]>> = v
          BY <2>1, <4>3
        <4>. QED BY <2>0, <4>4
      <3>4. CASE got[i] # Failure
        <4>1. start[i] # "query"
          BY <2>0, <3>4 DEF AttemptOf, WaiterOf
        <4>. QED BY <2>3, <3>2, <3>3, <3>4, <4>1 DEF Received
      <3>5. CASE got[i] = Failure
        <4>1. ch[i] = <<v[2]>>
          BY <2>0, <2>3, <3>5 DEF AttemptOf, HandedOf, Failure
        <4>2. wait[i] \in {"off", "lookup", "select"} /\ start[i] # "up"
          BY <2>0, <2>1, <3>1, <3>5 DEF RdvTypes, AttemptOf, WaiterOf, BlameOf, SourceOf
        <4>3. i \in registered
          BY <2>0, <2>1, <3>2, <4>2 DEF AttemptOf, EntryOf, WaiterOf
        <4>. QED BY <2>3, <3>2, <4>1, <4>2, <4>3 DEF InChannel
      <3>. QED BY <3>4, <3>5
    <2>. QED BY <2>2, <2>3
  <1>2. ASSUME RdvInv PROVE NothingRegistered
    BY <1>2 DEF RdvInv, AttemptOf, EntryOf, WaiterOf, NothingRegistered, Over
  <1>. QED BY <1>1, <1>2, RdvInvariant, PTL DEF UsedOrRefused

-----------------------------------------------------------------------------
(***************************************************************************)
(* Proofs about EC2Pool.                                                   *)
(***************************************************************************)

Phases == {"idle", "reserve", "error", "over"} \cup Reserved

\* Where the item of a GetBuildlet call is in each of its phases, and whether
\* the call has an entry in the ledger.
CallOf(c) ==
    /\ phase[c] = "idle" <=> at["cpu"][c] = "new"
    /\ phase[c] = "reserve" => at["cpu"][c] \in {"pushed", "await", "cancelled", "refund",
                                                "refunded", "failed", "held"}
    /\ phase[c] = "error" => at["cpu"][c] = "failed"
    /\ phase[c] \in {"idle", "reserve", "error"} => c \notin entries
    /\ phase[c] \in Reserved => at["cpu"][c] = "held" /\ c \in entries
    /\ phase[c] = "over" => IF c \in entries THEN at["cpu"][c] = "held"
                                             ELSE at["cpu"][c] \in {"returned", "done"}

EC2Inv ==
    /\ phase \in [Client -> Phases]
    /\ known \subseteq entries
    /\ \A c \in Client : CallOf(c)

-----------------------------------------------------------------------------
\* A step of the pool is a step of its quota queue, or none of the queue's.
LEMMA PoolStepsQueue == ASSUME [PoolNext]_poolVars PROVE [QuotaNext]_quotaVars
  <1>. USE EC2Assumption DEF QuotaNext
  <1>1. CASE UNCHANGED quotaVars
    BY <1>1
  <1>2. ASSUME NEW c \in Client, Request(c) \/ Cancel(c) \/ QuotaStep(c) PROVE QuotaNext
    BY <1>2, PollerIsNoClient DEF Request, Cancel, QuotaStep
  <1>3. ASSUME NEW c \in Client, CreateFails(c) \/ DoneKnown(c)
        PROVE  QuotaNext \/ UNCHANGED quotaVars
    BY <1>3 DEF CreateFails, DoneKnown, Remove
  <1>4. CASE PollLimit \/ QuotaStep(Poller)
    BY <1>4 DEF PollLimit, QuotaStep
  <1>5. ASSUME NEW c \in Client, ClientStep(c) \/ BuildletDone(c) \/ GomoteStep(c),
               ~QuotaStep(c), ~CreateFails(c), ~DoneKnown(c)
        PROVE  UNCHANGED quotaVars
    BY <1>5 DEF ClientStep, ReserveFails, Reserve, CreateInstance, InstanceRuns, UpdateReservation,
                BuildletUp, BuildletDone, DoneUnknown, GomoteStep
  <1>6. (\E c \in Client : LookUp(c)) \/ ListInstances \/ Destroy => UNCHANGED quotaVars
    BY DEF LookUp, ListInstances, Destroy
  <1>7. UNCHANGED poolVars => UNCHANGED quotaVars
    BY DEF poolVars
  <1>. QED BY <1>1, <1>2, <1>3, <1>4, <1>5, <1>6, <1>7 DEF PoolNext, ClientStep

\* GetBuildlet, its cancellation, buildletDone and the poller use the queue as
\* its callers must: the pool's behaviours are behaviours of the queue, and
\* what is proved of the queue holds in the pool.
THEOREM PoolImplementsQueue == PoolSpec => QuotaSpec
  <1>1. PoolInit => QuotaInit
    BY DEF PoolInit
  <1>. QED BY <1>1, PoolStepsQueue, PTL DEF PoolSpec, QuotaSpec

-----------------------------------------------------------------------------
LEMMA EC2InitInv == PoolInit => EC2Inv
BY EC2Assumption, PollerIsNoClient
   DEF PoolInit, QuotaInit, EC2Inv, CallOf, Phases, Reserved, Thread

\* A step that leaves the call c alone.
LEMMA CallKept ==
  ASSUME NEW c \in Client, CallOf(c), phase'[c] = phase[c], at'["cpu"][c] = at["cpu"][c],
         c \in entries' <=> c \in entries
  PROVE  CallOf(c)'
BY DEF CallOf

\* How a goroutine moves through the queue.
LEMMA QueueMoves ==
  ASSUME QuotaTypeOK, NEW t \in Thread, NEW p, Go("cpu", t, p), NEW c \in Client
  PROVE  at'["cpu"][c] = IF c = t THEN p ELSE at["cpu"][c]
  <1>1. "cpu" \in Queue /\ c \in Thread
    BY EC2Assumption DEF Thread
  <1>. QED BY <1>1, GoAt

LEMMA EnqueueCall ==
  ASSUME EC2Inv, QuotaInv, NEW c \in Client, Request(c) PROVE EC2Inv'
  <1>1. c \in Thread /\ QuotaTypeOK /\ Go("cpu", c, "pushed")
    BY DEF Thread, QuotaInv, Request, Enqueue
  <1>2. \A d \in Client : at'["cpu"][d] = IF d = c THEN "pushed" ELSE at["cpu"][d]
    BY <1>1, QueueMoves
  <1>3. phase[c] = "idle" /\ phase' = [phase EXCEPT ![c] = "reserve"] /\ UNCHANGED <<entries, known>>
    BY DEF Request, Step
  <1>4. CallOf(c)'
    BY <1>2, <1>3 DEF EC2Inv, CallOf, Reserved
  <1>5. \A d \in Client : d # c => CallOf(d)'
    BY <1>2, <1>3, CallKept DEF EC2Inv
  <1>. QED BY <1>3, <1>4, <1>5 DEF EC2Inv, Phases

LEMMA CancelCall ==
  ASSUME EC2Inv, QuotaInv, NEW c \in Client, Cancel(c) PROVE EC2Inv'
  <1>1. c \in Thread /\ QuotaTypeOK /\ Go("cpu", c, "cancelled") /\ at["cpu"][c] = "await"
    BY DEF Thread, QuotaInv, Cancel, AwaitCancelled
  <1>2. \A d \in Client : at'["cpu"][d] = IF d = c THEN "cancelled" ELSE at["cpu"][d]
    BY <1>1, QueueMoves
  <1>3. UNCHANGED <<phase, entries, known>>
    BY DEF Cancel, ec2Vars, vmVars
  <1>4. CallOf(c)'
    BY <1>1, <1>2, <1>3 DEF EC2Inv, CallOf, Reserved, Phases
  <1>5. \A d \in Client : d # c => CallOf(d)'
    BY <1>2, <1>3, CallKept DEF EC2Inv
  <1>. QED BY <1>3, <1>4, <1>5 DEF EC2Inv

\* updated() and Await: the call is reserving, or through and inside the
\* updated() of its own ReturnQuota.
LEMMA QuotaStepCall ==
  ASSUME EC2Inv, QuotaInv, NEW t \in Thread, QuotaStep(t) PROVE EC2Inv'
  <1>0. UNCHANGED <<phase, entries, known>>
    BY DEF QuotaStep, ec2Vars, vmVars
  <1>1. CASE UNCHANGED at
    BY <1>0, <1>1, CallKept DEF EC2Inv
  <1>2. ASSUME NEW p, Go("cpu", t, p),
               at["cpu"][t] \in {"pushed", "cancelled", "refunded", "await", "refund"}
                   => p \in {"await", "refund", "failed", "held", "refunded"},
               at["cpu"][t] \in {"returned", "done"} => p \in {"done"},
               at["cpu"][t] \notin {"new", "held", "failed"}
        PROVE  EC2Inv'
    <2>1. \A d \in Client : at'["cpu"][d] = IF d = t THEN p ELSE at["cpu"][d]
      BY <1>2, QueueMoves DEF QuotaInv
    <2>2. ASSUME t \in Client PROVE CallOf(t)'
      <3>1. CallOf(t) /\ phase[t] \in Phases
        BY <2>2 DEF EC2Inv
      <3>2. at'["cpu"][t] = p
        BY <2>1, <2>2
      <3>. QED BY <1>0, <1>2, <3>1, <3>2 DEF CallOf, Reserved, Phases
    <2>3. \A d \in Client : d # t => CallOf(d)'
      BY <1>0, <2>1, CallKept DEF EC2Inv
    <2>. QED BY <1>0, <2>2, <2>3 DEF EC2Inv
  <1>3. After["pushed"] = "await" /\ After["cancelled"] = "refund"
        /\ After["refunded"] = "failed" /\ After["returned"] = "done"
    BY DEF After
  <1>. QED BY <1>1, <1>2, <1>3
           DEF QuotaStep, AwaitStep, Updated, TryPop, LeaveUpdated, AwaitPopped, Refund, Updating

\* ledger.Remove, whose caller is still reserved.
LEMMA RemoveCall ==
  ASSUME EC2Inv, QuotaInv, NEW c \in Client, phase[c] \in Reserved,
         phase' = [phase EXCEPT ![c] = "over"], Remove(c)
  PROVE  EC2Inv'
  <1>1. c \in entries /\ c \in Thread
    BY DEF EC2Inv, CallOf, Thread
  <1>2. /\ ReturnQuota("cpu", c) /\ entries' = entries \ {c} /\ known' = known \ {c}
        /\ Go("cpu", c, "returned")
    BY <1>1 DEF Remove, ReturnQuota
  <1>3. \A d \in Client : at'["cpu"][d] = IF d = c THEN "returned" ELSE at["cpu"][d]
    BY <1>1, <1>2, QueueMoves DEF QuotaInv
  <1>4. CallOf(c)'
    BY <1>1, <1>2, <1>3 DEF EC2Inv, CallOf, Reserved
  <1>5. \A d \in Client : d # c => CallOf(d)'
    BY <1>2, <1>3, CallKept DEF EC2Inv
  <1>. QED BY <1>2, <1>4, <1>5 DEF EC2Inv, Phases

\* The steps of StartNewVM and buildletDone that do not touch the queue.
LEMMA AdvanceCall ==
  ASSUME EC2Inv, NEW c \in Client, UNCHANGED quotaVars,
         \/ /\ \E from, to \in Reserved : Step(c, from, to)
            /\ known' \in {known, known \cup (entries \cap {c})} /\ UNCHANGED entries
         \/ Step(c, "done", "over") /\ UNCHANGED <<entries, known>>
         \/ /\ Step(c, "reserve", "error") /\ at["cpu"][c] = "failed"
            /\ UNCHANGED <<entries, known>>
         \/ /\ Step(c, "reserve", "create") /\ at["cpu"][c] = "held"
            /\ entries' = entries \cup {c} /\ UNCHANGED known
  PROVE  EC2Inv'
  <1>1. /\ at' = at /\ phase' \in [Client -> Phases] /\ known' \subseteq entries'
        /\ \A d \in Client : d # c => phase'[d] = phase[d] /\ (d \in entries' <=> d \in entries)
    BY DEF EC2Inv, Step, quotaVars, Phases, Reserved
  <1>2. CallOf(c)'
    BY <1>1 DEF EC2Inv, CallOf, Reserved, Step
  <1>3. \A d \in Client : d # c => CallOf(d)'
    BY <1>1, CallKept DEF EC2Inv
  <1>. QED BY <1>1, <1>2, <1>3 DEF EC2Inv

LEMMA EC2NextInv == ASSUME EC2Inv, QuotaInv, [PoolNext]_poolVars PROVE EC2Inv'
  <1>1. ASSUME NEW c \in Client, CreateFails(c) \/ DoneKnown(c) PROVE EC2Inv'
    BY <1>1, RemoveCall DEF CreateFails, DoneKnown, Step, Reserved
  <1>2. ASSUME NEW c \in Client,
               ReserveFails(c) \/ Reserve(c) \/ CreateInstance(c) \/ InstanceRuns(c)
                 \/ UpdateReservation(c) \/ BuildletUp(c) \/ BuildletDone(c) \/ DoneUnknown(c)
        PROVE  EC2Inv'
    BY <1>2, AdvanceCall
       DEF ReserveFails, Reserve, CreateInstance, InstanceRuns, UpdateReservation, BuildletUp,
           BuildletDone, DoneUnknown, Reserved
  <1>3. ASSUME UNCHANGED <<at, phase, entries, known>> PROVE EC2Inv'
    BY <1>3, CallKept DEF EC2Inv
  <1>4. (\E c \in Client : LookUp(c) \/ GomoteStep(c)) \/ ListInstances \/ Destroy
            \/ UNCHANGED poolVars => EC2Inv'
    BY <1>3 DEF LookUp, GomoteStep, ListInstances, Destroy, poolVars, quotaVars, ec2Vars, vmVars
  <1>5. CASE PollLimit
    <2>1. Go("cpu", Poller, "reported") /\ UNCHANGED <<phase, entries, known>>
      BY <1>5 DEF PollLimit, UpdateLimit, ec2Vars, vmVars
    <2>2. \A d \in Client : at'["cpu"][d] = at["cpu"][d]
      BY <2>1, QueueMoves, PollerIsNoClient DEF QuotaInv, Thread
    <2>. QED BY <2>1, <2>2, CallKept DEF EC2Inv
  <1>. QED BY <1>1, <1>2, <1>4, <1>5, EnqueueCall, CancelCall, QuotaStepCall
           DEF PoolNext, ClientStep, Thread

\* The inductive invariant about GetBuildlet calls.
THEOREM EC2Invariant == PoolSpec => []EC2Inv
  <1>1. PoolSpec => []QuotaInv
    BY PoolImplementsQueue, QuotaInvariant, PTL
  <1>. QED BY <1>1, EC2InitInv, EC2NextInv, PTL DEF PoolSpec

\* For any clients, costs and limits, a VM has an entry in the ledger exactly
\* while its CPUs are charged, however waits are cancelled and creations fail.
THEOREM LedgerIsExact == PoolSpec => []LedgerMatchesQuota
  <1>1. ASSUME EC2Inv, QuotaInv PROVE LedgerMatchesQuota
    <2>. SUFFICES ASSUME NEW c \in Client
                  PROVE  /\ c \in entries => c \in Charged("cpu") /\ at["cpu"][c] = "held"
                         /\ phase[c] \in Reserved => c \in entries
                         /\ c \in Charged("cpu") /\ c \notin entries => phase[c] = "reserve"
      BY DEF LedgerMatchesQuota
    <2>1. CallOf(c) /\ phase[c] \in Phases
      BY <1>1 DEF EC2Inv
    <2>2. at["cpu"][c] = "held" => c \in popped["cpu"]
      BY <1>1, EC2Assumption DEF QuotaInv, WaitersArePresent
    <2>. QED BY <2>1, <2>2 DEF CallOf, Phases, Reserved, Charged
  <1>2. PoolSpec => []QuotaInv
    BY PoolImplementsQueue, QuotaInvariant, PTL
  <1>. QED BY <1>1, <1>2, EC2Invariant, PTL
=============================================================================
