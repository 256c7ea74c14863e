-------------------------- MODULE CoordinatorProofs -------------------------
(***************************************************************************)
(* The coordinator's try sets and post-submit work, and the tests of a     *)
(* build.                                                                  *)
(***************************************************************************)
EXTENDS TrySets, TestSharding, FiniteSetTheorems, WellFoundedInduction, TLAPS

-----------------------------------------------------------------------------
(***************************************************************************)
(* Proofs about TrySets.                                                   *)
(***************************************************************************)

BuildRec == [phase : {"new", "running", "over", "set", "gone"}, event : BOOLEAN, good : BOOLEAN,
             canceled : BOOLEAN, ctxDone : BOOLEAN, succeeded : BOOLEAN]
SetRec == [key : Key, canceled : BOOLEAN, remain : Int, failed : SUBSET Builder,
           builds : [Builder -> Nat]]
Pcs == {"wait", "sleep", "restart", "install", "upload", "post", "quit"}
AwaitRec == [pc : Pcs, n : Nat, remain : Int, numFail : Nat]
ReviewRec == [verdict : {None, "happy", "failed"}, votes : Nat, progress : BOOLEAN, lost : BOOLEAN]

\* Try sets are numbered in the order in which they are created.
Numbered == /\ Cardinality(DOMAIN set) \in 0..MaxSets
            /\ DOMAIN set = 1..Cardinality(DOMAIN set)

TryTypes ==
    /\ Numbered
    /\ set \in [DOMAIN set -> SetRec]
    /\ await \in [SetIds \X Builder -> AwaitRec]
    /\ build \in [DOMAIN build -> BuildRec]
    /\ status = [r \in Revs |-> status[r]]
    /\ review \in [SetIds -> ReviewRec]
    /\ todo \in SUBSET Work
    /\ adding \in Work \cup {NoRev}

\* The names of builds: a new one of a set has a number that is not taken, and so
\* has a new post-submit build.
NamedPost(i) == i.n \in Nat /\ i.n <= Cardinality(PostBuilds(i.rev))
NamedTry(i) ==
    /\ i.set \in DOMAIN set
    /\ \E b \in Builder : i.rev = RevOf(i.set, b) /\ i.n \in Nat /\ i.n <= await[<<i.set, b>>].n
Named ==
    /\ IsFiniteSet(DOMAIN build)
    /\ \A i \in DOMAIN build : IF i.set = PostSubmit THEN NamedPost(i) ELSE NamedTry(i)

\* Of the builds of a revision that are not gone, and the one that findWork is
\* about to start, one is seen in status, or by findWork; as many more as try
\* sets have made can be hidden, because each of those registered over another
\* build, or is one that another registered over.
LiveOf(r) == {i \in DOMAIN build : i.rev = r /\ build[i].phase # "gone"}
BeingAdded(r) == IF adding = r THEN 1 ELSE 0
Shown(r) == IF status[r] # NoBuild \/ adding = r THEN 1 ELSE 0
Accounted(r) ==
    Cardinality(LiveOf(r)) + BeingAdded(r) <= Cardinality(TryBuilds(r)) + Shown(r)

WorkInv == TryTypes /\ Named /\ \A r \in Work : Accounted(r)

-----------------------------------------------------------------------------
LEMMA CountTo == ASSUME NEW n \in Nat PROVE Cardinality(1..n) = n
BY FS_Interval

LEMMA NumberedNext ==
  ASSUME Numbered, Cardinality(DOMAIN set) < MaxSets,
         DOMAIN set' = DOMAIN set \cup {Cardinality(DOMAIN set) + 1}
  PROVE  /\ Numbered'
         /\ Cardinality(DOMAIN set) + 1 \in SetIds \ DOMAIN set
  <1>. DEFINE n == Cardinality(DOMAIN set)
  <1>1. n \in Nat /\ n + 1 \in 1..MaxSets /\ DOMAIN set = 1..n
    BY BoundsAssumption DEF Numbered
  <1>2. DOMAIN set' = 1..(n + 1)
    BY <1>1
  <1>3. Cardinality(DOMAIN set') = n + 1
    BY <1>1, <1>2, CountTo
  <1>4. Numbered'
    BY <1>1, <1>2, <1>3, BoundsAssumption DEF Numbered
  <1>5. n + 1 \in SetIds \ DOMAIN set
    BY <1>1 DEF SetIds
  <1>. QED BY <1>4, <1>5

LEMMA TryInitTypes == TryInit => TryTypes
  <1>. SUFFICES ASSUME TryInit PROVE TryTypes
    OBVIOUS
  <1>1. DOMAIN set = {} /\ Cardinality(DOMAIN set) = 0 /\ DOMAIN set = 1..0
    BY FS_EmptySet DEF TryInit
  <1>2. Numbered
    BY <1>1, BoundsAssumption DEF Numbered
  <1>3. set \in [DOMAIN set -> SetRec] /\ build \in [DOMAIN build -> BuildRec]
    BY <1>1 DEF TryInit
  <1>4. await \in [SetIds \X Builder -> AwaitRec]
    BY DEF TryInit, NewAwait, AwaitRec, Pcs
  <1>5. review \in [SetIds -> ReviewRec]
    BY DEF TryInit, ReviewRec
  <1>. QED BY <1>2, <1>3, <1>4, <1>5 DEF TryInit, TryTypes

\* One more element in a function.
LEMMA WithFacts ==
  ASSUME NEW f, NEW x, NEW v
  PROVE  /\ DOMAIN With(f, x, v) = DOMAIN f \cup {x}
         /\ With(f, x, v)[x] = v
         /\ \A y \in DOMAIN f : y # x => With(f, x, v)[y] = f[y]
BY DEF With

LEMMA BuildersCounted == Cardinality(Builder) \in Nat
BY BuilderAssumption, FS_CardinalityType

LEMMA FindTryWorkTypes ==
  ASSUME TryTypes, NEW k \in Key, FindTryWork(k) PROVE TryTypes'
  <1>. DEFINE s == Cardinality(DOMAIN set) + 1
  <1>1. /\ set' = With(set, s, NewTrySet(k))
        /\ await' = [x \in DOMAIN await |-> IF x[1] = s THEN NewAwait ELSE await[x]]
        /\ build' = [i \in DOMAIN build \cup {BuildOf(s, <<k, b>>, 1) : b \in Builder} |->
                       IF i \in DOMAIN build THEN build[i] ELSE NewBuild]
        /\ UNCHANGED <<review, todo, adding>>
        /\ Cardinality(DOMAIN set) < MaxSets
    BY DEF FindTryWork, CreateTrySet, gerrit, work
  <1>2. DOMAIN set' = DOMAIN set \cup {s}
    BY <1>1, WithFacts
  <1>3. Numbered'
    BY <1>1, <1>2, NumberedNext DEF TryTypes
  <1>4. NewTrySet(k) \in SetRec
    BY BuildersCounted DEF NewTrySet, SetRec
  <1>5. set' \in [DOMAIN set' -> SetRec]
    BY <1>1, <1>4 DEF With, TryTypes
  <1>6. await' \in [SetIds \X Builder -> AwaitRec]
    <2>1. NewAwait \in AwaitRec
      BY DEF NewAwait, AwaitRec, Pcs
    <2>. QED BY <1>1, <2>1 DEF TryTypes
  <1>7. build' \in [DOMAIN build' -> BuildRec]
    <2>1. NewBuild \in BuildRec
      BY DEF NewBuild, BuildRec
    <2>. QED BY <1>1, <2>1 DEF TryTypes
  <1>8. status' = [r \in Revs |-> status'[r]]
    BY DEF FindTryWork, CreateTrySet
  <1>. QED BY <1>1, <1>3, <1>5, <1>6, <1>7, <1>8 DEF TryTypes

\* What becomes of a build in a step of its goroutine, or of the one that
\* cancels it.
BuildMove(i, x, y) ==
    \/ x.phase = "new" /\ y = [x EXCEPT !.phase = "running"] /\ status' = [status EXCEPT ![i.rev] = i]
    \/ /\ x.phase = "running" /\ status' = status
       /\ \E event, good \in BOOLEAN :
             (good => event) /\ y = [x EXCEPT !.phase = "over", !.event = event, !.good = good]
    \/ /\ x.phase = "over" /\ status' = status
       /\ y = [x EXCEPT !.phase = "set", !.succeeded = ~x.canceled /\ x.good, !.ctxDone = TRUE]
    \/ /\ x.phase = "set" /\ status' = [status EXCEPT ![i.rev] = NoBuild]
       /\ y = [x EXCEPT !.phase = "gone"]
    \/ /\ i \in closing /\ status' = status
       /\ y = [x EXCEPT !.canceled = TRUE, !.ctxDone = TRUE]

LEMMA BuildChanges ==
  ASSUME TryTypes, NEW i \in DOMAIN build, BuildStep(i) \/ CancelBuild(i)
  PROVE  \E y \in BuildRec : build' = [build EXCEPT ![i] = y] /\ BuildMove(i, build[i], y)
  <1>0. build[i] \in BuildRec
    BY DEF TryTypes
  <1>1. CASE Start(i)
    <2>. DEFINE y == [build[i] EXCEPT !.phase = "running"]
    <2>1. y \in BuildRec /\ build' = [build EXCEPT ![i] = y] /\ BuildMove(i, build[i], y)
      BY <1>0, <1>1 DEF Start, BuildRec, BuildMove
    <2>. QED BY <2>1
  <1>2. ASSUME NEW event \in BOOLEAN, NEW good \in BOOLEAN, good => event, Returns(i, event, good)
        PROVE  \E y \in BuildRec : build' = [build EXCEPT ![i] = y] /\ BuildMove(i, build[i], y)
    <2>. DEFINE y == [build[i] EXCEPT !.phase = "over", !.event = event, !.good = good]
    <2>1. y \in BuildRec /\ build' = [build EXCEPT ![i] = y] /\ BuildMove(i, build[i], y)
      BY <1>0, <1>2 DEF Returns, BuildRec, BuildMove
    <2>. QED BY <2>1
  <1>3. CASE SetDone(i)
    <2>. DEFINE y == [build[i] EXCEPT !.phase = "set", !.ctxDone = TRUE,
                                      !.succeeded = ~build[i].canceled /\ build[i].good]
    <2>1. y \in BuildRec /\ build' = [build EXCEPT ![i] = y] /\ BuildMove(i, build[i], y)
      BY <1>0, <1>3 DEF SetDone, BuildRec, BuildMove
    <2>. QED BY <2>1
  <1>4. CASE MarkDone(i)
    <2>. DEFINE y == [build[i] EXCEPT !.phase = "gone"]
    <2>1. y \in BuildRec /\ build' = [build EXCEPT ![i] = y] /\ BuildMove(i, build[i], y)
      BY <1>0, <1>4 DEF MarkDone, BuildRec, BuildMove
    <2>. QED BY <2>1
  <1>5. CASE CancelBuild(i)
    <2>. DEFINE y == [build[i] EXCEPT !.canceled = TRUE, !.ctxDone = TRUE]
    <2>1. y \in BuildRec /\ build' = [build EXCEPT ![i] = y] /\ BuildMove(i, build[i], y)
      BY <1>0, <1>5 DEF CancelBuild, BuildRec, BuildMove
    <2>. QED BY <2>1
  <1>6. CASE BuildBreaks(i) \/ \E good \in BOOLEAN : BuildEnds(i, good)
    BY <1>2, <1>6 DEF BuildBreaks, BuildEnds
  <1>. QED BY <1>1, <1>3, <1>4, <1>5, <1>6 DEF BuildStep

LEMMA BuildTypes ==
  ASSUME TryTypes, NEW i \in DOMAIN build, BuildStep(i) \/ CancelBuild(i)
  PROVE  TryTypes' /\ UNCHANGED <<set, await, review, todo, adding>>
  <1>1. UNCHANGED <<set, await, review, todo, adding>>
    BY DEF BuildStep, CancelBuild, Start, SetDone, MarkDone, BuildEnds, BuildBreaks, Returns,
           gerrit, work
  <1>2. PICK y \in BuildRec : build' = [build EXCEPT ![i] = y] /\ BuildMove(i, build[i], y)
    BY BuildChanges
  <1>3. build' \in [DOMAIN build' -> BuildRec]
    BY <1>2 DEF TryTypes
  <1>4. status' = [r \in Revs |-> status'[r]]
    <2>1. status = [r \in Revs |-> status[r]]
      BY DEF TryTypes
    <2>2. \/ status' = status \/ \E v : status' = [status EXCEPT ![i.rev] = v]
      BY <1>2 DEF BuildMove
    <2>. QED BY <2>1, <2>2
  <1>. QED BY <1>1, <1>3, <1>4 DEF TryTypes, Numbered

LEMMA SetNumber == ASSUME TryTypes, NEW s \in DOMAIN set PROVE s \in SetIds /\ s # 0
  <1>1. s \in 1..Cardinality(DOMAIN set) /\ Cardinality(DOMAIN set) \in 0..MaxSets
    BY DEF TryTypes, Numbered
  <1>. QED BY <1>1, BoundsAssumption DEF SetIds

\* CancelBuilds and AwaitInstalls change a set, and nothing that is counted.
LEMMA SetTypes ==
  ASSUME TryTypes, NEW s \in DOMAIN set,
         CancelBuilds(s) \/ \E b \in Builder : AwaitInstalls(s, b)
  PROVE  /\ TryTypes'
         /\ UNCHANGED <<build, status, review, todo, adding>>
         /\ DOMAIN set' = DOMAIN set
         /\ \A t \in DOMAIN set : t # s => set'[t] = set[t]
         /\ set'[s].key = set[s].key /\ set'[s].remain = set[s].remain
         /\ set'[s].failed = set[s].failed /\ (set[s].canceled => set'[s].canceled)
  <1>0. set[s] \in SetRec /\ s \in SetIds
    BY SetNumber DEF TryTypes
  <1>1. CASE CancelBuilds(s)
    <2>1. set' = [set EXCEPT ![s].canceled = TRUE] /\ UNCHANGED <<await, build, status, review, todo, adding>>
      BY <1>1 DEF CancelBuilds, gerrit, work
    <2>2. /\ DOMAIN set' = DOMAIN set /\ set' \in [DOMAIN set -> SetRec]
          /\ \A t \in DOMAIN set : t # s => set'[t] = set[t]
          /\ set'[s] = [set[s] EXCEPT !.canceled = TRUE]
      BY <1>0, <2>1 DEF TryTypes, SetRec
    <2>. QED BY <1>0, <2>1, <2>2 DEF TryTypes, Numbered, SetRec
  <1>2. ASSUME NEW b \in Builder, AwaitInstalls(s, b) PROVE
         /\ TryTypes'
         /\ UNCHANGED <<build, status, review, todo, adding>>
         /\ DOMAIN set' = DOMAIN set
         /\ \A t \in DOMAIN set : t # s => set'[t] = set[t]
         /\ set'[s].key = set[s].key /\ set'[s].remain = set[s].remain
         /\ set'[s].failed = set[s].failed /\ (set[s].canceled => set'[s].canceled)
    <2>0. await[<<s, b>>] \in AwaitRec
      BY <1>0 DEF TryTypes
    <2>1. /\ set' = [set EXCEPT ![s].builds[b] = await[<<s, b>>].n]
          /\ await' = [await EXCEPT ![<<s, b>>].pc = "wait"]
          /\ UNCHANGED <<build, status, review, todo, adding>>
      BY <1>2 DEF AwaitInstalls, Step, gerrit, work
    <2>2. /\ DOMAIN set' = DOMAIN set
          /\ \A t \in DOMAIN set : t # s => set'[t] = set[t]
          /\ set'[s] = [set[s] EXCEPT !.builds = [set[s].builds EXCEPT ![b] = await[<<s, b>>].n]]
      BY <1>0, <2>1 DEF TryTypes
    <2>3. [set[s] EXCEPT !.builds = [set[s].builds EXCEPT ![b] = await[<<s, b>>].n]] \in SetRec
      BY <1>0, <2>0 DEF SetRec, AwaitRec
    <2>4. set' \in [DOMAIN set -> SetRec]
      BY <2>1, <2>2, <2>3 DEF TryTypes
    <2>5. await' \in [SetIds \X Builder -> AwaitRec]
      BY <2>1 DEF TryTypes, AwaitRec, Pcs
    <2>. QED BY <1>0, <2>1, <2>2, <2>4, <2>5 DEF TryTypes, Numbered, SetRec
  <1>. QED BY <1>1, <1>2

\* A goroutine awaitTryBuild moves on without counting and without a new build.
Moves(s, b, pcs) ==
    /\ \E step \in pcs : await' = [await EXCEPT ![<<s, b>>].pc = step]
    /\ UNCHANGED <<set, build, status, todo, adding>>

LEMMA MovesTypes ==
  ASSUME TryTypes, NEW s \in DOMAIN set, NEW b \in Builder, Moves(s, b, Pcs), review' \in [SetIds -> ReviewRec]
  PROVE  TryTypes'
  <1>1. await' \in [SetIds \X Builder -> AwaitRec]
    <2>1. PICK step \in Pcs : await' = [await EXCEPT ![<<s, b>>].pc = step]
      BY DEF Moves
    <2>. QED BY <2>1 DEF TryTypes, AwaitRec
  <1>. QED BY <1>1 DEF TryTypes, Moves, Numbered

LEMMA ReviewTypes ==
  ASSUME TryTypes, NEW s \in DOMAIN set, NEW b \in Builder,
         UploadFails(s, b) \/ Post(s, b) \/ PostFails(s, b)
  PROVE  TryTypes' /\ Moves(s, b, {"quit"})
  <1>0. s \in SetIds /\ review[s] \in ReviewRec
    BY SetNumber DEF TryTypes
  <1>1. Moves(s, b, {"quit"})
    BY DEF UploadFails, Post, PostFails, Moves, Step, work
  <1>2. review' \in [SetIds -> ReviewRec]
    <2>1. CASE UploadFails(s, b) \/ PostFails(s, b)
      <3>1. review' = [review EXCEPT ![s].lost = TRUE]
        BY <2>1 DEF UploadFails, PostFails, Lose
      <3>. QED BY <1>0, <3>1 DEF TryTypes, ReviewRec
    <2>2. CASE Post(s, b)
      <3>1. review' = IF IsFinal(s, b)
                      THEN [review EXCEPT ![s].verdict = Verdict(s, b),
                                          ![s].votes = review[s].votes + 1]
                      ELSE [review EXCEPT ![s].progress = TRUE]
        BY <1>0, <2>2 DEF Post, TryTypes, ReviewRec
      <3>2. Verdict(s, b) \in {None, "happy", "failed"} /\ review[s].votes + 1 \in Nat
        BY <1>0 DEF Verdict, ReviewRec
      <3>3. /\ DOMAIN review' = SetIds
            /\ \A t \in SetIds : t # s => review'[t] = review[t]
            /\ review'[s] \in ReviewRec
        BY <1>0, <3>1, <3>2 DEF TryTypes, ReviewRec
      <3>4. review' = [t \in SetIds |-> review'[t]]
        BY <3>1 DEF TryTypes
      <3>. QED BY <3>3, <3>4 DEF TryTypes
    <2>. QED BY <2>1, <2>2
  <1>3. Moves(s, b, Pcs)
    BY <1>1 DEF Moves, Pcs
  <1>. QED BY <1>1, <1>2, <1>3, MovesTypes

LEMMA AwaitTypes ==
  ASSUME TryTypes, NEW s \in DOMAIN set, NEW b \in Builder,
         AwaitGivesUp(s, b) \/ AwaitRetries(s, b) \/ AwaitWakes(s, b) \/ UploadLog(s, b)
  PROVE  TryTypes' /\ Moves(s, b, Pcs) /\ review' = review
  <1>1. Moves(s, b, Pcs) /\ review' = review
    BY DEF AwaitGivesUp, AwaitRetries, AwaitWakes, UploadLog, Moves, Step, work, gerrit, Pcs
  <1>. QED BY <1>1, MovesTypes DEF TryTypes

LEMMA RestartTypes ==
  ASSUME TryTypes, NEW s \in DOMAIN set, NEW b \in Builder, AwaitRestarts(s, b)
  PROVE  TryTypes'
  <1>1. /\ await' = [await EXCEPT ![<<s, b>>].pc = "install", ![<<s, b>>].n = @ + 1]
        /\ build' = With(build, BuildOf(s, RevOf(s, b), await[<<s, b>>].n + 1), NewBuild)
        /\ UNCHANGED <<set, status, review, todo, adding>>
    BY DEF AwaitRestarts, work, gerrit
  <1>2. await' \in [SetIds \X Builder -> AwaitRec]
    <2>1. <<s, b>> \in SetIds \X Builder
      BY SetNumber
    <2>. QED BY <1>1, <2>1 DEF TryTypes, AwaitRec, Pcs
  <1>3. build' \in [DOMAIN build' -> BuildRec]
    BY <1>1 DEF TryTypes, With, NewBuild, BuildRec
  <1>. QED BY <1>1, <1>2, <1>3 DEF TryTypes, Numbered

LEMMA NoteTypes ==
  ASSUME TryTypes, NEW s \in DOMAIN set, NEW b \in Builder, NoteBuildComplete(s, b)
  PROVE  TryTypes'
  <1>. DEFINE failed == IF build[CurrentBuild(s, b)].succeeded THEN set[s].failed
                                                               ELSE set[s].failed \cup {b}
              step == IF set[s].canceled THEN "quit" ELSE "upload"
  <1>1. /\ set' = [set EXCEPT ![s].remain = @ - 1, ![s].failed = failed]
        /\ await' = [await EXCEPT ![<<s, b>>].pc = step, ![<<s, b>>].remain = set[s].remain - 1,
                                  ![<<s, b>>].numFail = Cardinality(failed)]
        /\ UNCHANGED <<build, status, review, todo, adding>>
    BY DEF NoteBuildComplete, work, gerrit
  <1>2. set[s] \in SetRec /\ <<s, b>> \in SetIds \X Builder
    BY SetNumber DEF TryTypes
  <1>3. failed \in SUBSET Builder /\ Cardinality(failed) \in Nat
    <2>1. failed \in SUBSET Builder
      BY <1>2 DEF SetRec
    <2>. QED BY <2>1, BuilderAssumption, FS_Subset, FS_CardinalityType
  <1>4. step \in Pcs
    BY DEF Pcs
  <1>. HIDE DEF failed, step
  <1>5. DOMAIN set' = DOMAIN set /\ set' \in [DOMAIN set -> SetRec]
    <2>1. set[s].remain - 1 \in Int
      BY <1>2 DEF SetRec
    <2>2. /\ DOMAIN set' = DOMAIN set
          /\ \A t \in DOMAIN set : t # s => set'[t] = set[t]
          /\ set'[s] \in SetRec
      BY <1>1, <1>2, <1>3, <2>1 DEF TryTypes, SetRec
    <2>. QED BY <1>1, <2>2 DEF TryTypes
  <1>6. await' \in [SetIds \X Builder -> AwaitRec]
    <2>1. set[s].remain - 1 \in Int /\ await[<<s, b>>] \in AwaitRec
      BY <1>2 DEF SetRec, TryTypes
    <2>2. /\ DOMAIN await' = DOMAIN await
          /\ \A x \in DOMAIN await : x # <<s, b>> => await'[x] = await[x]
          /\ await'[<<s, b>>] \in AwaitRec
      BY <1>1, <1>2, <1>3, <1>4, <2>1 DEF TryTypes, AwaitRec
    <2>. QED BY <1>1, <2>2 DEF TryTypes
  <1>. QED BY <1>1, <1>5, <1>6 DEF TryTypes, Numbered

LEMMA WorkTypes == ASSUME TryTypes, FindStep PROVE TryTypes'
  <1>1. CASE FindWork
    BY <1>1 DEF FindWork, TryTypes, Numbered, gerrit
  <1>2. ASSUME NEW r \in todo, AddWork(r) PROVE TryTypes'
    BY <1>2 DEF AddWork, TryTypes, Numbered, gerrit
  <1>3. CASE StartWork
    <2>. DEFINE i == BuildOf(PostSubmit, adding, Cardinality(PostBuilds(adding)) + 1)
    <2>1. /\ build' = With(build, i, [NewBuild EXCEPT !.phase = "running"])
          /\ status' = [status EXCEPT ![adding] = i] /\ adding' = NoRev
          /\ UNCHANGED <<set, await, review, todo>>
      BY <1>3 DEF StartWork, gerrit
    <2>. HIDE DEF i
    <2>2. build' \in [DOMAIN build' -> BuildRec]
      BY <2>1 DEF TryTypes, With, NewBuild, BuildRec
    <2>3. status' = [r \in Revs |-> status'[r]]
      <3>1. status = [r \in Revs |-> status[r]]
        BY DEF TryTypes
      <3>. QED BY <2>1, <3>1
    <2>. QED BY <2>1, <2>2, <2>3 DEF TryTypes, Numbered
  <1>. QED BY <1>1, <1>2, <1>3 DEF FindStep

\* Every step keeps the types.
LEMMA TryNextTypes == ASSUME TryTypes, [TryNext]_tryVars PROVE TryTypes'
  <1>1. CASE UNCHANGED tryVars
    BY <1>1 DEF TryTypes, Numbered, tryVars
  <1>2. ASSUME NEW k \in Key, TryUnwanted(k) PROVE TryTypes'
    BY <1>2 DEF TryUnwanted, TryTypes, Numbered, gerrit, work
  <1>. QED BY <1>1, <1>2, FindTryWorkTypes, SetTypes, AwaitTypes, RestartTypes, NoteTypes, ReviewTypes,
              BuildTypes, WorkTypes
           DEF TryNext, UserStep, GoroutineStep, AwaitStep


-----------------------------------------------------------------------------
\* Builds of a revision.

LEMMA CardAdd ==
  ASSUME NEW S, IsFiniteSet(S), NEW x, x \notin S
  PROVE  Cardinality(S) \in Nat /\ Cardinality(S \cup {x}) = Cardinality(S) + 1
BY FS_AddElement, FS_CardinalityType

LEMMA CardDrop ==
  ASSUME NEW S, IsFiniteSet(S), NEW x \in S
  PROVE  Cardinality(S) \in Nat /\ Cardinality(S \ {x}) = Cardinality(S) - 1
BY FS_RemoveElement, FS_CardinalityType

LEMMA BuildsFinite ==
  ASSUME Named, NEW r
  PROVE  /\ IsFiniteSet(LiveOf(r)) /\ Cardinality(LiveOf(r)) \in Nat
         /\ IsFiniteSet(TryBuilds(r)) /\ Cardinality(TryBuilds(r)) \in Nat
         /\ IsFiniteSet(PostBuilds(r)) /\ Cardinality(PostBuilds(r)) \in Nat
  <1>1. IsFiniteSet(DOMAIN build)
    BY DEF Named
  <1>2. /\ LiveOf(r) \subseteq DOMAIN build /\ TryBuilds(r) \subseteq DOMAIN build
        /\ PostBuilds(r) \subseteq DOMAIN build
    BY DEF LiveOf, TryBuilds, PostBuilds
  <1>3. IsFiniteSet(LiveOf(r)) /\ IsFiniteSet(TryBuilds(r)) /\ IsFiniteSet(PostBuilds(r))
    BY <1>1, <1>2, FS_Subset
  <1>. QED BY <1>3, FS_CardinalityType

\* Sets are not forgotten, keep their keys, and number their builds upwards.
SetsKept ==
    /\ \A s \in DOMAIN set : s \in DOMAIN set' /\ set'[s].key = set[s].key
    /\ \A s \in DOMAIN set, b \in Builder :
          /\ await[<<s, b>>].n \in Nat /\ await'[<<s, b>>].n \in Nat
          /\ await[<<s, b>>].n <= await'[<<s, b>>].n

LEMMA NamedTryKept == ASSUME NEW i, NamedTry(i), SetsKept PROVE NamedTry(i)'
  <1>1. PICK b \in Builder : i.rev = RevOf(i.set, b) /\ i.n \in Nat /\ i.n <= await[<<i.set, b>>].n
    BY DEF NamedTry
  <1>2. /\ i.set \in DOMAIN set' /\ set'[i.set].key = set[i.set].key
        /\ i.n <= await'[<<i.set, b>>].n
    BY <1>1 DEF NamedTry, SetsKept
  <1>. QED BY <1>1, <1>2 DEF NamedTry, RevOf

\* Steps that touch neither the builds nor the work to be added.
LEMMA WorkKept ==
  ASSUME WorkInv, SetsKept, UNCHANGED <<build, status, adding>>
  PROVE  Named' /\ \A r \in Work : Accounted(r)'
  <1>1. \A r : /\ LiveOf(r)' = LiveOf(r) /\ TryBuilds(r)' = TryBuilds(r)
              /\ PostBuilds(r)' = PostBuilds(r)
    BY DEF LiveOf, TryBuilds, PostBuilds
  <1>2. \A r \in Work : Accounted(r)'
    BY <1>1 DEF WorkInv, Accounted, BeingAdded, Shown
  <1>3. \A i \in DOMAIN build : IF i.set = PostSubmit THEN NamedPost(i)' ELSE NamedTry(i)'
    BY <1>1, NamedTryKept DEF WorkInv, Named, NamedPost
  <1>. QED BY <1>2, <1>3 DEF WorkInv, Named

\* A build goes on; when it is gone it takes one entry with it.
LEMMA BuildWorkInv ==
  ASSUME WorkInv, NEW i \in DOMAIN build, BuildStep(i) \/ CancelBuild(i)
  PROVE  Named' /\ \A r \in Work : Accounted(r)'
  <1>1. PICK y \in BuildRec : build' = [build EXCEPT ![i] = y] /\ BuildMove(i, build[i], y)
    BY BuildChanges DEF WorkInv
  <1>2. /\ UNCHANGED <<set, await, adding>> /\ DOMAIN build' = DOMAIN build /\ build'[i] = y
        /\ \A j \in DOMAIN build : j # i => build'[j] = build[j]
    BY <1>1, BuildTypes DEF WorkInv
  <1>3. \A r : TryBuilds(r)' = TryBuilds(r) /\ PostBuilds(r)' = PostBuilds(r)
    BY <1>2 DEF TryBuilds, PostBuilds
  <1>4. Named'
    <2>1. \A j \in DOMAIN build : (NamedPost(j) => NamedPost(j)') /\ (NamedTry(j) => NamedTry(j)')
      BY <1>2, <1>3 DEF NamedPost, NamedTry, RevOf
    <2>. QED BY <1>2, <2>1 DEF WorkInv, Named
  <1>5. ASSUME NEW r \in Work PROVE Accounted(r)'
    <2>0. r \in Revs /\ r # NoRev /\ Named /\ Accounted(r)
      BY WorkAssumption DEF Revs, WorkInv
    <2>1. BeingAdded(r)' = BeingAdded(r) /\ BeingAdded(r) \in {0, 1} /\ Shown(r) \in {0, 1}
      BY <1>2 DEF BeingAdded, Shown
    <2>2. CASE i.rev # r
      <3>1. LiveOf(r)' = LiveOf(r) /\ status'[r] = status[r]
        BY <1>1, <1>2, <2>0, <2>2 DEF LiveOf, BuildMove, WorkInv, TryTypes
      <3>. QED BY <1>2, <1>3, <2>0, <2>1, <3>1 DEF Accounted, Shown
    <2>3. CASE i.rev = r /\ ~(build[i].phase = "set" /\ y.phase = "gone")
      <3>1. (y.phase = "gone") <=> (build[i].phase = "gone")
        BY <1>1, <2>3 DEF BuildMove, WorkInv, TryTypes, BuildRec
      <3>2. LiveOf(r)' = LiveOf(r)
        BY <1>2, <3>1 DEF LiveOf
      <3>3. i # NoBuild
        BY <2>0, <2>3 DEF NoBuild
      <3>4. status'[r] = status[r] \/ status'[r] = i
        BY <1>1, <2>0, <2>3 DEF BuildMove, WorkInv, TryTypes, BuildRec
      <3>5. Shown(r)' \in {0, 1} /\ (Shown(r) = 1 => Shown(r)' = 1)
        BY <1>2, <3>3, <3>4 DEF Shown
      <3>. QED BY <1>3, <2>0, <2>1, <3>2, <3>5, BuildsFinite DEF Accounted
    <2>4. CASE i.rev = r /\ build[i].phase = "set" /\ y.phase = "gone"
      <3>1. LiveOf(r)' = LiveOf(r) \ {i} /\ i \in LiveOf(r)
        BY <1>2, <2>4 DEF LiveOf
      <3>2. Cardinality(LiveOf(r)') = Cardinality(LiveOf(r)) - 1
        BY <2>0, <3>1, BuildsFinite, CardDrop
      <3>3. Shown(r)' \in {0, 1}
        BY DEF Shown
      <3>. QED BY <1>3, <2>0, <2>1, <3>2, <3>3, BuildsFinite DEF Accounted
    <2>. QED BY <2>2, <2>3, <2>4
  <1>. QED BY <1>4, <1>5

\* A try set adds at most one build of a revision.
TryAdded(r, x) ==
    /\ x \in DOMAIN build' \ DOMAIN build /\ x.set # PostSubmit /\ x.rev = r
    /\ build'[x].phase # "gone"

LEMMA TryAddedAccounted ==
  ASSUME Named, NEW r \in Work, Accounted(r), adding' = adding,
         DOMAIN build \subseteq DOMAIN build', \A i \in DOMAIN build : build'[i] = build[i],
         status'[r] = status[r] \/ status'[r] # NoBuild,
         \/ \A i \in DOMAIN build' \ DOMAIN build : i.rev # r
         \/ \E x : TryAdded(r, x) /\ \A i \in DOMAIN build' \ DOMAIN build : i.rev = r => i = x
  PROVE  Accounted(r)'
  <1>1. /\ BeingAdded(r)' = BeingAdded(r) /\ BeingAdded(r) \in {0, 1}
        /\ Shown(r) \in {0, 1} /\ Shown(r)' \in {0, 1} /\ (Shown(r) = 1 => Shown(r)' = 1)
    BY DEF BeingAdded, Shown
  <1>2. CASE \A i \in DOMAIN build' \ DOMAIN build : i.rev # r
    <2>1. LiveOf(r)' = LiveOf(r) /\ TryBuilds(r)' = TryBuilds(r)
      BY <1>2 DEF LiveOf, TryBuilds
    <2>. QED BY <1>1, <2>1, BuildsFinite DEF Accounted
  <1>3. ASSUME NEW x, TryAdded(r, x), \A i \in DOMAIN build' \ DOMAIN build : i.rev = r => i = x
        PROVE  Accounted(r)'
    <2>1. /\ LiveOf(r)' = LiveOf(r) \cup {x} /\ x \notin LiveOf(r)
          /\ TryBuilds(r)' = TryBuilds(r) \cup {x} /\ x \notin TryBuilds(r)
      BY <1>3 DEF LiveOf, TryBuilds, TryAdded
    <2>2. /\ Cardinality(LiveOf(r)') = Cardinality(LiveOf(r)) + 1
          /\ Cardinality(TryBuilds(r)') = Cardinality(TryBuilds(r)) + 1
      BY <2>1, BuildsFinite, CardAdd
    <2>. QED BY <1>1, <2>2, BuildsFinite DEF Accounted
  <1>. QED BY <1>2, <1>3

\* A step that adds builds leaves the names as they should be.
LEMMA NamedAdded ==
  ASSUME Named, SetsKept, IsFiniteSet(DOMAIN build'), DOMAIN build \subseteq DOMAIN build',
         \A i \in DOMAIN build' \ DOMAIN build : IF i.set = PostSubmit THEN NamedPost(i)' ELSE NamedTry(i)'
  PROVE  Named'
  <1>1. ASSUME NEW r PROVE Cardinality(PostBuilds(r)) \in Nat /\ Cardinality(PostBuilds(r)') \in Nat
                           /\ Cardinality(PostBuilds(r)) <= Cardinality(PostBuilds(r)')
    <2>1. PostBuilds(r) \subseteq PostBuilds(r)' /\ PostBuilds(r)' \subseteq DOMAIN build'
      BY DEF PostBuilds
    <2>2. IsFiniteSet(PostBuilds(r)')
      BY <2>1, FS_Subset
    <2>. QED BY <2>1, <2>2, FS_Subset, FS_CardinalityType
  <1>2. ASSUME NEW i \in DOMAIN build, i.set = PostSubmit PROVE NamedPost(i)'
    <2>1. i.n \in Nat /\ i.n <= Cardinality(PostBuilds(i.rev))
      BY <1>2 DEF Named, NamedPost
    <2>2. i.n <= Cardinality(PostBuilds(i.rev)')
      BY <1>1, <2>1
    <2>. QED BY <2>1, <2>2 DEF NamedPost, PostBuilds
  <1>3. ASSUME NEW i \in DOMAIN build, i.set # PostSubmit PROVE NamedTry(i)'
    BY <1>3, NamedTryKept DEF Named
  <1>. QED BY <1>2, <1>3 DEF Named

\* findWork starts the build it decided on.
LEMMA StartWorkInv ==
  ASSUME WorkInv, StartWork PROVE Named' /\ \A r \in Work : Accounted(r)'
  <1>. PICK x : x = BuildOf(PostSubmit, adding, Cardinality(PostBuilds(adding)) + 1)
    OBVIOUS
  <1>0. /\ adding \in Work /\ adding # NoRev /\ adding' = NoRev /\ UNCHANGED <<set, await>>
        /\ build' = With(build, x, [NewBuild EXCEPT !.phase = "running"])
        /\ status' = [status EXCEPT ![adding] = x]
    BY DEF StartWork, WorkInv, TryTypes
  <1>1. x.set = PostSubmit /\ x.rev = adding /\ x.n = Cardinality(PostBuilds(adding)) + 1 /\ x # NoBuild
    BY <1>0 DEF BuildOf, NoBuild
  <1>2. Named /\ \A r \in Work : Accounted(r)
    BY DEF WorkInv
  <1>3. x \notin DOMAIN build
    BY <1>1, <1>2, BuildsFinite DEF Named, NamedPost
  <1>4. /\ DOMAIN build' = DOMAIN build \cup {x} /\ build'[x].phase # "gone"
        /\ \A i \in DOMAIN build : build'[i] = build[i]
    <2>1. [NewBuild EXCEPT !.phase = "running"].phase # "gone"
      BY DEF NewBuild
    <2>. QED BY <1>0, <1>3, <2>1 DEF With
  <1>5. /\ \A r : r # adding => PostBuilds(r)' = PostBuilds(r) /\ LiveOf(r)' = LiveOf(r)
        /\ \A r : TryBuilds(r)' = TryBuilds(r)
    BY <1>1, <1>4 DEF PostBuilds, LiveOf, TryBuilds
  <1>6. PICK a : a = adding
    OBVIOUS
  <1>7. /\ PostBuilds(a)' = PostBuilds(a) \cup {x} /\ x \notin PostBuilds(a)
        /\ LiveOf(a)' = LiveOf(a) \cup {x} /\ x \notin LiveOf(a)
    BY <1>1, <1>3, <1>4, <1>6 DEF PostBuilds, LiveOf
  <1>8. /\ Cardinality(PostBuilds(a)') = Cardinality(PostBuilds(a)) + 1
        /\ Cardinality(LiveOf(a)') = Cardinality(LiveOf(a)) + 1
    BY <1>2, <1>7, BuildsFinite, CardAdd
  <1>9. Named'
    <2>1. SetsKept
      BY <1>0, SetNumber DEF SetsKept, WorkInv, TryTypes, AwaitRec
    <2>2. IsFiniteSet(DOMAIN build')
      BY <1>2, <1>4, FS_AddElement DEF Named
    <2>3. NamedPost(x)'
      <3>1. x.n \in Nat /\ x.n <= Cardinality(PostBuilds(x.rev)')
        <4>1. Cardinality(PostBuilds(a)) \in Nat /\ x.rev = a /\ x.n = Cardinality(PostBuilds(a)) + 1
          BY <1>1, <1>2, <1>6, BuildsFinite
        <4>2. PostBuilds(x.rev)' = PostBuilds(a)'
          BY <4>1 DEF PostBuilds
        <4>. QED BY <1>8, <4>1, <4>2
      <3>. QED BY <3>1 DEF NamedPost, PostBuilds
    <2>. QED BY <1>1, <1>2, <1>4, <2>1, <2>2, <2>3, NamedAdded
  <1>10. ASSUME NEW r \in Work PROVE Accounted(r)'
    <2>0. r \in Revs /\ r # NoRev /\ Accounted(r) /\ BeingAdded(r)' = 0
      BY <1>0, <1>2, WorkAssumption DEF Revs, BeingAdded
    <2>1. CASE r # a
      <3>1. status'[r] = status[r] /\ LiveOf(r)' = LiveOf(r) /\ TryBuilds(r)' = TryBuilds(r)
        BY <1>0, <1>5, <1>6, <2>0, <2>1 DEF WorkInv, TryTypes
      <3>2. BeingAdded(r) = 0 /\ Shown(r)' = Shown(r)
        BY <1>0, <1>6, <2>0, <2>1, <3>1 DEF BeingAdded, Shown
      <3>. QED BY <2>0, <3>1, <3>2 DEF Accounted
    <2>2. CASE r = a
      <3>1. status'[r] = x
        BY <1>0, <1>6, <2>0, <2>2 DEF WorkInv, TryTypes
      <3>2. BeingAdded(r) = 1 /\ Shown(r) = 1 /\ Shown(r)' = 1
        BY <1>0, <1>1, <1>6, <2>2, <3>1 DEF BeingAdded, Shown
      <3>. QED BY <1>2, <1>5, <1>8, <2>0, <2>2, <3>2, BuildsFinite DEF Accounted
    <2>. QED BY <2>1, <2>2
  <1>. QED BY <1>9, <1>10

\* findWork decides on a revision that shows nothing.
LEMMA AddWorkInv ==
  ASSUME WorkInv, NEW q \in todo, AddWork(q) PROVE Named' /\ \A r \in Work : Accounted(r)'
  <1>0. /\ UNCHANGED <<set, await, build, status>> /\ adding = NoRev /\ q \in Work
        /\ adding' = NoRev \/ (adding' = q /\ status[q] = NoBuild)
    BY DEF AddWork, IsBuilding, WorkInv, TryTypes
  <1>1. \A r : /\ LiveOf(r)' = LiveOf(r) /\ TryBuilds(r)' = TryBuilds(r)
              /\ PostBuilds(r)' = PostBuilds(r)
    BY <1>0 DEF LiveOf, TryBuilds, PostBuilds
  <1>2. Named'
    <2>1. \A i \in DOMAIN build : (NamedPost(i) => NamedPost(i)') /\ (NamedTry(i) => NamedTry(i)')
      BY <1>0, <1>1 DEF NamedPost, NamedTry, RevOf
    <2>. QED BY <1>0, <2>1 DEF WorkInv, Named
  <1>3. ASSUME NEW r \in Work PROVE Accounted(r)'
    <2>0. r # NoRev /\ Accounted(r) /\ Named /\ BeingAdded(r) = 0
      BY <1>0, WorkAssumption DEF WorkInv, BeingAdded
    <2>1. CASE adding' # r
      <3>1. BeingAdded(r)' = 0 /\ Shown(r)' = Shown(r)
        BY <1>0, <2>0, <2>1 DEF BeingAdded, Shown
      <3>. QED BY <1>1, <2>0, <3>1 DEF Accounted
    <2>2. CASE adding' = r
      <3>1. BeingAdded(r)' = 1 /\ Shown(r)' = 1 /\ Shown(r) = 0
        BY <1>0, <2>0, <2>2 DEF BeingAdded, Shown
      <3>. QED BY <1>1, <2>0, <3>1, BuildsFinite DEF Accounted
    <2>. QED BY <2>1, <2>2
  <1>. QED BY <1>2, <1>3

\* A new try set builds each of its revisions once.
LEMMA TrySetWorkInv ==
  ASSUME WorkInv, NEW k \in Key, FindTryWork(k) PROVE Named' /\ \A r \in Work : Accounted(r)'
  <1>. PICK s : s = Cardinality(DOMAIN set) + 1
    OBVIOUS
  <1>. DEFINE New == {BuildOf(s, <<k, b>>, 1) : b \in Builder}
  <1>1. /\ set' = With(set, s, NewTrySet(k))
        /\ await' = [x \in DOMAIN await |-> IF x[1] = s THEN NewAwait ELSE await[x]]
        /\ build' = [i \in DOMAIN build \cup New |-> IF i \in DOMAIN build THEN build[i] ELSE NewBuild]
        /\ status' = [r \in Revs |-> IF r \in {k} \X Builder THEN BuildOf(s, r, 1) ELSE status[r]]
        /\ adding' = adding /\ Cardinality(DOMAIN set) < MaxSets
    BY DEF FindTryWork, CreateTrySet, work
  <1>2. DOMAIN set' = DOMAIN set \cup {s}
    BY <1>1, WithFacts
  <1>3. s \in SetIds \ DOMAIN set /\ s # 0
    BY <1>1, <1>2, NumberedNext DEF WorkInv, TryTypes, SetIds
  <1>4. Named /\ \A r \in Work : Accounted(r)
    BY DEF WorkInv
  <1>5. IsFiniteSet(New)
    <2>. DEFINE f == [b \in Builder |-> BuildOf(s, <<k, b>>, 1)]
    <2>1. f \in Surjection(Builder, New)
      BY DEF Surjection
    <2>. QED BY <2>1, BuilderAssumption, FS_Surjection
  <1>6. \A i \in New : /\ i.set = s /\ i.n = 1 /\ i.set # PostSubmit /\ i \notin DOMAIN build
                      /\ \E b \in Builder : i = BuildOf(s, <<k, b>>, 1) /\ i.rev = <<k, b>>
    BY <1>3, <1>4 DEF BuildOf, PostSubmit, Named, NamedTry
  <1>7. \A i \in New, j \in New : i.rev = j.rev => i = j
    BY DEF BuildOf
  <1>. HIDE DEF New
  <1>8. /\ DOMAIN build' = DOMAIN build \cup New /\ DOMAIN build' \ DOMAIN build = New
        /\ \A i \in DOMAIN build : build'[i] = build[i]
        /\ \A i \in New : build'[i].phase # "gone"
    BY <1>1, <1>6 DEF NewBuild
  <1>9. set'[s].key = k /\ \A t \in DOMAIN set : set'[t] = set[t]
    <2>1. NewTrySet(k).key = k
      BY DEF NewTrySet
    <2>2. set'[s] = NewTrySet(k) /\ \A t \in DOMAIN set : t # s => set'[t] = set[t]
      BY <1>1 DEF With
    <2>. QED BY <1>3, <2>1, <2>2
  <1>10. /\ \A b \in Builder : await'[<<s, b>>].n = 1
         /\ \A t \in DOMAIN set, b \in Builder : await'[<<t, b>>] = await[<<t, b>>]
    BY <1>1, <1>3, SetNumber DEF WorkInv, TryTypes, NewAwait
  <1>11. Named'
    <2>1. SetsKept
      BY <1>2, <1>9, <1>10, SetNumber DEF SetsKept, WorkInv, TryTypes, AwaitRec
    <2>2. IsFiniteSet(DOMAIN build')
      BY <1>4, <1>5, <1>8, FS_Union DEF Named
    <2>3. ASSUME NEW i \in New PROVE NamedTry(i)'
      <3>1. PICK b \in Builder : i.rev = <<k, b>> /\ i.set = s /\ i.n = 1
        BY <1>6
      <3>. QED BY <1>2, <1>9, <1>10, <3>1 DEF NamedTry, RevOf
    <2>. QED BY <1>4, <1>6, <1>8, <2>1, <2>2, <2>3, NamedAdded
  <1>12. ASSUME NEW r \in Work PROVE Accounted(r)'
    <2>0. r \in Revs /\ r # NoRev
      BY WorkAssumption DEF Revs
    <2>1. status'[r] = status[r] \/ status'[r] # NoBuild
      BY <1>1, <1>3, <2>0 DEF BuildOf, NoBuild
    <2>2. \/ \A i \in DOMAIN build' \ DOMAIN build : i.rev # r
          \/ \E x : TryAdded(r, x) /\ \A i \in DOMAIN build' \ DOMAIN build : i.rev = r => i = x
      <3>1. CASE \A i \in New : i.rev # r
        BY <1>8, <3>1
      <3>2. ASSUME NEW x \in New, x.rev = r
            PROVE  TryAdded(r, x) /\ \A i \in DOMAIN build' \ DOMAIN build : i.rev = r => i = x
        BY <1>6, <1>7, <1>8, <3>2 DEF TryAdded
      <3>. QED BY <3>1, <3>2
    <2>. QED BY <1>1, <1>4, <1>8, <2>1, <2>2, TryAddedAccounted
  <1>. QED BY <1>11, <1>12

\* awaitTryBuild starts another build of the same revision.
LEMMA RestartWorkInv ==
  ASSUME WorkInv, NEW s \in DOMAIN set, NEW b \in Builder, AwaitRestarts(s, b)
  PROVE  Named' /\ \A r \in Work : Accounted(r)'
  <1>. PICK x : x = BuildOf(s, RevOf(s, b), await[<<s, b>>].n + 1)
    OBVIOUS
  <1>0. await[<<s, b>>] \in AwaitRec /\ s # 0 /\ <<s, b>> \in DOMAIN await
    BY SetNumber DEF WorkInv, TryTypes
  <1>1. /\ await' = [await EXCEPT ![<<s, b>>].pc = "install", ![<<s, b>>].n = @ + 1]
        /\ build' = With(build, x, NewBuild) /\ UNCHANGED <<set, status, adding>>
    BY DEF AwaitRestarts, work
  <1>2. /\ x.set = s /\ x.rev = RevOf(s, b) /\ x.n = await[<<s, b>>].n + 1 /\ x.n \in Nat
        /\ x.set # PostSubmit
    BY <1>0 DEF BuildOf, AwaitRec, PostSubmit
  <1>3. /\ await'[<<s, b>>].n = await[<<s, b>>].n + 1
        /\ \A t \in DOMAIN set, c \in Builder : <<t, c>> # <<s, b>> => await'[<<t, c>>] = await[<<t, c>>]
    <2>1. await' = [await EXCEPT ![<<s, b>>] = [await[<<s, b>>] EXCEPT !.pc = "install",
                                                                      !.n = await[<<s, b>>].n + 1]]
      BY <1>0, <1>1 DEF WorkInv, TryTypes
    <2>2. [await[<<s, b>>] EXCEPT !.pc = "install", !.n = await[<<s, b>>].n + 1].n = await[<<s, b>>].n + 1
      BY <1>0 DEF AwaitRec
    <2>3. \A t \in DOMAIN set, c \in Builder : <<t, c>> \in DOMAIN await
      BY SetNumber DEF WorkInv, TryTypes
    <2>. QED BY <1>0, <2>1, <2>2, <2>3
  <1>4. Named /\ \A r \in Work : Accounted(r)
    BY DEF WorkInv
  <1>5. x \notin DOMAIN build
    <2>. SUFFICES ASSUME x \in DOMAIN build PROVE FALSE
      OBVIOUS
    <2>1. NamedTry(x)
      BY <1>2, <1>4 DEF Named
    <2>2. PICK c \in Builder : x.rev = RevOf(x.set, c) /\ x.n <= await[<<x.set, c>>].n
      BY <2>1 DEF NamedTry
    <2>3. c = b
      BY <1>2, <2>2 DEF RevOf
    <2>. QED BY <1>0, <1>2, <2>2, <2>3 DEF AwaitRec
  <1>6. /\ DOMAIN build' = DOMAIN build \cup {x} /\ build'[x].phase # "gone"
        /\ \A i \in DOMAIN build : build'[i] = build[i]
    <2>1. NewBuild.phase # "gone"
      BY DEF NewBuild
    <2>. QED BY <1>1, <1>5, <2>1 DEF With
  <1>7. Named'
    <2>1. SetsKept
      <3>1. ASSUME NEW t \in DOMAIN set, NEW c \in Builder
            PROVE  /\ await[<<t, c>>].n \in Nat /\ await'[<<t, c>>].n \in Nat
                   /\ await[<<t, c>>].n <= await'[<<t, c>>].n
        <4>1. await[<<t, c>>].n \in Nat
          BY SetNumber DEF WorkInv, TryTypes, AwaitRec
        <4>. QED BY <1>3, <4>1
      <3>. QED BY <1>1, <3>1 DEF SetsKept
    <2>2. IsFiniteSet(DOMAIN build')
      BY <1>4, <1>6, FS_AddElement DEF Named
    <2>3. NamedTry(x)'
      <3>1. await[<<s, b>>].n \in Nat
        BY <1>0 DEF AwaitRec
      <3>2. x.rev = <<set'[x.set].key, b>> /\ x.n <= await'[<<x.set, b>>].n
        <4>1. x.rev = <<set'[s].key, b>>
          BY <1>1, <1>2 DEF RevOf
        <4>2. x.n <= await'[<<s, b>>].n
          BY <1>2, <1>3, <3>1
        <4>. QED BY <1>2, <4>1, <4>2
      <3>. QED BY <1>1, <1>2, <3>2 DEF NamedTry, RevOf
    <2>. QED BY <1>2, <1>4, <1>6, <2>1, <2>2, <2>3, NamedAdded
  <1>8. ASSUME NEW r \in Work PROVE Accounted(r)'
    <2>1. \/ \A i \in DOMAIN build' \ DOMAIN build : i.rev # r
          \/ \E y : TryAdded(r, y) /\ \A i \in DOMAIN build' \ DOMAIN build : i.rev = r => i = y
      BY <1>2, <1>5, <1>6 DEF TryAdded
    <2>. QED BY <1>1, <1>4, <1>6, <2>1, TryAddedAccounted
  <1>. QED BY <1>7, <1>8

\* Other steps of awaitTryBuild, and cancelBuilds.
LEMMA AwaitWorkInv ==
  ASSUME WorkInv, NEW s \in DOMAIN set,
         CancelBuilds(s) \/ \E b \in Builder : AwaitStep(s, b) /\ ~AwaitRestarts(s, b)
  PROVE  Named' /\ \A r \in Work : Accounted(r)'
  <1>1. UNCHANGED <<build, status, adding>>
    BY DEF CancelBuilds, AwaitStep, AwaitGivesUp, AwaitRetries, AwaitWakes, AwaitInstalls,
           NoteBuildComplete, UploadFails, UploadLog, Post, PostFails, work
  <1>0. set[s] \in SetRec
    BY DEF WorkInv, TryTypes
  <1>2. \A t \in DOMAIN set : t \in DOMAIN set' /\ set'[t].key = set[t].key
    <2>1. CASE set' = set
      BY <2>1
    <2>2. CASE CancelBuilds(s) \/ \E b \in Builder : AwaitInstalls(s, b)
      BY <2>2, SetTypes DEF WorkInv
    <2>3. ASSUME NEW b \in Builder, NoteBuildComplete(s, b)
          PROVE  \A t \in DOMAIN set : t \in DOMAIN set' /\ set'[t].key = set[t].key
      <3>1. \E v : set' = [set EXCEPT ![s].remain = @ - 1, ![s].failed = v]
        BY <2>3 DEF NoteBuildComplete
      <3>. QED BY <1>0, <3>1 DEF WorkInv, TryTypes, SetRec
    <2>. QED BY <2>1, <2>2, <2>3
             DEF AwaitStep, AwaitGivesUp, AwaitRetries, AwaitWakes, UploadFails, UploadLog, Post, PostFails
  <1>3. \A t \in DOMAIN set, c \in Builder : await[<<t, c>>].n \in Nat /\ await'[<<t, c>>].n = await[<<t, c>>].n
    <2>1. \A t \in DOMAIN set, c \in Builder : <<t, c>> \in DOMAIN await /\ await[<<t, c>>] \in AwaitRec
      BY SetNumber DEF WorkInv, TryTypes
    <2>2. CASE await' = await
      BY <2>1, <2>2 DEF AwaitRec
    <2>3. ASSUME NEW b \in Builder, NEW v, await' = [await EXCEPT ![<<s, b>>].pc = v]
          PROVE  \A t \in DOMAIN set, c \in Builder :
                    await[<<t, c>>].n \in Nat /\ await'[<<t, c>>].n = await[<<t, c>>].n
      BY <2>1, <2>3 DEF AwaitRec
    <2>4. ASSUME NEW b \in Builder, NoteBuildComplete(s, b)
          PROVE  \A t \in DOMAIN set, c \in Builder :
                    await[<<t, c>>].n \in Nat /\ await'[<<t, c>>].n = await[<<t, c>>].n
      <3>1. \E u, v, w : await' = [await EXCEPT ![<<s, b>>].pc = u, ![<<s, b>>].remain = v,
                                                ![<<s, b>>].numFail = w]
        BY <2>4 DEF NoteBuildComplete
      <3>2. ASSUME NEW t \in DOMAIN set, NEW c \in Builder PROVE await'[<<t, c>>].n = await[<<t, c>>].n
        BY <2>1, <3>1 DEF AwaitRec
      <3>. QED BY <2>1, <3>2 DEF AwaitRec
    <2>5. ASSUME NEW b \in Builder, AwaitStep(s, b), ~AwaitRestarts(s, b), ~NoteBuildComplete(s, b)
          PROVE  \E v : await' = [await EXCEPT ![<<s, b>>].pc = v]
      BY <2>5 DEF AwaitStep, AwaitGivesUp, AwaitRetries, AwaitWakes, AwaitInstalls,
                  UploadFails, UploadLog, Post, PostFails, Step
    <2>6. ASSUME CancelBuilds(s) PROVE await' = await
      BY <2>6 DEF CancelBuilds
    <2>. QED BY <2>2, <2>3, <2>4, <2>5, <2>6
  <1>4. SetsKept
    BY <1>2, <1>3 DEF SetsKept
  <1>. QED BY <1>1, <1>4, WorkKept

LEMMA WorkNextInv == ASSUME WorkInv, [TryNext]_tryVars PROVE WorkInv'
  <1>1. TryTypes'
    BY TryNextTypes DEF WorkInv
  <1>2. ASSUME UNCHANGED <<set, await, build, status, adding>>
        PROVE  Named' /\ \A r \in Work : Accounted(r)'
    <2>1. SetsKept
      BY <1>2, SetNumber DEF SetsKept, WorkInv, TryTypes, AwaitRec
    <2>. QED BY <1>2, <2>1, WorkKept
  <1>3. ASSUME UNCHANGED tryVars \/ FindWork \/ \E k \in Key : TryUnwanted(k)
        PROVE  Named' /\ \A r \in Work : Accounted(r)'
    BY <1>2, <1>3 DEF tryVars, FindWork, TryUnwanted, work
  <1>4. Named' /\ \A r \in Work : Accounted(r)'
    BY <1>3, BuildWorkInv, StartWorkInv, AddWorkInv, TrySetWorkInv, RestartWorkInv, AwaitWorkInv
       DEF TryNext, UserStep, GoroutineStep, FindStep
  <1>. QED BY <1>1, <1>4 DEF WorkInv

LEMMA WorkInitInv == TryInit => WorkInv
  <1>. SUFFICES ASSUME TryInit PROVE WorkInv
    OBVIOUS
  <1>1. DOMAIN build = {} /\ IsFiniteSet(DOMAIN build)
    BY FS_EmptySet DEF TryInit
  <1>2. ASSUME NEW r \in Work PROVE Accounted(r)
    <2>1. LiveOf(r) = {} /\ TryBuilds(r) = {} /\ r # NoRev
      BY <1>1, WorkAssumption DEF LiveOf, TryBuilds
    <2>2. BeingAdded(r) = 0 /\ Shown(r) \in {0, 1}
      BY <2>1 DEF BeingAdded, Shown, TryInit
    <2>. QED BY <2>1, <2>2, FS_EmptySet DEF Accounted
  <1>. QED BY <1>1, <1>2, TryInitTypes DEF WorkInv, Named

\* The inductive invariant about the builds of a revision.
THEOREM WorkInvariant == TrySpec => []WorkInv
BY WorkInitInv, WorkNextInv, PTL DEF TrySpec

\* However findWork, the try sets and their builds interleave over status, a
\* revision of the dashboard is in at most one post-submit build at a time, and
\* one more for each build that try sets made of it: for any number of sets,
\* builders and revisions, shared with try sets or not.
THEOREM OneBuildAtATime == TrySpec => []OneBuildPerWork
  <1>1. ASSUME WorkInv PROVE OneBuildPerWork
    <2>. SUFFICES ASSUME NEW r \in Work
                  PROVE  Cardinality(NotGone(PostBuilds(r))) <= 1 + Cardinality(TryBuilds(r))
      BY DEF OneBuildPerWork
    <2>1. Named /\ Accounted(r)
      BY <1>1 DEF WorkInv
    <2>2. NotGone(PostBuilds(r)) \subseteq LiveOf(r)
      BY DEF NotGone, PostBuilds, LiveOf
    <2>3. /\ Cardinality(NotGone(PostBuilds(r))) <= Cardinality(LiveOf(r))
          /\ Cardinality(NotGone(PostBuilds(r))) \in Nat
      BY <2>1, <2>2, BuildsFinite, FS_Subset, FS_CardinalityType
    <2>4. BeingAdded(r) \in {0, 1} /\ Shown(r) \in {0, 1}
      BY DEF BeingAdded, Shown
    <2>. QED BY <2>1, <2>3, <2>4, BuildsFinite DEF Accounted
  <1>. QED BY <1>1, WorkInvariant, PTL

-----------------------------------------------------------------------------
(* Votes *)

\* The result of a builder's last build, once its end is in the log.
Good(s, b) == build[CurrentBuild(s, b)].event /\ build[CurrentBuild(s, b)].good
Bad(s, b) == build[CurrentBuild(s, b)].event /\ ~build[CurrentBuild(s, b)].good

\* The goroutine of builder b still has something to say, or starts no more builds.
Reporting(s, b) == await[<<s, b>>].pc \in {"upload", "post"}
Settled(s, b) == await[<<s, b>>].pc \in {"upload", "post", "quit"}

\* What is known of a build: its context is done too early only if it was
\* cancelled, and it is cancelled only after its set was marked.
CanceledSet(i) == i.set \in DOMAIN set /\ set[i.set].canceled
Life(i) ==
    LET x == build[i]
    IN  /\ x.event => x.phase \in {"over", "set", "gone"}
        /\ x.good => x.event
        /\ x.ctxDone => x.canceled \/ x.phase \in {"set", "gone"}
        /\ x.succeeded => x.phase \in {"set", "gone"} /\ x.good
        /\ x.phase \in {"set", "gone"} /\ ~x.succeeded => x.canceled \/ ~x.good
        /\ x.canceled => CanceledSet(i)
Lives == /\ \A i \in DOMAIN build : Life(i)
         /\ \A i \in closing : CanceledSet(i)

\* The builders in C have been counted by noteBuildComplete.  Only one of them
\* saw the count reach zero, and nobody has voted before it does.
Tallied(s, C) ==
    /\ set[s].remain + Cardinality(C) = Cardinality(Builder)
    /\ set[s].failed \subseteq C
    /\ \A b \in Builder : CurrentBuild(s, b) \in DOMAIN build
    /\ \A b \in C : /\ Settled(s, b)
                    /\ Good(s, b) \/ Bad(s, b)
                    /\ b \notin set[s].failed => Good(s, b)
                    /\ b \in set[s].failed /\ ~set[s].canceled => Bad(s, b)
Reports(s, C) ==
    \A b \in Builder : Reporting(s, b) =>
        /\ b \in C
        /\ await[<<s, b>>].numFail # 0 => \E d \in C : Bad(s, d)
        /\ IsFinal(s, b) =>
             /\ C = Builder /\ review[s].votes = 0 /\ review[s].verdict = None
             /\ await[<<s, b>>].numFail = 0 => \A d \in C : Good(s, d)
             /\ \A d \in Builder : Reporting(s, d) /\ IsFinal(s, d) => d = b
Votes(s, C) ==
    /\ review[s].votes \in {0, 1}
    /\ review[s].verdict # None => review[s].votes = 1
    /\ review[s].votes = 1 => C = Builder
    /\ review[s].verdict = "happy" => \A d \in C : Good(s, d)
    /\ review[s].verdict = "failed" => \E d \in C : Bad(s, d)
Tally(s, C) == Tallied(s, C) /\ Reports(s, C) /\ Votes(s, C)

VoteParts ==
    /\ Lives
    /\ \A s \in SetIds \ DOMAIN set : review[s].votes = 0 /\ review[s].verdict = None
    /\ \A s \in DOMAIN set : \E C \in SUBSET Builder : Tally(s, C)
VoteInv == TryTypes /\ VoteParts

\* A step that changes nothing of what is known about the votes for set s.
Quiet(s) ==
    /\ s \in DOMAIN set'
    /\ set'[s].remain = set[s].remain /\ set'[s].failed = set[s].failed
    /\ set[s].canceled => set'[s].canceled
    /\ review'[s].votes = review[s].votes /\ review'[s].verdict = review[s].verdict
    /\ \A b \in Builder :
         /\ CurrentBuild(s, b)' \in DOMAIN build'
         /\ Reporting(s, b)' => Reporting(s, b)
         /\ Settled(s, b) => Settled(s, b)'
         /\ Settled(s, b) /\ Good(s, b) => Good(s, b)'
         /\ Settled(s, b) /\ Bad(s, b) => Bad(s, b)'
         /\ await'[<<s, b>>].remain = await[<<s, b>>].remain
         /\ await'[<<s, b>>].numFail = await[<<s, b>>].numFail

LEMMA QuietTally == ASSUME NEW s, NEW C \in SUBSET Builder, Tally(s, C), Quiet(s) PROVE Tally(s, C)'
  <1>1. \A b \in Builder : /\ (Reporting(s, b)' => Reporting(s, b)) /\ (IsFinal(s, b)' <=> IsFinal(s, b))
                           /\ await'[<<s, b>>].numFail = await[<<s, b>>].numFail
    BY DEF Quiet, IsFinal
  <1>2. \A b \in C : /\ Settled(s, b)' /\ (Good(s, b) \/ Bad(s, b))
                     /\ (Good(s, b) => Good(s, b)') /\ (Bad(s, b) => Bad(s, b)')
    BY DEF Tally, Tallied, Quiet
  <1>3. Tallied(s, C)'
    <2>1. /\ set'[s].remain = set[s].remain /\ set'[s].failed = set[s].failed
          /\ (set[s].canceled => set'[s].canceled)
          /\ \A b \in Builder : CurrentBuild(s, b)' \in DOMAIN build'
      BY DEF Quiet
    <2>. QED BY <1>2, <2>1 DEF Tally, Tallied
  <1>4. /\ review'[s].votes = review[s].votes /\ review'[s].verdict = review[s].verdict
    BY DEF Quiet
  <1>5. Reports(s, C)'
    <2>. SUFFICES ASSUME NEW b \in Builder, Reporting(s, b)'
                  PROVE  /\ b \in C
                         /\ await'[<<s, b>>].numFail # 0 => \E d \in C : Bad(s, d)'
                         /\ IsFinal(s, b)' =>
                              /\ C = Builder /\ review'[s].votes = 0 /\ review'[s].verdict = None
                              /\ await'[<<s, b>>].numFail = 0 => \A d \in C : Good(s, d)'
                              /\ \A d \in Builder : Reporting(s, d)' /\ IsFinal(s, d)' => d = b
      BY DEF Reports
    <2>1. /\ b \in C
          /\ await[<<s, b>>].numFail # 0 => \E d \in C : Bad(s, d)
          /\ IsFinal(s, b) =>
               /\ C = Builder /\ review[s].votes = 0 /\ review[s].verdict = None
               /\ await[<<s, b>>].numFail = 0 => \A d \in C : Good(s, d)
               /\ \A d \in Builder : Reporting(s, d) /\ IsFinal(s, d) => d = b
      BY <1>1 DEF Tally, Reports
    <2>. QED BY <1>1, <1>2, <1>4, <2>1
  <1>6. Votes(s, C)'
    BY <1>2, <1>4 DEF Tally, Votes
  <1>. QED BY <1>3, <1>5, <1>6 DEF Tally

\* What a step of a build does to it keeps what is known of it.
LEMMA BuildLives ==
  ASSUME TryTypes, Lives, NEW i \in DOMAIN build, BuildStep(i) \/ CancelBuild(i)
  PROVE  Lives' /\ \A j \in DOMAIN build : /\ j \in DOMAIN build'
                                           /\ build[j].event => /\ build'[j].event
                                                                /\ build'[j].good = build[j].good
  <1>1. PICK y \in BuildRec : build' = [build EXCEPT ![i] = y] /\ BuildMove(i, build[i], y)
    BY BuildChanges
  <1>2. /\ set' = set /\ DOMAIN build' = DOMAIN build /\ build'[i] = y
        /\ \A j \in DOMAIN build : j # i => build'[j] = build[j]
    BY <1>1, BuildTypes
  <1>3. closing' \subseteq closing
    BY DEF BuildStep, CancelBuild, Start, SetDone, MarkDone, BuildEnds, BuildBreaks, Returns
  <1>4. \A j : CanceledSet(j) = CanceledSet(j)'
    BY <1>2 DEF CanceledSet
  <1>5. build[i] \in BuildRec /\ Life(i)
    BY DEF TryTypes, Lives
  <1>6. Life(i)' /\ (build[i].event => y.event /\ y.good = build[i].good)
    <2>1. i \in closing => CanceledSet(i)
      BY DEF Lives
    <2>. QED BY <1>1, <1>2, <1>4, <1>5, <2>1 DEF Life, BuildMove, BuildRec
  <1>7. \A j \in DOMAIN build : j # i => Life(j)'
    BY <1>2, <1>4 DEF Lives, Life
  <1>8. \A j \in closing' : CanceledSet(j)'
    BY <1>3, <1>4 DEF Lives
  <1>. QED BY <1>2, <1>6, <1>7, <1>8 DEF Lives

\* A step in which set s counts and votes nothing and starts no build.
Untouched(s) ==
    /\ s \in DOMAIN set' /\ set'[s].key = set[s].key
    /\ set'[s].remain = set[s].remain /\ set'[s].failed = set[s].failed
    /\ set[s].canceled => set'[s].canceled
    /\ review'[s].votes = review[s].votes /\ review'[s].verdict = review[s].verdict
    /\ \A i \in DOMAIN build : i.set = s =>
         /\ i \in DOMAIN build'
         /\ build[i].event => build'[i].event /\ build'[i].good = build[i].good
    /\ \A b \in Builder :
         /\ await'[<<s, b>>].n = await[<<s, b>>].n
         /\ await'[<<s, b>>].remain = await[<<s, b>>].remain
         /\ await'[<<s, b>>].numFail = await[<<s, b>>].numFail
         /\ Reporting(s, b)' => Reporting(s, b)
         /\ Settled(s, b) => Settled(s, b)'

LEMMA UntouchedQuiet ==
  ASSUME NEW s \in DOMAIN set, NEW C \in SUBSET Builder, Tally(s, C), Untouched(s)
  PROVE  Quiet(s)
  <1>1. ASSUME NEW b \in Builder
        PROVE  /\ CurrentBuild(s, b)' \in DOMAIN build'
               /\ (Good(s, b) => Good(s, b)') /\ (Bad(s, b) => Bad(s, b)')
    <2>1. PICK i : i = CurrentBuild(s, b)
      OBVIOUS
    <2>2. CurrentBuild(s, b)' = i
      BY <2>1 DEF CurrentBuild, RevOf, BuildOf, Untouched
    <2>3. i \in DOMAIN build /\ i.set = s
      BY <2>1 DEF Tally, Tallied, CurrentBuild, BuildOf
    <2>4. i \in DOMAIN build' /\ (build[i].event => build'[i].event /\ build'[i].good = build[i].good)
      BY <2>3 DEF Untouched
    <2>. QED BY <2>1, <2>2, <2>4 DEF Good, Bad
  <1>. QED BY <1>1 DEF Quiet, Untouched

LEMMA SameUntouched ==
  ASSUME NEW s \in DOMAIN set, UNCHANGED <<set, await, review>>,
         \A i \in DOMAIN build : i.set = s =>
            /\ i \in DOMAIN build'
            /\ build[i].event => build'[i].event /\ build'[i].good = build[i].good
  PROVE  Untouched(s)
BY DEF Untouched, Reporting, Settled

\* Steps of try sets in which nothing is counted and nothing is voted.
LEMMA SetUntouched ==
  ASSUME TryTypes, NEW s \in DOMAIN set, NEW t \in DOMAIN set,
         CancelBuilds(s) \/ \E b \in Builder : AwaitInstalls(s, b)
  PROVE  Untouched(t)
  <1>1. /\ UNCHANGED <<build, review>> /\ DOMAIN set' = DOMAIN set
        /\ set'[t].key = set[t].key /\ set'[t].remain = set[t].remain
        /\ set'[t].failed = set[t].failed /\ (set[t].canceled => set'[t].canceled)
    BY SetTypes
  <1>2. CASE CancelBuilds(s)
    <2>1. await' = await
      BY <1>2 DEF CancelBuilds
    <2>. QED BY <1>1, <2>1 DEF Untouched, Reporting, Settled
  <1>3. ASSUME NEW b \in Builder, AwaitInstalls(s, b) PROVE Untouched(t)
    <2>1. await' = [await EXCEPT ![<<s, b>>].pc = "wait"] /\ await[<<s, b>>].pc = "install"
      BY <1>3 DEF AwaitInstalls, Step
    <2>2. ASSUME NEW c \in Builder
          PROVE  /\ await'[<<t, c>>].n = await[<<t, c>>].n
                 /\ await'[<<t, c>>].remain = await[<<t, c>>].remain
                 /\ await'[<<t, c>>].numFail = await[<<t, c>>].numFail
                 /\ (Reporting(t, c)' => Reporting(t, c)) /\ (Settled(t, c) => Settled(t, c)')
      <3>1. t \in SetIds /\ await[<<t, c>>] \in AwaitRec
        BY SetNumber DEF TryTypes
      <3>. QED BY <2>1, <3>1 DEF TryTypes, AwaitRec, Reporting, Settled
    <2>. QED BY <1>1, <2>2 DEF Untouched
  <1>. QED BY <1>2, <1>3

LEMMA MoveUntouched ==
  ASSUME TryTypes, NEW s \in DOMAIN set, NEW b \in Builder, NEW t \in DOMAIN set,
         NEW step \in Pcs, await' = [await EXCEPT ![<<s, b>>].pc = step], UNCHANGED <<set, build>>,
         step \in {"upload", "post"} => Reporting(s, b),
         Settled(s, b) => step \in {"upload", "post", "quit"},
         review'[t].votes = review[t].votes, review'[t].verdict = review[t].verdict
  PROVE  Untouched(t)
  <1>1. ASSUME NEW c \in Builder
        PROVE  /\ await'[<<t, c>>].n = await[<<t, c>>].n
               /\ await'[<<t, c>>].remain = await[<<t, c>>].remain
               /\ await'[<<t, c>>].numFail = await[<<t, c>>].numFail
               /\ (Reporting(t, c)' => Reporting(t, c)) /\ (Settled(t, c) => Settled(t, c)')
    <2>1. t \in SetIds /\ await[<<t, c>>] \in AwaitRec
      BY SetNumber DEF TryTypes
    <2>2. CASE <<t, c>> = <<s, b>>
      BY <2>1, <2>2 DEF TryTypes, AwaitRec, Reporting, Settled
    <2>3. CASE <<t, c>> # <<s, b>>
      BY <2>1, <2>3 DEF TryTypes, Reporting, Settled
    <2>. QED BY <2>2, <2>3
  <1>. QED BY <1>1 DEF Untouched

LEMMA AwaitUntouched ==
  ASSUME TryTypes, NEW s \in DOMAIN set, NEW b \in Builder, NEW t \in DOMAIN set,
         \/ AwaitGivesUp(s, b) \/ AwaitRetries(s, b) \/ AwaitWakes(s, b) \/ UploadLog(s, b)
         \/ UploadFails(s, b) \/ PostFails(s, b) \/ (Post(s, b) /\ ~IsFinal(s, b))
  PROVE  Untouched(t)
  <1>1. PICK step \in Pcs : /\ await' = [await EXCEPT ![<<s, b>>].pc = step]
                            /\ step \in {"upload", "post"} => Reporting(s, b)
                            /\ Settled(s, b) => step \in {"upload", "post", "quit"}
    BY DEF AwaitGivesUp, AwaitRetries, AwaitWakes, UploadLog, UploadFails, PostFails, Post, Step,
           Reporting, Settled, Pcs
  <1>2. UNCHANGED <<set, build>>
    BY DEF AwaitGivesUp, AwaitRetries, AwaitWakes, UploadLog, UploadFails, PostFails, Post
  <1>3. review'[t].votes = review[t].votes /\ review'[t].verdict = review[t].verdict
    <2>1. t \in SetIds /\ review[t] \in ReviewRec
      BY SetNumber DEF TryTypes
    <2>2. \/ review' = review
          \/ review' = [review EXCEPT ![s].lost = TRUE]
          \/ review' = [review EXCEPT ![s].progress = TRUE]
      BY DEF AwaitGivesUp, AwaitRetries, AwaitWakes, UploadLog, UploadFails, PostFails, Post, Lose, gerrit
    <2>3. CASE t # s
      BY <2>1, <2>2, <2>3 DEF TryTypes
    <2>4. CASE t = s
      BY ONLY <2>1, <2>2, <2>4, TryTypes DEF TryTypes, ReviewRec
    <2>. QED BY <2>3, <2>4
  <1>. QED BY <1>1, <1>2, <1>3, MoveUntouched

\* A build that is added is new, and only the set it belongs to notices.
BuildAdded(x, y) ==
    /\ build' = With(build, x, y)
    /\ y \in BuildRec /\ ~y.event /\ ~y.good /\ ~y.ctxDone /\ ~y.succeeded /\ ~y.canceled
    /\ y.phase \in {"new", "running"}

LEMMA AddedLives ==
  ASSUME Lives, NEW x, NEW y, BuildAdded(x, y), UNCHANGED <<set, closing>> PROVE Lives'
  <1>1. /\ DOMAIN build' = DOMAIN build \cup {x} /\ build'[x] = y
        /\ \A i \in DOMAIN build : i # x => build'[i] = build[i]
    BY DEF BuildAdded, With
  <1>2. \A i : CanceledSet(i)' = CanceledSet(i)
    BY DEF CanceledSet
  <1>3. Life(x)'
    BY <1>1 DEF Life, BuildAdded
  <1>4. \A i \in DOMAIN build : i # x => Life(i)'
    BY <1>1, <1>2 DEF Lives, Life
  <1>. QED BY <1>1, <1>2, <1>3, <1>4 DEF Lives

\* awaitTryBuild starts another build: it was not counted.
LEMMA RestartQuiet ==
  ASSUME TryTypes, NEW s \in DOMAIN set, NEW b \in Builder, AwaitRestarts(s, b),
         NEW t \in DOMAIN set, NEW C \in SUBSET Builder, Tally(t, C)
  PROVE  Quiet(t)
  <1>. DEFINE x == BuildOf(s, RevOf(s, b), await[<<s, b>>].n + 1)
              a == await[<<s, b>>]
  <1>1. /\ await' = [await EXCEPT ![<<s, b>>].pc = "install", ![<<s, b>>].n = @ + 1]
        /\ build' = With(build, x, NewBuild) /\ UNCHANGED <<set, review>>
        /\ a.pc = "restart"
    BY DEF AwaitRestarts, gerrit
  <1>2. s \in SetIds /\ t \in SetIds /\ a \in AwaitRec
    BY SetNumber DEF TryTypes
  <1>3. ASSUME NEW c \in Builder, <<t, c>> # <<s, b>>
        PROVE  /\ await'[<<t, c>>] = await[<<t, c>>]
               /\ CurrentBuild(t, c)' \in DOMAIN build'
               /\ (Good(t, c) => Good(t, c)') /\ (Bad(t, c) => Bad(t, c)')
    <2>1. await'[<<t, c>>] = await[<<t, c>>]
      BY <1>1, <1>2, <1>3 DEF TryTypes
    <2>2. PICK i : i = CurrentBuild(t, c)
      OBVIOUS
    <2>3. CurrentBuild(t, c)' = i
      BY <1>1, <2>1, <2>2 DEF CurrentBuild, RevOf, BuildOf
    <2>4. i \in DOMAIN build
      BY <2>2 DEF Tally, Tallied
    <2>5. i # x
      BY <1>3, <2>2 DEF CurrentBuild, RevOf, BuildOf
    <2>6. i \in DOMAIN build' /\ build'[i] = build[i]
      BY <1>1, <2>4, <2>5 DEF With
    <2>. QED BY <2>1, <2>2, <2>3, <2>6 DEF Good, Bad
  <1>4. CASE t = s
    <2>1. /\ await'[<<s, b>>].n = a.n + 1 /\ await'[<<s, b>>].pc = "install"
          /\ await'[<<s, b>>].remain = a.remain /\ await'[<<s, b>>].numFail = a.numFail
      BY <1>1, <1>2 DEF TryTypes, AwaitRec
    <2>2. CurrentBuild(s, b)' = x
      BY <1>1, <2>1 DEF CurrentBuild, RevOf
    <2>3. CurrentBuild(s, b)' \in DOMAIN build'
      BY <1>1, <2>2 DEF With
    <2>4. ~Reporting(s, b)' /\ ~Settled(s, b)
      BY <1>1, <2>1 DEF Reporting, Settled
    <2>. QED BY <1>1, <1>3, <1>4, <2>1, <2>3, <2>4 DEF Quiet, Reporting, Settled
  <1>5. CASE t # s
    BY <1>1, <1>3, <1>5 DEF Quiet, Reporting, Settled
  <1>. QED BY <1>4, <1>5

\* Counting one more builder.
LEMMA CountOne ==
  ASSUME NEW C \in SUBSET Builder, NEW b \in Builder, b \notin C
  PROVE  /\ C \cup {b} \in SUBSET Builder
         /\ Cardinality(C) \in Nat /\ Cardinality(C \cup {b}) = Cardinality(C) + 1
         /\ Cardinality(C \cup {b}) = Cardinality(Builder) => C \cup {b} = Builder
  <1>1. C \cup {b} \in SUBSET Builder
    OBVIOUS
  <1>2. IsFiniteSet(C) /\ IsFiniteSet(C \cup {b})
    BY <1>1, BuilderAssumption, FS_Subset
  <1>3. Cardinality(C) \in Nat /\ Cardinality(C \cup {b}) = Cardinality(C) + 1
    BY <1>2, FS_AddElement, FS_CardinalityType
  <1>4. Cardinality(C \cup {b}) = Cardinality(Builder) => C \cup {b} = Builder
    BY <1>1, BuilderAssumption, FS_Subset
  <1>. QED BY <1>1, <1>3, <1>4

\* noteBuildComplete sees the result of a build that ended, unless the set was
\* cancelled before.
LEMMA NotedResult ==
  ASSUME TryTypes, Lives, NEW s \in DOMAIN set, NEW b \in Builder, NoteBuildComplete(s, b),
         CurrentBuild(s, b) \in DOMAIN build
  PROVE  /\ Good(s, b) \/ Bad(s, b)
         /\ build[CurrentBuild(s, b)].succeeded => Good(s, b)
         /\ ~build[CurrentBuild(s, b)].succeeded /\ ~set[s].canceled => Bad(s, b)
  <1>. PICK i : i = CurrentBuild(s, b)
    OBVIOUS
  <1>1. i.set = s
    BY DEF CurrentBuild, BuildOf
  <1>2. build[i].ctxDone /\ build[i].event /\ build[i] \in BuildRec /\ Life(i)
    BY DEF NoteBuildComplete, Lives, TryTypes
  <1>. QED BY <1>1, <1>2 DEF Life, BuildRec, CanceledSet, Good, Bad

LEMMA NoteChanges ==
  ASSUME TryTypes, NEW s \in DOMAIN set, NEW b \in Builder, NoteBuildComplete(s, b),
         NEW failed, failed = IF build[CurrentBuild(s, b)].succeeded THEN set[s].failed
                                                                     ELSE set[s].failed \cup {b}
  PROVE  /\ UNCHANGED <<build, review, closing>> /\ DOMAIN set' = DOMAIN set
         /\ \A t \in DOMAIN set : t # s => set'[t] = set[t]
         /\ set'[s].key = set[s].key /\ set'[s].canceled = set[s].canceled
         /\ set'[s].remain = set[s].remain - 1 /\ set'[s].failed = failed
         /\ \A x \in SetIds \X Builder : x # <<s, b>> => await'[x] = await[x]
         /\ await[<<s, b>>].pc = "wait"
         /\ await'[<<s, b>>].n = await[<<s, b>>].n
         /\ await'[<<s, b>>].pc = IF set[s].canceled THEN "quit" ELSE "upload"
         /\ await'[<<s, b>>].remain = set[s].remain - 1
         /\ await'[<<s, b>>].numFail = Cardinality(failed)
  <1>0. set[s] \in SetRec /\ <<s, b>> \in SetIds \X Builder /\ await[<<s, b>>] \in AwaitRec
    BY SetNumber DEF TryTypes
  <1>. PICK step : step = IF set[s].canceled THEN "quit" ELSE "upload"
    OBVIOUS
  <1>1. /\ set' = [set EXCEPT ![s].remain = set[s].remain - 1, ![s].failed = failed]
        /\ await' = [await EXCEPT ![<<s, b>>].pc = step, ![<<s, b>>].remain = set[s].remain - 1,
                                  ![<<s, b>>].numFail = Cardinality(failed)]
        /\ UNCHANGED <<build, review, closing>> /\ await[<<s, b>>].pc = "wait"
    BY DEF NoteBuildComplete, gerrit, TryTypes
  <1>2. /\ DOMAIN set' = DOMAIN set
        /\ \A t \in DOMAIN set : t # s => set'[t] = set[t]
        /\ set'[s].key = set[s].key /\ set'[s].canceled = set[s].canceled
        /\ set'[s].remain = set[s].remain - 1 /\ set'[s].failed = failed
    BY <1>0, <1>1 DEF TryTypes, SetRec
  <1>3. /\ \A x \in SetIds \X Builder : x # <<s, b>> => await'[x] = await[x]
        /\ await'[<<s, b>>].n = await[<<s, b>>].n
        /\ await'[<<s, b>>].pc = step /\ await'[<<s, b>>].remain = set[s].remain - 1
        /\ await'[<<s, b>>].numFail = Cardinality(failed)
    BY <1>0, <1>1 DEF TryTypes, AwaitRec
  <1>. QED BY <1>1, <1>2, <1>3

LEMMA NoteTally ==
  ASSUME TryTypes, Lives, NEW s \in DOMAIN set, NEW b \in Builder, NoteBuildComplete(s, b),
         NEW C \in SUBSET Builder, Tally(s, C)
  PROVE  b \notin C /\ Tally(s, C \cup {b})'
  <1>. PICK i : i = CurrentBuild(s, b)
    OBVIOUS
  <1>. PICK f : f = IF build[i].succeeded THEN set[s].failed ELSE set[s].failed \cup {b}
    OBVIOUS
  <1>. PICK D : D = C \cup {b}
    OBVIOUS
  <1>1. /\ UNCHANGED <<build, review>>
        /\ set'[s].key = set[s].key /\ set'[s].canceled = set[s].canceled
        /\ set'[s].remain = set[s].remain - 1 /\ set'[s].failed = f
        /\ await[<<s, b>>].pc = "wait"
        /\ await'[<<s, b>>].n = await[<<s, b>>].n
        /\ await'[<<s, b>>].pc = IF set[s].canceled THEN "quit" ELSE "upload"
        /\ await'[<<s, b>>].remain = set[s].remain - 1
        /\ await'[<<s, b>>].numFail = Cardinality(f)
    BY NoteChanges
  <1>2. \A c \in Builder : c # b => await'[<<s, c>>] = await[<<s, c>>]
    <2>1. \A x \in SetIds \X Builder : x # <<s, b>> => await'[x] = await[x]
      BY NoteChanges
    <2>2. s \in SetIds
      BY SetNumber
    <2>. QED BY <2>1, <2>2
  <1>3. b \notin C
    BY <1>1 DEF Tally, Tallied, Settled
  <1>4. ASSUME NEW c \in Builder
        PROVE  /\ CurrentBuild(s, c)' = CurrentBuild(s, c) /\ CurrentBuild(s, c) \in DOMAIN build
               /\ Good(s, c)' = Good(s, c) /\ Bad(s, c)' = Bad(s, c)
    <2>1. await'[<<s, c>>].n = await[<<s, c>>].n
      BY <1>1, <1>2
    <2>2. CurrentBuild(s, c)' = CurrentBuild(s, c)
      BY <1>1, <2>1 DEF CurrentBuild, RevOf
    <2>. QED BY <1>1, <2>2 DEF Good, Bad, Tally, Tallied
  <1>5. /\ Good(s, b) \/ Bad(s, b)
        /\ build[i].succeeded => Good(s, b)
        /\ ~build[i].succeeded /\ ~set[s].canceled => Bad(s, b)
    BY <1>4, NotedResult
  <1>6. /\ D \in SUBSET Builder /\ Cardinality(C) \in Nat /\ Cardinality(D) = Cardinality(C) + 1
        /\ Cardinality(D) = Cardinality(Builder) => D = Builder
    BY <1>3, CountOne
  <1>7. review[s].votes = 0 /\ review[s].verdict = None
    BY <1>3 DEF Tally, Votes
  <1>8. /\ set[s].failed \subseteq C /\ set[s].remain + Cardinality(C) = Cardinality(Builder)
        /\ \A c \in C : /\ Settled(s, c) /\ (Good(s, c) \/ Bad(s, c))
                        /\ c \notin set[s].failed => Good(s, c)
                        /\ c \in set[s].failed /\ ~set[s].canceled => Bad(s, c)
    BY DEF Tally, Tallied
  <1>9. /\ f \subseteq D
        /\ \A c \in D : /\ Good(s, c) \/ Bad(s, c)
                        /\ c \notin f => Good(s, c)
                        /\ c \in f /\ ~set[s].canceled => Bad(s, c)
    BY <1>3, <1>5, <1>8
  <1>10. \A c \in D : Settled(s, c)'
    BY <1>1, <1>2, <1>8 DEF Settled
  <1>11. set[s].remain \in Int /\ Cardinality(Builder) \in Nat
    BY BuildersCounted DEF TryTypes, SetRec
  <1>12. Tallied(s, D)'
    <2>1. set'[s].remain + Cardinality(D) = Cardinality(Builder)
      BY <1>1, <1>6, <1>8, <1>11
    <2>2. \A c \in Builder : (CurrentBuild(s, c) \in DOMAIN build)'
      BY <1>1, <1>4
    <2>. QED BY <1>1, <1>4, <1>6, <1>9, <1>10, <2>1, <2>2 DEF Tallied
  <1>13. \A c \in Builder : ~(Reporting(s, c) /\ IsFinal(s, c))
    BY <1>3 DEF Tally, Reports
  <1>14. \A c \in Builder : c # b => /\ Reporting(s, c)' = Reporting(s, c) /\ IsFinal(s, c)' = IsFinal(s, c)
                                     /\ await'[<<s, c>>].numFail = await[<<s, c>>].numFail
    BY <1>2 DEF Reporting, IsFinal
  <1>15. ASSUME NEW c \in Builder, Reporting(s, c)'
         PROVE  /\ c \in D
                /\ await'[<<s, c>>].numFail # 0 => \E d \in D : Bad(s, d)'
                /\ IsFinal(s, c)' => c = b
    <2>1. CASE c = b
      <3>1. ~set[s].canceled
        BY <1>1, <1>15, <2>1 DEF Reporting
      <3>2. Cardinality(f) # 0 => f # {}
        BY FS_EmptySet
      <3>. QED BY <1>1, <1>4, <1>6, <1>9, <2>1, <3>1, <3>2
    <2>2. CASE c # b
      <3>1. c \in C /\ (await[<<s, c>>].numFail # 0 => \E d \in C : Bad(s, d))
        BY <1>14, <1>15, <2>2 DEF Tally, Reports
      <3>2. ~IsFinal(s, c)'
        BY <1>13, <1>14, <1>15, <2>2
      <3>. QED BY <1>4, <1>14, <2>2, <3>1, <3>2
    <2>. QED BY <2>1, <2>2
  <1>16. ASSUME IsFinal(s, b)'
         PROVE  D = Builder /\ (await'[<<s, b>>].numFail = 0 => \A d \in D : Good(s, d)')
    <2>1. D = Builder
      BY <1>1, <1>6, <1>8, <1>11, <1>16 DEF IsFinal
    <2>2. Cardinality(f) = 0 => f = {}
      BY <1>6, <1>9, BuilderAssumption, FS_Subset, FS_EmptySet
    <2>. QED BY <1>1, <1>4, <1>6, <1>9, <2>1, <2>2
  <1>17. Reports(s, D)'
    BY <1>1, <1>7, <1>15, <1>16 DEF Reports
  <1>18. Votes(s, D)'
    BY <1>1, <1>7 DEF Votes, None
  <1>. QED BY <1>3, <1>12, <1>17, <1>18 DEF Tally

LEMMA NoteUntouched ==
  ASSUME TryTypes, NEW s \in DOMAIN set, NEW b \in Builder, NoteBuildComplete(s, b),
         NEW t \in DOMAIN set, t # s
  PROVE  Untouched(t)
  <1>1. /\ UNCHANGED <<build, review>> /\ t \in DOMAIN set' /\ set'[t] = set[t]
        /\ \A x \in SetIds \X Builder : x # <<s, b>> => await'[x] = await[x]
    BY NoteChanges
  <1>2. \A c \in Builder : await'[<<t, c>>] = await[<<t, c>>]
    BY <1>1, SetNumber
  <1>. QED BY <1>1, <1>2 DEF Untouched, Reporting, Settled

\* The goroutine that saw the last build votes.
LEMMA PostTally ==
  ASSUME TryTypes, NEW s \in DOMAIN set, NEW b \in Builder, Post(s, b), IsFinal(s, b),
         NEW t \in DOMAIN set, NEW C \in SUBSET Builder, Tally(t, C)
  PROVE  Tally(t, C)'
  <1>0. s \in SetIds /\ t \in SetIds /\ review[s] \in ReviewRec /\ await[<<s, b>>] \in AwaitRec
    BY SetNumber DEF TryTypes
  <1>1. /\ await' = [await EXCEPT ![<<s, b>>].pc = "quit"] /\ await[<<s, b>>].pc = "post"
        /\ UNCHANGED <<set, build>>
        /\ review' = [review EXCEPT ![s].verdict = Verdict(s, b), ![s].votes = review[s].votes + 1]
    BY <1>0 DEF Post, Step, TryTypes
  <1>2. /\ \A x \in SetIds : x # s => review'[x] = review[x]
        /\ review'[s].verdict = Verdict(s, b) /\ review'[s].votes = review[s].votes + 1
    BY <1>0, <1>1 DEF TryTypes, ReviewRec
  <1>3. CASE t # s
    <2>1. Untouched(t)
      BY <1>0, <1>1, <1>2, <1>3, MoveUntouched DEF Reporting, Settled, Pcs
    <2>. QED BY <2>1, UntouchedQuiet, QuietTally
  <1>4. CASE t = s
    <2>1. \A c \in Builder : c # b => await'[<<s, c>>] = await[<<s, c>>]
      BY <1>0, <1>1 DEF TryTypes
    <2>2. /\ await'[<<s, b>>].pc = "quit" /\ await'[<<s, b>>].n = await[<<s, b>>].n
      BY <1>0, <1>1 DEF TryTypes, AwaitRec
    <2>3. ASSUME NEW c \in Builder
          PROVE  /\ CurrentBuild(s, c)' = CurrentBuild(s, c) /\ CurrentBuild(s, c) \in DOMAIN build
                 /\ Good(s, c)' = Good(s, c) /\ Bad(s, c)' = Bad(s, c)
                 /\ Settled(s, c) => Settled(s, c)'
      <3>1. await'[<<s, c>>].n = await[<<s, c>>].n
        BY <2>1, <2>2
      <3>2. CurrentBuild(s, c)' = CurrentBuild(s, c)
        BY <1>1, <3>1 DEF CurrentBuild, RevOf
      <3>. QED BY <1>1, <1>4, <2>1, <2>2, <3>2 DEF Good, Bad, Tally, Tallied, Settled
    <2>4. Tallied(s, C)'
      BY <1>1, <1>4, <2>3 DEF Tally, Tallied
    <2>5. /\ C = Builder /\ review[s].votes = 0
          /\ await[<<s, b>>].numFail # 0 => \E d \in C : Bad(s, d)
          /\ await[<<s, b>>].numFail = 0 => \A d \in C : Good(s, d)
          /\ \A d \in Builder : Reporting(s, d) /\ IsFinal(s, d) => d = b
      <3>1. Reporting(s, b)
        BY <1>1 DEF Reporting
      <3>. QED BY <1>4, <3>1 DEF Tally, Reports
    <2>6. Reports(s, C)'
      <3>1. ASSUME NEW c \in Builder, Reporting(s, c)'
            PROVE  /\ c \in C /\ ~IsFinal(s, c)'
                   /\ await'[<<s, c>>].numFail # 0 => \E d \in C : Bad(s, d)'
        <4>1. c # b /\ await'[<<s, c>>] = await[<<s, c>>] /\ Reporting(s, c)
          BY <2>1, <2>2, <3>1 DEF Reporting
        <4>2. c \in C /\ (await[<<s, c>>].numFail # 0 => \E d \in C : Bad(s, d))
          BY <1>4, <4>1 DEF Tally, Reports
        <4>3. ~IsFinal(s, c)'
          BY <2>5, <4>1 DEF IsFinal
        <4>. QED BY <2>3, <4>1, <4>2, <4>3
      <3>. QED BY <3>1 DEF Reports
    <2>7. Votes(s, C)'
      <3>1. review'[s].votes = 1
        BY <1>2, <2>5
      <3>2. CASE await[<<s, b>>].numFail = 0
        BY <1>2, <2>3, <2>5, <3>1, <3>2 DEF Votes, Verdict
      <3>3. CASE await[<<s, b>>].numFail # 0
        BY <1>2, <2>3, <2>5, <3>1, <3>3 DEF Votes, Verdict
      <3>. QED BY <3>2, <3>3
    <2>. QED BY <1>4, <2>4, <2>6, <2>7 DEF Tally
  <1>. QED BY <1>3, <1>4

\* A set that is created: nothing is counted, nobody has voted.
LEMMA NewSetTally ==
  ASSUME TryTypes, Lives, NEW k \in Key, FindTryWork(k),
         \A t \in SetIds \ DOMAIN set : review[t].votes = 0 /\ review[t].verdict = None,
         NEW s, s = Cardinality(DOMAIN set) + 1
  PROVE  /\ DOMAIN set' = DOMAIN set \cup {s} /\ s \notin DOMAIN set /\ review' = review
         /\ Lives' /\ Tally(s, {})'
         /\ \A t \in DOMAIN set : Untouched(t)
  <1>1. /\ set' = With(set, s, NewTrySet(k))
        /\ await' = [x \in DOMAIN await |-> IF x[1] = s THEN NewAwait ELSE await[x]]
        /\ build' = [i \in DOMAIN build \cup {BuildOf(s, <<k, b>>, 1) : b \in Builder} |->
                       IF i \in DOMAIN build THEN build[i] ELSE NewBuild]
        /\ UNCHANGED <<review, closing>>
        /\ Cardinality(DOMAIN set) < MaxSets
    BY DEF FindTryWork, CreateTrySet, gerrit
  <1>2. /\ DOMAIN set' = DOMAIN set \cup {s} /\ set'[s] = NewTrySet(k)
        /\ \A t \in DOMAIN set : t # s => set'[t] = set[t]
    BY <1>1 DEF With
  <1>3. s \in SetIds \ DOMAIN set
    BY <1>1, <1>2, NumberedNext DEF TryTypes
  <1>4. /\ \A i \in DOMAIN build : i \in DOMAIN build' /\ build'[i] = build[i]
        /\ \A i \in DOMAIN build' : i \in DOMAIN build \/ build'[i] = NewBuild
    BY <1>1
  <1>5. \A i : CanceledSet(i) => CanceledSet(i)'
    BY <1>2, <1>3 DEF CanceledSet
  <1>6. Lives'
    <2>1. \A i \in DOMAIN build : Life(i)'
      BY <1>4, <1>5 DEF Lives, Life
    <2>2. \A i \in DOMAIN build' : build'[i] = NewBuild => Life(i)'
      BY DEF Life, NewBuild
    <2>. QED BY <1>1, <1>4, <1>5, <2>1, <2>2 DEF Lives
  <1>7. \A b \in Builder : await'[<<s, b>>] = NewAwait
    BY <1>1, <1>3 DEF TryTypes
  <1>8. Tally(s, {})'
    <2>1. ASSUME NEW b \in Builder PROVE CurrentBuild(s, b)' \in DOMAIN build'
      <3>1. set'[s].key = k /\ await'[<<s, b>>].n = 1
        BY <1>2, <1>7 DEF NewAwait, NewTrySet
      <3>2. CurrentBuild(s, b)' = BuildOf(s, <<k, b>>, 1)
        BY <3>1 DEF CurrentBuild, RevOf
      <3>. QED BY <1>1, <3>2
    <2>2. \A b \in Builder : ~Reporting(s, b)'
      BY <1>7 DEF Reporting, NewAwait
    <2>3. review'[s].votes = 0 /\ review'[s].verdict = None
      BY <1>1, <1>3
    <2>4. Cardinality({}) = 0 /\ Cardinality(Builder) \in Nat
      BY FS_EmptySet, BuildersCounted
    <2>5. set'[s].remain = Cardinality(Builder) /\ set'[s].failed = {}
      BY <1>2 DEF NewTrySet
    <2>6. Tallied(s, {})'
      BY <2>1, <2>4, <2>5 DEF Tallied
    <2>7. Reports(s, {})'
      BY <2>2 DEF Reports
    <2>8. Votes(s, {})'
      BY <2>3 DEF Votes, None
    <2>. QED BY <2>6, <2>7, <2>8 DEF Tally
  <1>9. ASSUME NEW t \in DOMAIN set PROVE Untouched(t)
    <2>1. t # s /\ t \in SetIds
      BY <1>3, SetNumber
    <2>2. \A b \in Builder : await'[<<t, b>>] = await[<<t, b>>]
      BY <1>1, <2>1 DEF TryTypes
    <2>. QED BY <1>1, <1>2, <1>4, <2>1, <2>2 DEF Untouched, Reporting, Settled
  <1>. QED BY <1>1, <1>2, <1>3, <1>6, <1>8, <1>9

\* Cancelling a set marks it before its builds are cancelled.
LEMMA CancelLives ==
  ASSUME TryTypes, Lives, NEW s \in DOMAIN set, CancelBuilds(s) PROVE Lives'
  <1>1. /\ set' = [set EXCEPT ![s].canceled = TRUE] /\ build' = build
        /\ closing' \subseteq closing \cup {BuildOf(s, RevOf(s, b), set[s].builds[b]) : b \in Builder}
    BY DEF CancelBuilds
  <1>2. DOMAIN set' = DOMAIN set /\ \A t \in DOMAIN set : set[t].canceled \/ t = s => set'[t].canceled
    BY <1>1 DEF TryTypes, SetRec
  <1>3. \A i : CanceledSet(i) \/ i.set = s => CanceledSet(i)'
    BY <1>2 DEF CanceledSet
  <1>4. \A b \in Builder : BuildOf(s, RevOf(s, b), set[s].builds[b]).set = s
    BY DEF BuildOf
  <1>5. \A i \in closing' : CanceledSet(i) \/ i.set = s
    BY <1>1, <1>4 DEF Lives
  <1>6. \A i \in DOMAIN build' : Life(i)'
    BY <1>1, <1>3 DEF Lives, Life
  <1>. QED BY <1>3, <1>5, <1>6 DEF Lives

\* Steps that leave builds and what is to be cancelled alone.
LEMMA SameLives ==
  ASSUME Lives, UNCHANGED <<build, closing>>, DOMAIN set' = DOMAIN set,
         \A t \in DOMAIN set : set[t].canceled => set'[t].canceled
  PROVE  Lives'
  <1>1. \A i : CanceledSet(i) => CanceledSet(i)'
    BY DEF CanceledSet
  <1>. QED BY <1>1 DEF Lives, Life

\* A step that no set notices, and that creates none.
LEMMA QuietStep ==
  ASSUME VoteInv, Lives', DOMAIN set' = DOMAIN set,
         \A t \in SetIds \ DOMAIN set : review'[t] = review[t],
         \A t \in DOMAIN set : \A C \in SUBSET Builder : Tally(t, C) => Quiet(t)
  PROVE  VoteParts'
  <1>1. \A t \in DOMAIN set : \E C \in SUBSET Builder : Tally(t, C)'
    BY QuietTally DEF VoteInv, VoteParts
  <1>. QED BY <1>1 DEF VoteInv, VoteParts

LEMMA UntouchedStep ==
  ASSUME VoteInv, Lives', DOMAIN set' = DOMAIN set,
         \A t \in SetIds \ DOMAIN set : review'[t] = review[t],
         \A t \in DOMAIN set : Untouched(t)
  PROVE  VoteParts'
BY UntouchedQuiet, QuietStep

LEMMA AwaitVotes ==
  ASSUME VoteInv, NEW s \in DOMAIN set, NEW b \in Builder, AwaitStep(s, b) PROVE VoteParts'
  <1>0. TryTypes /\ Lives
    BY DEF VoteInv, VoteParts
  <1>1. CASE AwaitRestarts(s, b)
    <2>1. /\ UNCHANGED <<set, review, closing>>
          /\ BuildAdded(BuildOf(s, RevOf(s, b), await[<<s, b>>].n + 1), NewBuild)
      BY <1>1 DEF AwaitRestarts, gerrit, BuildAdded, NewBuild, BuildRec
    <2>2. Lives'
      BY <1>0, <2>1, AddedLives
    <2>. QED BY <1>0, <1>1, <2>1, <2>2, RestartQuiet, QuietStep
  <1>2. CASE AwaitInstalls(s, b)
    <2>1. /\ UNCHANGED <<build, review>> /\ DOMAIN set' = DOMAIN set
          /\ \A t \in DOMAIN set : set[t].canceled => set'[t].canceled
      BY <1>0, <1>2, SetTypes
    <2>2. closing' = closing
      BY <1>2 DEF AwaitInstalls
    <2>3. Lives'
      BY <1>0, <2>1, <2>2, SameLives
    <2>. QED BY <1>0, <1>2, <2>1, <2>3, SetUntouched, UntouchedStep
  <1>3. CASE NoteBuildComplete(s, b)
    <2>1. /\ UNCHANGED <<build, review, closing>> /\ DOMAIN set' = DOMAIN set
          /\ \A t \in DOMAIN set : t # s => set'[t] = set[t]
          /\ set'[s].canceled = set[s].canceled
      BY <1>0, <1>3, NoteChanges
    <2>2. Lives'
      BY <1>0, <2>1, SameLives
    <2>3. ASSUME NEW t \in DOMAIN set PROVE \E C \in SUBSET Builder : Tally(t, C)'
      <3>1. PICK C \in SUBSET Builder : Tally(t, C)
        BY DEF VoteInv, VoteParts
      <3>2. CASE t = s
        <4>1. Tally(s, C \cup {b})' /\ C \cup {b} \in SUBSET Builder
          BY <1>0, <1>3, <3>1, <3>2, NoteTally
        <4>. QED BY <3>2, <4>1
      <3>3. CASE t # s
        BY <1>0, <1>3, <3>1, <3>3, NoteUntouched, UntouchedQuiet, QuietTally
      <3>. QED BY <3>2, <3>3
    <2>. QED BY <2>1, <2>2, <2>3 DEF VoteInv, VoteParts
  <1>4. CASE Post(s, b) /\ IsFinal(s, b)
    <2>1. /\ UNCHANGED <<set, build, closing>>
          /\ \A t \in SetIds : t # s => review'[t] = review[t]
      BY <1>0, <1>4, SetNumber DEF Post, TryTypes
    <2>2. Lives'
      BY <1>0, <2>1, SameLives
    <2>3. \A t \in DOMAIN set : \E C \in SUBSET Builder : Tally(t, C)'
      BY <1>0, <1>4, PostTally DEF VoteInv, VoteParts
    <2>. QED BY <2>1, <2>2, <2>3 DEF VoteInv, VoteParts
  <1>5. CASE \/ AwaitGivesUp(s, b) \/ AwaitRetries(s, b) \/ AwaitWakes(s, b) \/ UploadLog(s, b)
             \/ UploadFails(s, b) \/ PostFails(s, b) \/ (Post(s, b) /\ ~IsFinal(s, b))
    <2>1. UNCHANGED <<set, build, closing>>
      BY <1>5 DEF AwaitGivesUp, AwaitRetries, AwaitWakes, UploadLog, UploadFails, PostFails, Post
    <2>2. \A t \in SetIds : t # s => review'[t] = review[t]
      <3>1. \/ review' = review
            \/ review' = [review EXCEPT ![s].lost = TRUE]
            \/ review' = [review EXCEPT ![s].progress = TRUE]
        BY <1>5 DEF AwaitGivesUp, AwaitRetries, AwaitWakes, UploadLog, UploadFails, PostFails, Post,
                    Lose, gerrit
      <3>. QED BY <1>0, <3>1 DEF TryTypes
    <2>3. Lives'
      BY <1>0, <2>1, SameLives
    <2>. QED BY <1>0, <1>5, <2>1, <2>2, <2>3, AwaitUntouched, UntouchedStep
  <1>. QED BY <1>1, <1>2, <1>3, <1>4, <1>5 DEF AwaitStep

LEMMA BuildVotes ==
  ASSUME VoteInv, NEW i \in DOMAIN build, BuildStep(i) \/ CancelBuild(i) PROVE VoteParts'
  <1>1. TryTypes /\ Lives
    BY DEF VoteInv, VoteParts
  <1>2. UNCHANGED <<set, await, review>>
    BY <1>1, BuildTypes
  <1>3. Lives' /\ \A t \in DOMAIN set : Untouched(t)
    BY <1>1, <1>2, BuildLives, SameUntouched
  <1>. QED BY <1>2, <1>3, UntouchedStep

LEMMA StartWorkVotes == ASSUME VoteInv, StartWork PROVE VoteParts'
  <1>. DEFINE x == BuildOf(PostSubmit, adding, Cardinality(PostBuilds(adding)) + 1)
              y == [NewBuild EXCEPT !.phase = "running"]
  <1>0. TryTypes /\ Lives
    BY DEF VoteInv, VoteParts
  <1>1. UNCHANGED <<set, await, review, closing>> /\ BuildAdded(x, y)
    BY DEF StartWork, gerrit, BuildAdded, NewBuild, BuildRec
  <1>2. x.set = 0
    BY DEF BuildOf, PostSubmit
  <1>3. /\ \A i \in DOMAIN build : i.set # 0 => i \in DOMAIN build' /\ build'[i] = build[i]
    BY <1>1, <1>2 DEF BuildAdded, With
  <1>. HIDE DEF x, y
  <1>4. Lives'
    BY <1>0, <1>1, AddedLives
  <1>5. \A t \in DOMAIN set : Untouched(t)
    BY <1>0, <1>1, <1>3, SetNumber, SameUntouched
  <1>. QED BY <1>1, <1>4, <1>5, UntouchedStep

LEMMA VoteNextInv == ASSUME VoteInv, [TryNext]_tryVars PROVE VoteInv'
  <1>0. TryTypes /\ Lives
    BY DEF VoteInv, VoteParts
  <1>1. ASSUME UNCHANGED <<set, await, build, review, closing>> PROVE VoteParts'
    <2>1. Lives' /\ \A t \in DOMAIN set : Untouched(t)
      BY <1>0, <1>1, SameLives, SameUntouched
    <2>. QED BY <1>1, <2>1, UntouchedStep
  <1>2. ASSUME UNCHANGED tryVars \/ FindWork PROVE VoteParts'
    <2>1. UNCHANGED <<set, await, build, review, closing>>
      BY <1>2 DEF tryVars, FindWork, gerrit
    <2>. QED BY <1>1, <2>1
  <1>3. ASSUME NEW r \in todo, AddWork(r) PROVE VoteParts'
    BY <1>1, <1>3 DEF AddWork, gerrit
  <1>4. ASSUME NEW k \in Key, TryUnwanted(k) PROVE VoteParts'
    BY <1>1, <1>4 DEF TryUnwanted, gerrit
  <1>5. ASSUME NEW k \in Key, FindTryWork(k) PROVE VoteParts'
    <2>1. PICK s : s = Cardinality(DOMAIN set) + 1
      OBVIOUS
    <2>2. /\ DOMAIN set' = DOMAIN set \cup {s} /\ s \notin DOMAIN set /\ review' = review
          /\ Lives' /\ Tally(s, {})'
          /\ \A t \in DOMAIN set : Untouched(t)
      BY <1>0, <1>5, <2>1, NewSetTally DEF VoteInv, VoteParts
    <2>3. \A t \in DOMAIN set : \E C \in SUBSET Builder : Tally(t, C)'
      BY <2>2, UntouchedQuiet, QuietTally DEF VoteInv, VoteParts
    <2>. QED BY <2>2, <2>3 DEF VoteInv, VoteParts
  <1>6. ASSUME NEW s \in DOMAIN set, CancelBuilds(s) PROVE VoteParts'
    <2>1. DOMAIN set' = DOMAIN set /\ review' = review
      BY <1>0, <1>6, SetTypes
    <2>. QED BY <1>0, <1>6, <2>1, CancelLives, SetUntouched, UntouchedStep
  <1>7. VoteParts'
    <2>1. CASE UserStep
      BY <1>4, <1>5, <2>1 DEF UserStep
    <2>2. CASE GoroutineStep
      BY <1>6, <2>2, AwaitVotes, BuildVotes DEF GoroutineStep
    <2>3. CASE FindStep
      BY <1>2, <1>3, <2>3, StartWorkVotes DEF FindStep
    <2>. QED BY <1>2, <2>1, <2>2, <2>3 DEF TryNext
  <1>8. TryTypes'
    BY <1>0, TryNextTypes
  <1>. QED BY <1>7, <1>8 DEF VoteInv, VoteParts

LEMMA VoteInitInv == TryInit => VoteInv
  <1>. SUFFICES ASSUME TryInit PROVE VoteInv
    OBVIOUS
  <1>1. DOMAIN set = {} /\ DOMAIN build = {} /\ closing = {}
    BY DEF TryInit
  <1>2. \A s \in SetIds : review[s].votes = 0 /\ review[s].verdict = None
    BY DEF TryInit
  <1>. QED BY <1>1, <1>2, TryInitTypes DEF VoteInv, VoteParts, Lives

\* The inductive invariant about votes.
THEOREM VoteInvariant == TrySpec => []VoteInv
BY VoteInitInv, VoteNextInv, PTL DEF TrySpec

\* For any number of sets, builders, restarts and cancellations: at most one vote
\* is cast for a set, +1 only if all its builders' last builds succeeded, -1 only
\* if one failed by itself.
THEOREM VotesAreDeserved == TrySpec => []VerdictIsDeserved
  <1>1. ASSUME VoteInv PROVE VerdictIsDeserved
    <2>. SUFFICES ASSUME NEW s \in DOMAIN set
                  PROVE  /\ review[s].verdict = "happy" => \A b \in Builder : Good(s, b)
                         /\ review[s].verdict = "failed" => \E b \in Builder : Bad(s, b)
                         /\ review[s].votes <= 1
      BY DEF VerdictIsDeserved, Good, Bad
    <2>1. PICK C \in SUBSET Builder : Votes(s, C)
      BY <1>1 DEF VoteInv, VoteParts, Tally
    <2>. QED BY <2>1 DEF Votes, None
  <1>. QED BY <1>1, VoteInvariant, PTL

-----------------------------------------------------------------------------
(***************************************************************************)
(* What holds of runTests for every list of tests and every number of      *)
(* helpers: tests have one owner, a pass is deserved, and buildlets that   *)
(* are reported gone are gone.                                             *)
(*                                                                         *)
(* The inductive invariant has two parts.  TestInv is about the tokens,    *)
(* the channels done and the errors; CountInv about the goroutines and the *)
(* counter buildletActivity.                                               *)
(***************************************************************************)

Places == {"idle", "asked", "offered", "none", "setup", "loop", "exec", "closed"}
Results == {"idle", "running", "error", "pass", "fail", "gone"}

TestTypes ==
  /\ taken \subseteq Test /\ done \subseteq taken /\ remoteErr \subseteq done
  /\ numFail \in [Test -> 0..MaxTestExecErrors]
  /\ running \in [Buildlet -> SUBSET Test]
  /\ pos \in 0..Len(Items)

\* A test that could not be executed three times is done.
FewErrors == \A t \in Test : t \notin done => numFail[t] < MaxTestExecErrors

\* A buildlet that executes has tests.
HasTests == \A w \in Buildlet : pc[w] = "exec" => running[w] # {}

\* If a run failed some test carries an error; what the collector has passed is
\* done and carries none.
ErrorKept == failures # {} => remoteErr # {}
Collected ==
  /\ \A k \in 1..pos : Items[k] \in done \ remoteErr
  /\ result = "pass" => pos = Len(Items)

TestInv == TestTypes /\ OwnTests /\ FewErrors /\ HasTests /\ ErrorKept /\ Collected

\* The buildlets whose goroutines are counted.
Live == {w \in Buildlet : pc[w] \in {"setup", "loop", "exec"}}

CountTypes ==
  /\ pc \in [Buildlet -> Places]
  /\ launcher \in BOOLEAN
  /\ result \in Results

Counted ==
  IF result \in {"idle", "error"}
  THEN activity = 0 /\ launcher = FALSE /\ Live = {}
  ELSE activity = Cardinality(Live) + (IF launcher THEN 1 ELSE 0)

\* Once the tests run no helper is forgotten while the launcher is gone.
Launched ==
  result \notin {"idle", "error"} =>
    /\ pc[Main] \in {"loop", "exec", "closed"}
    /\ launcher \/ \A h \in Helper : pc[h] \notin {"idle", "asked", "offered"}

CountInv == CountTypes /\ Counted /\ Launched /\ GoneAreGone

ShardInv == TestInv /\ CountInv

-----------------------------------------------------------------------------
(* Values *)

\* The list of tests is a sequence, and a test is one of its entries.
LEMMA ItemsFacts ==
  /\ Items \in Seq(Test)
  /\ DOMAIN Items = 1..Len(Items)
  /\ Len(Items) \in Nat \ {0}
  /\ \A t \in Test : \E k \in 1..Len(Items) : t = Items[k]
  <1>. DEFINE R == Range(GoTests) \cup Range(MiscTests)
  <1>1. GoTests \in Seq(R) /\ MiscTests \in Seq(R)
    BY TestsAssumption
  <1>2. Items \in Seq(R) /\ Items # <<>>
    BY <1>1, TestsAssumption DEF Items
  <1>3. DOMAIN Items = 1..Len(Items) /\ Len(Items) \in Nat \ {0}
    BY <1>2
  <1>4. Items \in Seq(Test)
    BY <1>2, <1>3 DEF Test, Range
  <1>5. \A t \in Test : \E k \in 1..Len(Items) : t = Items[k]
    BY <1>3 DEF Test, Range
  <1>. QED BY <1>3, <1>4, <1>5

\* The order of the natural numbers, as a relation, is well founded.
LEMMA LessIsWellFounded == IsWellFoundedOn({p \in Nat \X Nat : p[1] < p[2]}, Nat)
BY NatLessThanWellFounded DEF OpToRel

\* A set of natural numbers that is not empty has a least element.
LEMMA MinIsMember ==
  ASSUME NEW S \in SUBSET Nat, S # {}
  PROVE  Min(S) \in S
  <1>. DEFINE R == {p \in Nat \X Nat : p[1] < p[2]}
  <1>1. IsWellFoundedOn(R, Nat)
    BY LessIsWellFounded
  <1>2. PICK x \in S : \A y \in S : ~(<<y, x>> \in R)
    BY <1>1, WFMin
  <1>3. ASSUME NEW y \in S PROVE x <= y
    <2>1. x \in Nat /\ y \in Nat /\ ~(<<y, x>> \in R)
      BY <1>2
    <2>2. ~(y < x)
      BY <2>1
    <2>. QED BY <2>1, <2>2
  <1>. QED BY <1>2, <1>3 DEF Min

\* The test that carries the error of a merged run is one of that run.
LEMMA FirstIsOwn ==
  ASSUME NEW own \in SUBSET Test, own # {}
  PROVE  First(own) \in own
  <1>. DEFINE K == {k \in DOMAIN Items : Items[k] \in own}
  <1>1. K \in SUBSET Nat /\ K # {}
    BY ItemsFacts
  <1>2. Min(K) \in K
    BY <1>1, MinIsMember
  <1>. QED BY <1>2 DEF First

\* testsToRunInOrder and testsToRunBiggestFirst return tests that are free.
LEMMA TestsToRunFree ==
  ASSUME NEW w PROVE TestsToRun(w) \in SUBSET (Test \ taken)
BY DEF TestsToRun, TestsFromSlice, Free

\* There are finitely many buildlets, one more than helpers.
LEMMA BuildletFacts ==
  /\ IsFiniteSet(Buildlet)
  /\ Cardinality(Buildlet) = Cardinality(Helper) + 1
  /\ Main \in Buildlet /\ Main \notin Helper
  /\ Helper \subseteq Buildlet
  /\ Cardinality(Helper) \in Nat
BY HelperAssumption, FS_AddElement, FS_CardinalityType DEF Buildlet, Main

-----------------------------------------------------------------------------
(* The tests *)

\* Steps that leave the tests, and what runs, alone.
LEMMA TestStutter ==
  ASSUME TestInv, UNCHANGED <<taken, done, remoteErr, numFail, failures, running, pos>>,
         result' = "pass" => result = "pass",
         \A w \in Buildlet : pc'[w] = "exec" => pc[w] = "exec"
  PROVE  TestInv'
BY DEF TestInv, TestTypes, OwnTests, FewErrors, HasTests, ErrorKept, Collected

\* testsToRun: what is taken was free, so nobody runs it and it is not done.
LEMMA TakeTestsInv ==
  ASSUME TestInv, CountTypes, NEW w \in Buildlet, TakeTests(w)
  PROVE  TestInv'
  <1>. USE DEF TakeTests, collector
  <1>. DEFINE T == TestsToRun(w)
  <1>1. T \in SUBSET (Test \ taken) /\ T # {}
    BY TestsToRunFree
  <1>. HIDE DEF T
  <1>2. /\ running' = [running EXCEPT ![w] = T] /\ taken' = taken \cup T
        /\ pc' = [pc EXCEPT ![w] = "exec"]
        /\ UNCHANGED <<done, remoteErr, numFail, failures, pos, result>>
    BY DEF T
  <1>3. TestTypes'
    BY <1>1, <1>2 DEF TestInv, TestTypes
  <1>4. OwnTests'
    BY <1>1, <1>2 DEF TestInv, TestTypes, OwnTests
  <1>5. FewErrors' /\ ErrorKept' /\ Collected'
    BY <1>2 DEF TestInv, FewErrors, ErrorKept, Collected
  <1>6. HasTests'
    BY <1>1, <1>2 DEF TestInv, TestTypes, HasTests, CountTypes
  <1>. QED BY <1>3, <1>4, <1>5, <1>6 DEF TestInv

\* The outcome of a run, for the tests in ended, with errors on some of them:
\* the rest is given back.
LEMMA RunEnds ==
  ASSUME TestInv, CountTypes, NEW w \in Buildlet, pc[w] = "exec",
         NEW ended \in SUBSET running[w], NEW errs \in SUBSET ended,
         done' = done \cup ended, remoteErr' = remoteErr \cup errs,
         taken' = taken \ (running[w] \ ended),
         failures' \subseteq failures \cup ended, failures' # failures => errs # {},
         running' = [running EXCEPT ![w] = {}],
         pc' = [pc EXCEPT ![w] = "loop"],
         numFail' \in [Test -> 0..MaxTestExecErrors],
         \A t \in Test : t \notin done' => numFail'[t] < MaxTestExecErrors,
         UNCHANGED <<pos, result>>
  PROVE  TestInv'
  <1>1. \A t \in running[w] : t \in taken \ done
    BY DEF TestInv, OwnTests
  <1>2. TestTypes'
    BY <1>1 DEF TestInv, TestTypes
  <1>3. OwnTests'
    <2>1. ASSUME NEW v \in Buildlet, NEW t \in running'[v]
          PROVE  /\ t \in taken' \ done'
                 /\ \A u \in Buildlet \ {v} : t \notin running'[u]
      <3>1. v # w /\ t \in running[v]
        BY <2>1 DEF TestInv, TestTypes
      <3>2. t \notin running[w] /\ t \in taken \ done
        BY <3>1 DEF TestInv, OwnTests
      <3>3. \A u \in Buildlet \ {v} : t \notin running'[u]
        BY <3>1 DEF TestInv, TestTypes, OwnTests
      <3>. QED BY <3>2, <3>3
    <2>. QED BY <2>1 DEF OwnTests
  <1>4. FewErrors'
    BY DEF FewErrors
  <1>5. HasTests'
    BY DEF TestInv, TestTypes, HasTests, CountTypes
  <1>6. ErrorKept'
    BY DEF TestInv, ErrorKept
  <1>7. Collected'
    BY <1>1 DEF TestInv, Collected
  <1>. QED BY <1>2, <1>3, <1>4, <1>5, <1>6, <1>7 DEF TestInv

\* runTestsOnBuildlet after Exec, and cancelAll.
LEMMA RunCompletesInv ==
  ASSUME TestInv, CountTypes, NEW w \in Buildlet, NEW failed \in BOOLEAN, RunCompletes(w, failed)
  PROVE  TestInv'
  <1>. DEFINE errs == IF failed THEN {First(running[w])} ELSE {}
  <1>1. running[w] \in SUBSET Test /\ running[w] # {}
    BY DEF TestInv, TestTypes, HasTests, RunCompletes
  <1>2. First(running[w]) \in running[w]
    BY <1>1, FirstIsOwn
  <1>3. errs \in SUBSET running[w] /\ remoteErr' = remoteErr \cup errs
    BY <1>2 DEF RunCompletes
  <1>4. failures' \subseteq failures \cup running[w] /\ (failures' # failures => errs # {})
    BY DEF RunCompletes
  <1>5. /\ pc[w] = "exec" /\ done' = done \cup running[w]
        /\ running' = [running EXCEPT ![w] = {}]
        /\ pc' = [pc EXCEPT ![w] = "loop"]
        /\ taken' = taken \ (running[w] \ running[w])
        /\ numFail' = numFail /\ UNCHANGED <<pos, result>>
    BY DEF RunCompletes, collector
  <1>6. /\ numFail' \in [Test -> 0..MaxTestExecErrors]
        /\ \A t \in Test : t \notin done' => numFail'[t] < MaxTestExecErrors
    BY <1>5 DEF TestInv, TestTypes, FewErrors
  <1>. HIDE DEF errs
  <1>. QED BY <1>3, <1>4, <1>5, <1>6, RunEnds

\* An Exec that failed: the tests of the run go back, or are given up.
LEMMA ExecFailsInv ==
  ASSUME TestInv, CountTypes, NEW w \in Buildlet, NEW timeout \in BOOLEAN, ExecFails(w, timeout)
  PROVE  TestInv'
  <1>. DEFINE lost == {t \in running[w] : timeout \/ numFail[t] + 1 >= MaxTestExecErrors}
  <1>1. running[w] \in SUBSET Test /\ \A t \in running[w] : t \notin done
    BY DEF TestInv, TestTypes, OwnTests
  <1>2. /\ pc[w] = "exec" /\ done' = done \cup lost /\ remoteErr' = remoteErr \cup lost
        /\ failures' = failures \cup lost
        /\ taken' = taken \ (running[w] \ lost)
        /\ running' = [running EXCEPT ![w] = {}]
        /\ pc' = [pc EXCEPT ![w] = "loop"]
        /\ numFail' = [t \in Test |-> IF t \in running[w] THEN numFail[t] + 1 ELSE numFail[t]]
        /\ UNCHANGED <<pos, result>>
    BY DEF ExecFails, collector
  <1>3. numFail' \in [Test -> 0..MaxTestExecErrors]
    BY <1>1, <1>2 DEF TestInv, TestTypes, FewErrors, MaxTestExecErrors
  <1>4. \A t \in Test : t \notin done' => numFail'[t] < MaxTestExecErrors
    BY <1>1, <1>2 DEF TestInv, TestTypes, FewErrors, MaxTestExecErrors
  <1>5. lost \in SUBSET running[w] /\ lost \in SUBSET lost
    OBVIOUS
  <1>6. failures' \subseteq failures \cup lost /\ (failures' # failures => lost # {})
    BY <1>2
  <1>. HIDE DEF lost
  <1>. QED BY <1>2, <1>3, <1>4, <1>5, <1>6, RunEnds

\* cancelAll closes what nobody runs.
LEMMA CancelAllInv ==
  ASSUME TestInv, TestFailed \/ BuildletsGone
  PROVE  TestInv'
BY DEF TestFailed, BuildletsGone, CancelAll, TestInv, TestTypes, OwnTests, FewErrors, HasTests,
       ErrorKept, Collected

\* The collector goes on to the next test.
LEMMA TestPassedInv ==
  ASSUME TestInv, TestPassed
  PROVE  TestInv'
  <1>. USE DEF TestPassed, tests
  <1>0. Len(Items) \in Nat
    BY ItemsFacts
  <1>1. pos \in Nat /\ pos' = pos + 1 /\ pos + 1 <= Len(Items)
    BY <1>0 DEF TestInv, TestTypes
  <1>2. Collected'
    <2>1. \A k \in 1..(pos + 1) : k \in 1..pos \/ k = pos + 1
      BY <1>1
    <2>. QED BY <1>1, <2>1 DEF TestInv, Collected, Awaited
  <1>3. TestTypes'
    BY <1>1 DEF TestInv, TestTypes
  <1>4. OwnTests' /\ FewErrors' /\ HasTests' /\ ErrorKept'
    BY DEF TestInv, OwnTests, FewErrors, HasTests, ErrorKept
  <1>. QED BY <1>2, <1>3, <1>4 DEF TestInv

\* Every step of runTests, its helpers and its build keeps the tests in order.
LEMMA TestNext ==
  ASSUME TestInv, CountTypes, [ShardNext]_shardVars
  PROVE  TestInv'
  <1>1. CASE UNCHANGED shardVars
    BY <1>1, TestStutter DEF shardVars
  <1>2. CASE GetHelpers \/ RunTests \/ FailsEarly
    BY <1>2, TestStutter, BuildletFacts
       DEF GetHelpers, RunTests, FailsEarly, AskHelpers, tests, collector, CountTypes
  <1>3. ASSUME NEW h \in Helper, HelperStep(h) PROVE TestInv'
    <2>1. h \in Buildlet BY BuildletFacts
    <2>. QED
      BY <1>3, <2>1, TestStutter
         DEF HelperStep, HelperReady, HelperRefused, HelperKilled, HelperLaunched, HelperSetUp,
             HelperSetUpFails, HelperIdle, HelperLeaves, tests, collector, CountTypes
  <1>4. ASSUME NEW w \in Buildlet, RunStep(w) PROVE TestInv'
    BY <1>4, TakeTestsInv, RunCompletesInv, ExecFailsInv DEF RunStep
  <1>5. CASE MainEnds \/ LauncherEnds \/ BuildCloses \/ BuildDone \/ BuildCanceled
    BY <1>5, TestStutter, BuildletFacts
       DEF MainEnds, LauncherEnds, BuildCloses, BuildDone, BuildCanceled, tests, collector, CountTypes
  <1>6. CASE TestPassed \/ TestFailed \/ BuildletsGone
    BY <1>6, TestPassedInv, CancelAllInv
  <1>. QED BY <1>1, <1>2, <1>3, <1>4, <1>5, <1>6 DEF ShardNext, Collect

-----------------------------------------------------------------------------
(* The goroutines *)

\* The number of counted goroutines is a number, and no larger than that of the
\* buildlets.
LEMMA LiveFacts ==
  /\ IsFiniteSet(Live) /\ Cardinality(Live) \in Nat
  /\ Cardinality(Live) <= Cardinality(Helper) + 1
  /\ Cardinality(Live) = 0 => Live = {}
  <1>1. Live \subseteq Buildlet
    BY DEF Live
  <1>. QED BY <1>1, BuildletFacts, FS_Subset, FS_CardinalityType, FS_EmptySet

\* The places that count, and those of a helper the launcher has not seen.
Counts == {"setup", "loop", "exec"}
Pending == {"idle", "asked", "offered"}

\* One goroutine goes to another place.  It is counted when it is launched and
\* discounted when it leaves; a helper is launched only by the launcher.
LEMMA MoveInv ==
  ASSUME CountInv, NEW w \in Buildlet, NEW to \in Places, pc' = [pc EXCEPT ![w] = to],
         UNCHANGED <<launcher, result>>,
         pc[w] \notin {"none", "closed"},
         w = Main => pc[w] \in {"loop", "exec"} /\ to \in {"loop", "exec", "closed"},
         pc[w] \in Pending \/ to \notin Pending,
         \/ (pc[w] \in Counts <=> to \in Counts) /\ activity' = activity
         \/ pc[w] \notin Counts /\ to \in Counts /\ launcher /\ activity' = activity + 1
         \/ pc[w] \in Counts /\ to \notin Counts /\ activity' = activity - 1
  PROVE  CountInv'
  <1>. USE DEF Counts, Pending
  <1>1. CountTypes'
    BY DEF CountInv, CountTypes
  <1>2. Launched'
    BY DEF CountInv, CountTypes, Launched, Buildlet
  <1>3. GoneAreGone'
    BY DEF CountInv, CountTypes, GoneAreGone
  <1>4. Counted'
    <2>1. CASE (pc[w] \in Counts <=> to \in Counts) /\ activity' = activity
      <3>1. Live' = Live
        BY <2>1 DEF CountInv, CountTypes, Live
      <3>. QED BY <2>1, <3>1 DEF CountInv, Counted
    <2>2. CASE pc[w] \notin Counts /\ to \in Counts /\ launcher /\ activity' = activity + 1
      <3>1. Live' = Live \cup {w} /\ w \notin Live
        BY <2>2 DEF CountInv, CountTypes, Live
      <3>2. Cardinality(Live') = Cardinality(Live) + 1
        BY <3>1, LiveFacts, FS_AddElement
      <3>3. result \notin {"idle", "error"} /\ activity = Cardinality(Live) + 1
        BY <2>2 DEF CountInv, Counted
      <3>. QED BY <2>2, <3>2, <3>3, LiveFacts DEF Counted
    <2>3. CASE pc[w] \in Counts /\ to \notin Counts /\ activity' = activity - 1
      <3>1. Live' = Live \ {w} /\ w \in Live
        BY <2>3 DEF CountInv, CountTypes, Live
      <3>2. Cardinality(Live') = Cardinality(Live) - 1
        BY <3>1, LiveFacts, FS_RemoveElement
      <3>3. /\ result \notin {"idle", "error"}
            /\ activity = Cardinality(Live) + (IF launcher THEN 1 ELSE 0)
        BY <3>1 DEF CountInv, Counted
      <3>. QED BY <2>3, <3>2, <3>3, LiveFacts DEF Counted
    <2>. QED BY <2>1, <2>2, <2>3
  <1>. QED BY <1>1, <1>2, <1>3, <1>4 DEF CountInv

\* The helpers' own steps.
LEMMA HelperCount ==
  ASSUME CountInv, NEW h \in Helper, HelperStep(h)
  PROVE  CountInv'
  <1>. USE DEF Counts, Pending, Places, tests, collector
  <1>0. h \in Buildlet /\ h # Main
    BY BuildletFacts
  <1>1. CASE HelperReady(h)
    BY <1>0, <1>1, MoveInv DEF HelperReady
  <1>2. CASE HelperRefused(h)
    BY <1>0, <1>2, MoveInv DEF HelperRefused
  <1>3. CASE HelperKilled(h)
    BY <1>0, <1>3, MoveInv DEF HelperKilled
  <1>4. CASE HelperLaunched(h)
    BY <1>0, <1>4, MoveInv DEF HelperLaunched
  <1>5. CASE HelperSetUp(h)
    BY <1>0, <1>5, MoveInv DEF HelperSetUp
  <1>6. CASE HelperSetUpFails(h)
    BY <1>0, <1>6, MoveInv DEF HelperSetUpFails, HelperLeaves
  <1>7. CASE HelperIdle(h)
    BY <1>0, <1>7, MoveInv DEF HelperIdle, HelperLeaves
  <1>. QED BY <1>1, <1>2, <1>3, <1>4, <1>5, <1>6, <1>7 DEF HelperStep

\* A buildlet takes tests, and comes back from running them.
LEMMA RunCount ==
  ASSUME CountInv, NEW w \in Buildlet, RunStep(w)
  PROVE  CountInv'
  <1>. USE DEF Counts, Pending, Places, tests, collector
  <1>1. CASE TakeTests(w)
    BY <1>1, MoveInv DEF TakeTests
  <1>2. ASSUME NEW failed \in BOOLEAN, RunCompletes(w, failed) PROVE CountInv'
    BY <1>2, MoveInv DEF RunCompletes
  <1>3. ASSUME NEW timeout \in BOOLEAN, ExecFails(w, timeout) PROVE CountInv'
    BY <1>3, MoveInv DEF ExecFails
  <1>. QED BY <1>1, <1>2, <1>3 DEF RunStep

\* runTests starts the goroutines of the main buildlet and of the launcher.
LEMMA RunTestsCount ==
  ASSUME CountInv, RunTests
  PROVE  CountInv'
  <1>. USE DEF RunTests, AskHelpers
  <1>1. CountTypes'
    BY BuildletFacts DEF CountInv, CountTypes, Places, Results
  <1>2. Live' = {Main}
    BY BuildletFacts DEF CountInv, CountTypes, Counted, Live
  <1>3. Cardinality(Live') = 1
    BY <1>2, FS_Singleton
  <1>4. Counted'
    BY <1>3 DEF Counted
  <1>5. Launched' /\ GoneAreGone'
    BY BuildletFacts DEF CountInv, CountTypes, Launched, GoneAreGone
  <1>. QED BY <1>1, <1>4, <1>5 DEF CountInv

\* The steps that move several goroutines or none.
LEMMA CollectCount ==
  ASSUME CountInv,
         GetHelpers \/ FailsEarly \/ MainEnds \/ LauncherEnds \/ Collect \/ BuildCanceled
  PROVE  CountInv'
  <1>. USE DEF tests, collector
  <1>1. CASE GetHelpers
    <2>. USE <1>1 DEF GetHelpers, AskHelpers
    <2>1. CountTypes' /\ Live' = Live
      BY DEF CountInv, CountTypes, Live, Places
    <2>2. result \in {"idle", "error"} \/ launcher
      BY DEF CountInv, Launched
    <2>3. Counted'
      BY <2>1 DEF CountInv, Counted
    <2>4. pc'[Main] = pc[Main]
      BY BuildletFacts DEF CountInv, CountTypes
    <2>5. Launched'
      BY <2>2, <2>4 DEF CountInv, Launched
    <2>6. GoneAreGone'
      BY <2>2 DEF CountInv, GoneAreGone
    <2>. QED BY <2>1, <2>3, <2>5, <2>6 DEF CountInv
  <1>2. CASE FailsEarly
    BY <1>2 DEF FailsEarly, CountInv, CountTypes, Results, Counted, Live, Launched, GoneAreGone
  <1>3. CASE MainEnds
    BY <1>3, MoveInv, BuildletFacts DEF MainEnds, Counts, Pending, Places
  <1>4. CASE LauncherEnds
    <2>. USE <1>4 DEF LauncherEnds
    <2>1. CountTypes' /\ Live' = Live
      BY DEF CountInv, CountTypes, Live
    <2>2. Counted'
      BY <2>1, LiveFacts DEF CountInv, Counted
    <2>. QED BY <2>1, <2>2 DEF CountInv, Launched, GoneAreGone
  <1>5. CASE BuildletsGone
    <2>. USE <1>5 DEF BuildletsGone
    <2>1. CountTypes' /\ Live' = Live
      BY DEF CountInv, CountTypes, Results, Live
    <2>2. Live = {} /\ ~launcher
      BY LiveFacts DEF CountInv, CountTypes, Counted
    <2>3. GoneAreGone'
      BY <2>2 DEF CountInv, CountTypes, Live, Launched, GoneAreGone, Places, Buildlet
    <2>. QED BY <2>1, <2>3 DEF CountInv, Counted, Launched
  <1>6. CASE TestPassed \/ TestFailed
    <2>. USE <1>6 DEF TestPassed, TestFailed
    <2>1. /\ result = "running" /\ result' \in {"running", "pass", "fail"}
          /\ UNCHANGED <<pc, launcher, activity>>
      OBVIOUS
    <2>2. CountTypes' /\ Live' = Live
      BY <2>1 DEF CountInv, CountTypes, Results, Live
    <2>3. Counted'
      BY <2>1, <2>2 DEF CountInv, Counted
    <2>. QED BY <2>1, <2>2, <2>3 DEF CountInv, Launched, GoneAreGone
  <1>7. CASE BuildCloses \/ BuildDone \/ BuildCanceled
    BY <1>7 DEF BuildCloses, BuildDone, BuildCanceled, CountInv, CountTypes, Counted, Live,
                Launched, GoneAreGone
  <1>. QED BY <1>1, <1>2, <1>3, <1>4, <1>5, <1>6, <1>7 DEF Collect

-----------------------------------------------------------------------------
(* The theorems *)

\* No test is taken in the beginning.
LEMMA ShardInitInv == ShardInit => ShardInv
  <1>. SUFFICES ASSUME ShardInit PROVE ShardInv
    OBVIOUS
  <1>1. TestInv
    BY ItemsFacts DEF ShardInit, TestInv, TestTypes, OwnTests, FewErrors, HasTests, ErrorKept,
                      Collected, MaxTestExecErrors
  <1>2. CountInv
    BY DEF ShardInit, CountInv, CountTypes, Places, Results, Counted, Live, Launched, GoneAreGone
  <1>. QED BY <1>1, <1>2 DEF ShardInv

\* Every step keeps both parts.
LEMMA ShardNextInv == ShardInv /\ [ShardNext]_shardVars => ShardInv'
  <1>. SUFFICES ASSUME ShardInv, [ShardNext]_shardVars PROVE ShardInv'
    OBVIOUS
  <1>1. TestInv'
    BY TestNext DEF ShardInv, CountInv
  <1>2. ASSUME UNCHANGED shardVars PROVE CountInv'
    BY <1>2 DEF shardVars, ShardInv, CountInv, CountTypes, Counted, Live, Launched, GoneAreGone
  <1>3. ASSUME ShardNext PROVE CountInv'
    BY <1>3, HelperCount, RunCount, RunTestsCount, CollectCount DEF ShardInv, ShardNext
  <1>. QED
    BY <1>1, <1>2, <1>3 DEF ShardInv

\* Both parts of the invariant hold in every reachable state of runTests.
THEOREM ShardInvariant == ShardSpec => []ShardInv
BY ShardInitInv, ShardNextInv, PTL DEF ShardSpec

\* The tokens, the counters and the collector's position stay in range: no test
\* is tried more than three times and the counter of goroutines never is wrong.
THEOREM ShardTypeCorrect == ShardSpec => []ShardTypeOK
  <1>1. ShardInv => ShardTypeOK
    <2>. SUFFICES ASSUME ShardInv PROVE ShardTypeOK
      OBVIOUS
    <2>1. activity \in 0..(2 + Cardinality(Helper))
      BY LiveFacts, BuildletFacts DEF ShardInv, CountInv, CountTypes, Counted
    <2>. QED BY <2>1 DEF ShardInv, TestInv, TestTypes, CountInv, CountTypes, Results, ShardTypeOK
  <1>. QED BY <1>1, ShardInvariant, PTL

\* A test that runs has one owner, who alone will close its channel done,
\* whatever breaks, is given back or is cancelled.
THEOREM TestsHaveOneOwner == ShardSpec => []OwnTests
  <1>1. ShardInv => OwnTests BY DEF ShardInv, TestInv
  <1>. QED BY <1>1, ShardInvariant, PTL

\* runTests reports a pass only if every test is done and no run failed.
THEOREM PassesAreDeserved == ShardSpec => []PassIsDeserved
  <1>1. ShardInv => PassIsDeserved
    <2>. SUFFICES ASSUME ShardInv, result = "pass" PROVE done = Test /\ failures = {}
      BY DEF PassIsDeserved
    <2>1. \A k \in 1..Len(Items) : Items[k] \in done \ remoteErr
      BY DEF ShardInv, TestInv, Collected
    <2>2. Test \subseteq done \ remoteErr
      BY <2>1, ItemsFacts
    <2>. QED BY <2>2 DEF ShardInv, TestInv, TestTypes, ErrorKept
  <1>. QED BY <1>1, ShardInvariant, PTL

\* When runTests says that all buildlets are gone, none is left or will come.
THEOREM GoneForGood == ShardSpec => []GoneAreGone
  <1>1. ShardInv => GoneAreGone BY DEF ShardInv, CountInv
  <1>. QED BY <1>1, ShardInvariant, PTL
=============================================================================
