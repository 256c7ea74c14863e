------------------------------ MODULE TrySets ------------------------------
(***************************************************************************)
(* What the coordinator builds and for whom: cmd/coordinator/coordinator.go*)
(* and the life of a buildStatus in cmd/coordinator/buildstatus.go.        *)
(*                                                                         *)
(* findTryWork keeps the map tries from try keys to try sets and starts    *)
(* one build per builder for each new set; awaitTryBuild restarts a build  *)
(* that ended without an answer and noteBuildComplete reports to Gerrit.   *)
(* findWork starts post-submit builds.  All builds share the map status,   *)
(* keyed by what is built and not by who asked for it.                     *)
(*                                                                         *)
(* Each critical section of statusMu, of a set's mu and of a build's mu is *)
(* one action; the goroutines that run between two of them are program     *)
(* counters (await, and the phase of a build) or sets of calls that have   *)
(* been started and have not run yet (canceling, closing).                 *)
(***************************************************************************)
EXTENDS Naturals, FiniteSets

CONSTANTS Key,       \* the (project, branch, change, commit) keys of try sets
          Builder,   \* the builders every try set runs on
          Work,      \* revisions on the dashboard, each a commit and a builder
          MaxSets,   \* bound: try sets created in a behaviour
          MaxBuilds, \* bound: builds started for one builder of one set
          MaxWork    \* bound: post-submit builds of one revision

ASSUME BoundsAssumption ==
  MaxSets \in Nat \ {0} /\ MaxBuilds \in Nat \ {0} /\ MaxWork \in Nat \ {0}

\* The builders of a set are those in a slice.
ASSUME BuilderAssumption == IsFiniteSet(Builder)

VARIABLES tries,     \* tries: the current set of each key, 0 for none
          set,       \* the try sets created so far
          await,     \* the goroutine awaitTryBuild of each set and builder
          build,     \* the builds created so far
          status,    \* status: the build registered for a revision, or NoBuild
          canceling, \* sets whose cancelBuilds has been started
          closing,   \* builds whose cancelBuild has been started
          review,    \* Gerrit: what has been posted for each set
          results,   \* the dashboard: revisions with a recorded result
          todo,      \* findWork: revisions it still has to look at
          adding     \* addWorkDetail: the revision it is about to build

tryVars == <<tries, set, await, build, status, canceling, closing, review,
          results, todo, adding>>

gerrit == <<review>>
work == <<results, todo, adding>>

None == "none"
NoRev == <<>>
NoBuild == [set |-> 0, rev |-> NoRev, n |-> 0]
PostSubmit == 0       \* the set of a build that belongs to none
SetIds == 1..MaxSets
Revs == (Key \X Builder) \cup Work

ASSUME WorkAssumption == NoRev \notin Work

(***************************************************************************)
(* A build is named by its set, its revision and how many builds of the    *)
(* same set and revision came before it.                                   *)
(***************************************************************************)
BuildOf(s, rev, n) == [set |-> s, rev |-> rev, n |-> n]
RevOf(s, b) == <<set[s].key, b>>
CurrentBuild(s, b) == BuildOf(s, RevOf(s, b), await[<<s, b>>].n)

\* newBuild: a build whose goroutine has not entered start yet.
NewBuild == [phase |-> "new", event |-> FALSE, good |-> FALSE,
             canceled |-> FALSE, ctxDone |-> FALSE, succeeded |-> FALSE]

NewTrySet(k) == [key |-> k, canceled |-> FALSE, remain |-> Cardinality(Builder),
                 failed |-> {}, builds |-> [b \in Builder |-> 1]]

NewAwait == [pc |-> "wait", n |-> 1, remain |-> 0, numFail |-> 0]

TryInit ==
  /\ tries = [k \in Key |-> 0]
  /\ set = <<>>
  /\ await = [x \in SetIds \X Builder |-> [NewAwait EXCEPT !.pc = "quit"]]
  /\ build = [x \in {} |-> NewBuild]
  /\ status = [r \in Revs |-> NoBuild]
  /\ canceling = {}
  /\ closing = {}
  /\ review = [s \in SetIds |-> [verdict |-> None, votes |-> 0,
                                 progress |-> FALSE, lost |-> FALSE]]
  /\ results = {}
  /\ todo = {}
  /\ adding = NoRev

With(f, x, v) == [y \in DOMAIN f \cup {x} |-> IF y = x THEN v ELSE f[y]]

-----------------------------------------------------------------------------
(***************************************************************************)
(* findTryWork: maintner says which keys are wanted.  Keys that are not    *)
(* wanted any more lose their entry and their builds are cancelled in the  *)
(* background; the first wanted key without an entry gets a set.  A poll   *)
(* that finds several new keys is several of these steps: the builds of    *)
(* one set do not look at another key.                                     *)
(***************************************************************************)
CreateTrySet(k) ==
  LET s == Cardinality(DOMAIN set) + 1
  IN  /\ tries' = [tries EXCEPT ![k] = s]
      /\ set' = With(set, s, NewTrySet(k))
      /\ await' = [x \in DOMAIN await |-> IF x[1] = s THEN NewAwait ELSE await[x]]
      /\ build' = [i \in DOMAIN build \cup {BuildOf(s, <<k, b>>, 1) : b \in Builder} |->
                     IF i \in DOMAIN build THEN build[i] ELSE NewBuild]
      /\ status' = [r \in Revs |->
                      IF r \in {k} \X Builder THEN BuildOf(s, r, 1) ELSE status[r]]

FindTryWork(k) ==
  /\ tries[k] = 0
  /\ Cardinality(DOMAIN set) < MaxSets
  /\ CreateTrySet(k)
  /\ UNCHANGED <<canceling, closing, gerrit, work>>

TryUnwanted(k) ==
  /\ tries[k] # 0
  /\ tries' = [tries EXCEPT ![k] = 0]
  /\ canceling' = canceling \cup {tries[k]}
  /\ UNCHANGED <<set, await, build, status, closing, gerrit, work>>

\* cancelBuilds: the mark comes first, then each build is cancelled by a
\* goroutine of its own.
CancelBuilds(s) ==
  /\ s \in canceling
  /\ canceling' = canceling \ {s}
  /\ set' = [set EXCEPT ![s].canceled = TRUE]
  /\ closing' = closing \cup
       (IF set[s].canceled THEN {}
        ELSE {BuildOf(s, RevOf(s, b), set[s].builds[b]) : b \in Builder})
  /\ UNCHANGED <<tries, await, build, status, gerrit, work>>

\* cancelBuild of a build, after which its context is done.
CancelBuild(i) ==
  /\ i \in closing
  /\ closing' = closing \ {i}
  /\ build' = [build EXCEPT ![i].canceled = TRUE, ![i].ctxDone = TRUE]
  /\ UNCHANGED <<tries, set, await, status, canceling, gerrit, work>>

-----------------------------------------------------------------------------
(***************************************************************************)
(* The goroutine of a build: start registers it, build() runs it, setDone  *)
(* publishes the outcome unless the build was cancelled, markDone takes    *)
(* whatever is registered for the revision out of status.                  *)
(***************************************************************************)
Start(i) ==
  /\ build[i].phase = "new"
  /\ build' = [build EXCEPT ![i].phase = "running"]
  /\ status' = [status EXCEPT ![i.rev] = i]
  /\ UNCHANGED <<tries, set, await, canceling, closing, gerrit, work>>

Returns(i, event, good) ==
  /\ build[i].phase = "running"
  /\ build' = [build EXCEPT ![i].phase = "over", ![i].event = event, ![i].good = good]
  /\ UNCHANGED <<tries, set, await, status, canceling, closing, gerrit, todo, adding>>

\* The build ran to its end, or was skipped because a dependency is missing:
\* the event that awaitTryBuild looks for is in the log.  A post-submit build
\* also tells the dashboard, and fails if the dashboard does not answer.
BuildEnds(i, good) ==
  \/ /\ i.set # PostSubmit
     /\ Returns(i, TRUE, good)
     /\ UNCHANGED results
  \/ /\ i.set = PostSubmit
     /\ Returns(i, TRUE, good)
     /\ results' = results \cup {i.rev}
  \/ /\ i.set = PostSubmit
     /\ Returns(i, TRUE, FALSE)
     /\ UNCHANGED results

\* A communication error: build returns it before it logs the event.
BuildBreaks(i) ==
  /\ i.n < (IF i.set = PostSubmit THEN MaxWork ELSE MaxBuilds) \/ build[i].canceled
  /\ Returns(i, FALSE, FALSE)
  /\ UNCHANGED results

SetDone(i) ==
  /\ build[i].phase = "over"
  /\ build' = [build EXCEPT ![i].phase = "set",
                            ![i].succeeded = ~build[i].canceled /\ build[i].good,
                            ![i].ctxDone = TRUE]
  /\ UNCHANGED <<tries, set, await, status, canceling, closing, gerrit, work>>

MarkDone(i) ==
  /\ build[i].phase = "set"
  /\ build' = [build EXCEPT ![i].phase = "gone"]
  /\ status' = [status EXCEPT ![i.rev] = NoBuild]
  /\ UNCHANGED <<tries, set, await, canceling, closing, gerrit, work>>

-----------------------------------------------------------------------------
(***************************************************************************)
(* awaitTryBuild: wait for the build's context; if the log has the event,  *)
(* report the build; otherwise sleep, and start another build if the set's *)
(* key is still in tries.                                                  *)
(***************************************************************************)
Wanted(s) == tries[set[s].key] # 0

Step(s, b, from, to) ==
  /\ await[<<s, b>>].pc = from
  /\ await' = [await EXCEPT ![<<s, b>>].pc = to]

\* Ten minutes have passed and the set is not wanted.
AwaitGivesUp(s, b) ==
  /\ ~Wanted(s)
  /\ Step(s, b, "wait", "quit")
  /\ UNCHANGED <<tries, set, build, status, canceling, closing, gerrit, work>>

\* Mutant: a build that broke is not started again.
AwaitRetriesNever(s, b) ==
  /\ build[CurrentBuild(s, b)].ctxDone
  /\ ~build[CurrentBuild(s, b)].event
  /\ Step(s, b, "wait", "quit")
  /\ UNCHANGED <<tries, set, build, status, canceling, closing, gerrit, work>>

AwaitRetries(s, b) ==
  /\ build[CurrentBuild(s, b)].ctxDone
  /\ ~build[CurrentBuild(s, b)].event
  /\ Step(s, b, "wait", "sleep")
  /\ UNCHANGED <<tries, set, build, status, canceling, closing, gerrit, work>>

AwaitWakes(s, b) ==
  /\ Step(s, b, "sleep", IF Wanted(s) THEN "restart" ELSE "quit")
  /\ UNCHANGED <<tries, set, build, status, canceling, closing, gerrit, work>>

AwaitRestarts(s, b) ==
  /\ await[<<s, b>>].pc = "restart"
  /\ await[<<s, b>>].n < MaxBuilds
  /\ await' = [await EXCEPT ![<<s, b>>].pc = "install", ![<<s, b>>].n = @ + 1]
  /\ build' = With(build, BuildOf(s, RevOf(s, b), await[<<s, b>>].n + 1), NewBuild)
  /\ UNCHANGED <<tries, set, status, canceling, closing, gerrit, work>>

AwaitInstalls(s, b) ==
  /\ Step(s, b, "install", "wait")
  /\ set' = [set EXCEPT ![s].builds[b] = await[<<s, b>>].n]
  /\ UNCHANGED <<tries, build, status, canceling, closing, gerrit, work>>

(***************************************************************************)
(* noteBuildComplete: count the build under the set's lock, and be quiet   *)
(* if the set was cancelled; write the log to cloud storage; then the      *)
(* first failure posts that builds are in progress and the last build      *)
(* posts the verdict.  The text of the failures (errMsg) is left out.      *)
(***************************************************************************)
\* Mutant: a set that was cancelled reports all the same.
NoteBuildCompleteCanceled(s, b) ==
  LET i == CurrentBuild(s, b)
      failed == IF build[i].succeeded THEN set[s].failed ELSE set[s].failed \cup {b}
  IN  /\ await[<<s, b>>].pc = "wait"
      /\ build[i].ctxDone
      /\ build[i].event
      /\ set' = [set EXCEPT ![s].remain = @ - 1, ![s].failed = failed]
      /\ await' = [await EXCEPT ![<<s, b>>].pc = "upload",
                                ![<<s, b>>].remain = set[s].remain - 1,
                                ![<<s, b>>].numFail = Cardinality(failed)]
      /\ UNCHANGED <<tries, build, status, canceling, closing, gerrit, work>>

NoteBuildComplete(s, b) ==
  LET i == CurrentBuild(s, b)
      failed == IF build[i].succeeded THEN set[s].failed ELSE set[s].failed \cup {b}
  IN  /\ await[<<s, b>>].pc = "wait"
      /\ build[i].ctxDone
      /\ build[i].event
      /\ set' = [set EXCEPT ![s].remain = @ - 1, ![s].failed = failed]
      /\ await' = [await EXCEPT ![<<s, b>>].pc = IF set[s].canceled THEN "quit" ELSE "upload",
                                ![<<s, b>>].remain = set[s].remain - 1,
                                ![<<s, b>>].numFail = Cardinality(failed)]
      /\ UNCHANGED <<tries, build, status, canceling, closing, gerrit, work>>

Lose(s) == review' = [review EXCEPT ![s].lost = TRUE]

UploadFails(s, b) ==
  /\ Step(s, b, "upload", "quit")
  /\ Lose(s)
  /\ UNCHANGED <<tries, set, build, status, canceling, closing, work>>

IsFinal(s, b) == await[<<s, b>>].remain = 0
IsFirstFailure(s, b) == ~build[CurrentBuild(s, b)].succeeded /\ await[<<s, b>>].numFail = 1

UploadLog(s, b) ==
  /\ Step(s, b, "upload", IF IsFinal(s, b) \/ IsFirstFailure(s, b) THEN "post" ELSE "quit")
  /\ UNCHANGED <<tries, set, build, status, canceling, closing, gerrit, work>>

Verdict(s, b) == IF await[<<s, b>>].numFail = 0 THEN "happy" ELSE "failed"

Post(s, b) ==
  /\ Step(s, b, "post", "quit")
  /\ review' = IF IsFinal(s, b)
                THEN [review EXCEPT ![s].verdict = Verdict(s, b), ![s].votes = @ + 1]
                ELSE [review EXCEPT ![s].progress = TRUE]
  /\ UNCHANGED <<tries, set, build, status, canceling, closing, work>>

\* SetReview fails: the error is logged and nothing is tried again.
PostFails(s, b) ==
  /\ Step(s, b, "post", "quit")
  /\ Lose(s)
  /\ UNCHANGED <<tries, set, build, status, canceling, closing, work>>

-----------------------------------------------------------------------------
(***************************************************************************)
(* findWork: one look at the dashboard gives the revisions that have no    *)
(* result; each is built unless something is registered for it in status.  *)
(***************************************************************************)
FindWork ==
  /\ todo = {} /\ adding = NoRev
  /\ todo' = Work \ results
  /\ todo' # {}
  /\ UNCHANGED <<tries, set, await, build, status, canceling, closing, gerrit,
                 results, adding>>

PostBuilds(r) == {i \in DOMAIN build : i.set = PostSubmit /\ i.rev = r}

\* Mutant: only builds that are known to run count.
IsBuildingNow(r) == status[r] # NoBuild /\ build[status[r]].phase = "running"

IsBuilding(r) == status[r] # NoBuild

AddWork(r) ==
  /\ adding = NoRev
  /\ r \in todo
  /\ todo' = todo \ {r}
  /\ adding' = IF IsBuilding(r) \/ Cardinality(PostBuilds(r)) = MaxWork
               THEN NoRev ELSE r
  /\ UNCHANGED <<tries, set, await, build, status, canceling, closing, gerrit, results>>

StartWork ==
  LET i == BuildOf(PostSubmit, adding, Cardinality(PostBuilds(adding)) + 1)
  IN  /\ adding # NoRev
      /\ build' = With(build, i, [NewBuild EXCEPT !.phase = "running"])
      /\ status' = [status EXCEPT ![adding] = i]
      /\ adding' = NoRev
      /\ UNCHANGED <<tries, set, await, canceling, closing, gerrit, results, todo>>

-----------------------------------------------------------------------------
BuildStep(i) ==
  \/ Start(i) \/ SetDone(i) \/ MarkDone(i)
  \/ \E good \in BOOLEAN : BuildEnds(i, good)
  \/ BuildBreaks(i)

AwaitStep(s, b) ==
  \/ AwaitGivesUp(s, b) \/ AwaitRetries(s, b) \/ AwaitWakes(s, b)
  \/ AwaitRestarts(s, b) \/ AwaitInstalls(s, b) \/ NoteBuildComplete(s, b)
  \/ UploadFails(s, b) \/ UploadLog(s, b) \/ Post(s, b) \/ PostFails(s, b)

FindStep ==
  \/ FindWork \/ StartWork
  \/ \E r \in todo : AddWork(r)

UserStep == \E k \in Key : FindTryWork(k) \/ TryUnwanted(k)

GoroutineStep ==
  \/ \E s \in DOMAIN set : CancelBuilds(s)
  \/ \E s \in DOMAIN set, b \in Builder : AwaitStep(s, b)
  \/ \E i \in DOMAIN build : BuildStep(i) \/ CancelBuild(i)

TryNext == UserStep \/ GoroutineStep \/ FindStep

TrySpec == TryInit /\ [][TryNext]_tryVars

\* Every goroutine that can take a step takes one in the end: builds end, timers
\* fire, calls to Gerrit and to cloud storage return.  Nothing is assumed about
\* what users ask for.
TryFairness ==
  /\ \A s \in SetIds, b \in Builder : WF_tryVars(s \in DOMAIN set /\ AwaitStep(s, b))
  /\ WF_tryVars(\E s \in DOMAIN set : CancelBuilds(s))
  /\ WF_tryVars(\E i \in DOMAIN build : CancelBuild(i))
  /\ \A s \in SetIds \cup {PostSubmit} :
        WF_tryVars(\E i \in DOMAIN build : i.set = s /\ BuildStep(i))

TryFairSpec == TrySpec /\ TryFairness
-----------------------------------------------------------------------------
\* What Gerrit is told about a set is what its builds did: the vote is +1 only if
\* every builder's last build ran to its end and succeeded, and -1 only if some
\* build failed by itself.  A build that the coordinator cancelled after its end
\* was logged looks like a failed one to noteBuildComplete.  And the vote is cast
\* once: several goroutines count the remaining builds down and only the one that
\* reached zero votes.
VerdictIsDeserved ==
  \A s \in DOMAIN set :
    LET Last(b) == build[CurrentBuild(s, b)]
    IN  /\ review[s].verdict = "happy" => \A b \in Builder : Last(b).event /\ Last(b).good
        /\ review[s].verdict = "failed" => \E b \in Builder : Last(b).event /\ ~Last(b).good
        /\ review[s].votes <= 1

TryBuilds(r) == {i \in DOMAIN build : i.set # PostSubmit /\ i.rev = r}
NotGone(S) == {i \in S : build[i].phase # "gone"}

\* How often a revision is in post-submit builds at once: never twice while no
\* try set has built it, and once more for each build that try sets made of it.
\* findWork looks at status and registers in status under two holdings of the
\* lock, a try build registers over what is there, and markDone takes out
\* whatever is registered for the revision: the two running "with the same key"
\* that setStatus asks about do happen, and hide each other, but no more.
OneBuildPerWork ==
  \A r \in Work : Cardinality(NotGone(PostBuilds(r))) <= 1 + Cardinality(TryBuilds(r))

\* A try set that stays wanted is answered, unless a call to cloud storage or to
\* Gerrit failed: builds that break are started again until one ends.
TryAnswered ==
  \A s \in SetIds :
    s \in DOMAIN set ~> \/ review[s].verdict # None
                        \/ review[s].lost
                        \/ s \in DOMAIN set /\ set[s].canceled
=============================================================================
