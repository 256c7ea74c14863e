---------------------------- MODULE TestSharding ----------------------------
(***************************************************************************)
(* runTests of cmd/coordinator/buildstatus.go: the tests of one build are  *)
(* run on the build's own buildlet, in order, and on helper buildlets that *)
(* getBuildlets (coordinator.go) asks the scheduler for, biggest first.    *)
(*                                                                         *)
(* A test is owned by whoever sent to its one-place channel take; its      *)
(* channel done is closed by the owner.  A buildlet that fails to execute  *)
(* gives its tests back, so another one can take them.  The collector      *)
(* waits for the tests one by one, and for the news that no buildlet is    *)
(* left.                                                                   *)
(***************************************************************************)
EXTENDS Naturals, Sequences, SequencesExt

CONSTANTS GoTests,    \* the go_test: tests, packages before commands, by name
          MiscTests,  \* the other tests, in the order of the list
          Duration,   \* the expected duration of each test
          SizeThres,  \* sizeThres: tests are merged up to this duration
          Helper      \* the helper buildlets, NumTestHelpers of them

ASSUME TestsAssumption ==
  /\ GoTests \in Seq(Range(GoTests)) /\ MiscTests \in Seq(Range(MiscTests))
  /\ IsInjective(GoTests \o MiscTests)
  /\ GoTests \o MiscTests # <<>>   \* "Only happens if there's a problem"
  /\ SizeThres \in Nat
  /\ Duration \in [Range(GoTests \o MiscTests) -> Nat]

ASSUME HelperAssumption == IsFiniteSet(Helper) /\ "main" \notin Helper

MaxTestExecErrors == 3

Items == GoTests \o MiscTests
Test == Range(Items)
Main == "main"
Buildlet == Helper \cup {Main}

(***************************************************************************)
(* partitionGoTests: consecutive go tests are merged while the expected    *)
(* durations add up to at most SizeThres.  initInOrder appends the other   *)
(* tests, each alone; initBiggestFirst has every test alone, longest first.*)
(***************************************************************************)
Flush(p) == IF p.cur = <<>> THEN p.sets ELSE Append(p.sets, p.cur)

AddTest(p, t) ==
  IF p.dur + Duration[t] > SizeThres
  THEN [sets |-> Flush(p), cur |-> <<t>>, dur |-> Duration[t]]
  ELSE [p EXCEPT !.cur = Append(@, t), !.dur = @ + Duration[t]]

PartitionGoTests == Flush(FoldLeft(AddTest, [sets |-> <<>>, cur |-> <<>>, dur |-> 0], GoTests))

Singles(tests) == [k \in 1..Len(tests) |-> <<tests[k]>>]
InOrder == PartitionGoTests \o Singles(MiscTests)
BiggestFirst == Singles(SortSeq(Items, LAMBDA s, t : Duration[s] > Duration[t]))

VARIABLES taken,     \* tests whose token is in take
          done,      \* tests whose channel done is closed
          remoteErr, \* tests that carry an error
          numFail,   \* how often a test could not be executed
          running,   \* the tests each buildlet runs
          pc,        \* where the goroutine of each buildlet is
          broken,    \* buildlets that were marked broken or closed
          launcher,  \* is the goroutine that receives helpers still there?
          activity,  \* buildletActivity
          pos,       \* the collector: tests it has seen done
          result,    \* "idle", "running", then what runTests returned
          ctxDone,   \* st.ctx is done
          failures   \* history: tests of a run that failed, or given up

shardVars == <<taken, done, remoteErr, numFail, running, pc, broken, launcher,
          activity, pos, result, ctxDone, failures>>

tests == <<taken, done, remoteErr, numFail, failures>>
collector == <<pos, result, ctxDone>>

ShardInit ==
  /\ taken = {} /\ done = {} /\ remoteErr = {} /\ failures = {}
  /\ numFail = [t \in Test |-> 0]
  /\ running = [w \in Buildlet |-> {}]
  /\ pc = [w \in Buildlet |-> "idle"]
  /\ broken = {}
  /\ launcher = FALSE
  /\ activity = 0
  /\ pos = 0
  /\ result = "idle"
  /\ ctxDone = FALSE

-----------------------------------------------------------------------------
(***************************************************************************)
(* getBuildlets: one goroutine per helper asks the scheduler and then      *)
(* offers the buildlet on a channel without room, or closes it when the    *)
(* context is done.  The channel is closed when all of them have ended.    *)
(***************************************************************************)
AskHelpers == [w \in Buildlet |-> IF pc[w] = "idle" /\ w # Main THEN "asked" ELSE pc[w]]

\* getHelpersReadySoon: a timer asks for them, as a rule while the build is in
\* make.bash; it is never stopped and may ask for a build that has failed.  They
\* are asked for once (onceInitHelpers).
GetHelpers ==
  /\ \E h \in Helper : pc[h] = "idle"
  /\ pc' = AskHelpers
  /\ UNCHANGED <<tests, running, broken, launcher, activity, collector>>

HelperReady(h) ==
  /\ pc[h] = "asked"
  /\ pc' = [pc EXCEPT ![h] = "offered"]
  /\ UNCHANGED <<tests, running, broken, launcher, activity, collector>>

\* sched.GetBuildlet returns an error.
HelperRefused(h) ==
  /\ pc[h] = "asked"
  /\ pc' = [pc EXCEPT ![h] = "none"]
  /\ UNCHANGED <<tests, running, broken, launcher, activity, collector>>

HelperKilled(h) ==
  /\ pc[h] = "offered"
  /\ ctxDone
  /\ pc' = [pc EXCEPT ![h] = "closed"]
  /\ broken' = broken \cup {h}
  /\ UNCHANGED <<tests, running, launcher, activity, collector>>

\* The launcher counts the helper before it starts the helper's goroutine.
HelperLaunched(h) ==
  /\ launcher
  /\ pc[h] = "offered"
  /\ pc' = [pc EXCEPT ![h] = "setup"]
  /\ activity' = activity + 1
  /\ UNCHANGED <<tests, running, broken, launcher, collector>>

LauncherEnds ==
  /\ launcher
  /\ \A h \in Helper : pc[h] \notin {"idle", "asked", "offered"}
  /\ launcher' = FALSE
  /\ activity' = activity - 1
  /\ UNCHANGED <<tests, running, pc, broken, collector>>

\* PutTarFromURL and WorkDir on the helper; if one fails the helper is closed.
HelperSetUp(h) ==
  /\ pc[h] = "setup"
  /\ pc' = [pc EXCEPT ![h] = "loop"]
  /\ UNCHANGED <<tests, running, broken, launcher, activity, collector>>

HelperLeaves(h) ==
  /\ pc' = [pc EXCEPT ![h] = "closed"]
  /\ broken' = broken \cup {h}
  /\ activity' = activity - 1
  /\ UNCHANGED <<tests, running, launcher, collector>>

HelperSetUpFails(h) == pc[h] = "setup" /\ HelperLeaves(h)

\* runTests, once the list of tests is known: the goroutines of the main
\* buildlet and of the launcher are counted and started.
RunTests ==
  /\ result = "idle"
  /\ result' = "running"
  /\ activity' = 2
  /\ launcher' = TRUE
  /\ pc' = [AskHelpers EXCEPT ![Main] = "loop"]
  /\ UNCHANGED <<tests, running, broken, pos, ctxDone>>

\* make.bash, the snapshot, distTestList or WorkDir fails: the build is over
\* before any test was started.
FailsEarly ==
  /\ result = "idle"
  /\ result' = "error"
  /\ UNCHANGED <<tests, running, pc, broken, launcher, activity, pos, ctxDone>>

-----------------------------------------------------------------------------
(***************************************************************************)
(* testsFromSlice: the first chunk with a test whose token can be taken,   *)
(* and of it all such tests.                                               *)
(***************************************************************************)
Free(chunk) == {t \in Test \ taken : t \in Range(chunk)}

TestsFromSlice(chunks) ==
  LET open == {k \in DOMAIN chunks : Free(chunks[k]) # {}}
  IN  IF open = {} THEN {} ELSE Free(chunks[Min(open)])

TestsToRun(w) == TestsFromSlice(IF w = Main THEN InOrder ELSE BiggestFirst)

TakeTests(w) ==
  /\ pc[w] = "loop"
  /\ w \notin broken
  /\ TestsToRun(w) # {}
  /\ running' = [running EXCEPT ![w] = TestsToRun(w)]
  /\ taken' = taken \cup TestsToRun(w)
  /\ pc' = [pc EXCEPT ![w] = "exec"]
  /\ UNCHANGED <<done, remoteErr, numFail, failures, broken, launcher, activity, collector>>

\* A helper that finds nothing to take leaves; the main buildlet stays.
HelperIdle(h) ==
  /\ pc[h] = "loop"
  /\ h \in broken \/ TestsToRun(h) = {}
  /\ HelperLeaves(h)

MainEnds ==
  /\ pc[Main] = "loop"
  /\ Main \in broken \/ (TestsToRun(Main) = {} /\ ctxDone)
  /\ pc' = [pc EXCEPT ![Main] = "closed"]
  /\ activity' = activity - 1
  /\ UNCHANGED <<tests, running, broken, launcher, collector>>

(***************************************************************************)
(* runTestsOnBuildlet, after Exec returned.  The outcome of a merged run   *)
(* is put on its first test.  When Exec fails the buildlet is broken; each *)
(* of its tests fails for good if the error is a timeout or the test could *)
(* not be executed for the third time, and is given back otherwise.        *)
(***************************************************************************)
First(own) == Items[Min({k \in DOMAIN Items : Items[k] \in own})]

RunCompletes(w, failed) ==
  /\ pc[w] = "exec"
  /\ done' = done \cup running[w]
  /\ remoteErr' = IF failed THEN remoteErr \cup {First(running[w])} ELSE remoteErr
  /\ failures' = IF failed THEN failures \cup running[w] ELSE failures
  /\ running' = [running EXCEPT ![w] = {}]
  /\ pc' = [pc EXCEPT ![w] = "loop"]
  /\ UNCHANGED <<taken, numFail, broken, launcher, activity, collector>>

\* Mutant: no test is given back.
ExecFailsKeeping(w, timeout) ==
  LET own == running[w]
      lost == {t \in own : timeout \/ numFail[t] + 1 >= MaxTestExecErrors}
  IN  /\ pc[w] = "exec"
      /\ broken' = broken \cup {w}
      /\ numFail' = [t \in Test |-> IF t \in own THEN numFail[t] + 1 ELSE numFail[t]]
      /\ done' = done \cup lost
      /\ remoteErr' = remoteErr \cup lost
      /\ failures' = failures \cup lost
      /\ running' = [running EXCEPT ![w] = {}]
      /\ pc' = [pc EXCEPT ![w] = "loop"]
      /\ UNCHANGED <<taken, launcher, activity, collector>>

\* Mutant: a test that is given up carries no error.
ExecFailsQuietly(w, timeout) ==
  LET own == running[w]
      lost == {t \in own : timeout \/ numFail[t] + 1 >= MaxTestExecErrors}
  IN  /\ pc[w] = "exec"
      /\ broken' = broken \cup {w}
      /\ numFail' = [t \in Test |-> IF t \in own THEN numFail[t] + 1 ELSE numFail[t]]
      /\ done' = done \cup lost
      /\ failures' = failures \cup lost
      /\ taken' = taken \ (own \ lost)
      /\ running' = [running EXCEPT ![w] = {}]
      /\ pc' = [pc EXCEPT ![w] = "loop"]
      /\ UNCHANGED <<remoteErr, launcher, activity, collector>>

ExecFails(w, timeout) ==
  LET own == running[w]
      lost == {t \in own : timeout \/ numFail[t] + 1 >= MaxTestExecErrors}
  IN  /\ pc[w] = "exec"
      /\ broken' = broken \cup {w}
      /\ numFail' = [t \in Test |-> IF t \in own THEN numFail[t] + 1 ELSE numFail[t]]
      /\ done' = done \cup lost
      /\ remoteErr' = remoteErr \cup lost
      /\ failures' = failures \cup lost
      /\ taken' = taken \ (own \ lost)
      /\ running' = [running EXCEPT ![w] = {}]
      /\ pc' = [pc EXCEPT ![w] = "loop"]
      /\ UNCHANGED <<launcher, activity, collector>>

-----------------------------------------------------------------------------
(***************************************************************************)
(* The collector: the next test's done, or buildletsGone; a select takes   *)
(* either when both are ready.  cancelAll takes every token that is free.  *)
(***************************************************************************)
Awaited == Items[pos + 1]
Returned == result \notin {"idle", "running"}

TestPassed ==
  /\ result = "running"
  /\ pos < Len(Items)
  /\ Awaited \in done \ remoteErr
  /\ pos' = pos + 1
  /\ result' = IF pos + 1 = Len(Items) THEN "pass" ELSE "running"
  /\ UNCHANGED <<tests, running, pc, broken, launcher, activity, ctxDone>>

CancelAll == taken' = Test

TestFailed ==
  /\ result = "running"
  /\ pos < Len(Items)
  /\ Awaited \in done \cap remoteErr
  /\ CancelAll
  /\ result' = "fail"
  /\ UNCHANGED <<done, remoteErr, numFail, failures, running, pc, broken, launcher,
                 activity, pos, ctxDone>>

BuildletsGone ==
  /\ result = "running"
  /\ activity = 0
  /\ CancelAll
  /\ result' = "gone"
  /\ UNCHANGED <<done, remoteErr, numFail, failures, running, pc, broken, launcher,
                 activity, pos, ctxDone>>

\* After runTests, build() closes the main buildlet and setDone ends the context.
BuildCloses ==
  /\ Returned
  /\ Main \notin broken
  /\ broken' = broken \cup {Main}
  /\ UNCHANGED <<tests, running, pc, launcher, activity, collector>>

BuildDone ==
  /\ Returned
  /\ Main \in broken
  /\ ~ctxDone
  /\ ctxDone' = TRUE
  /\ UNCHANGED <<tests, running, pc, broken, launcher, activity, pos, result>>

\* cancelBuild, at any time: the context and the main buildlet are taken away.
BuildCanceled ==
  /\ ~ctxDone
  /\ ctxDone' = TRUE
  /\ broken' = broken \cup {Main}
  /\ UNCHANGED <<tests, running, pc, launcher, activity, pos, result>>

-----------------------------------------------------------------------------
HelperStep(h) ==
  \/ HelperReady(h) \/ HelperRefused(h) \/ HelperKilled(h) \/ HelperLaunched(h)
  \/ HelperSetUp(h) \/ HelperSetUpFails(h) \/ HelperIdle(h)

RunStep(w) ==
  \/ TakeTests(w)
  \/ \E failed \in BOOLEAN : RunCompletes(w, failed)
  \/ \E timeout \in BOOLEAN : ExecFails(w, timeout)

Collect == TestPassed \/ TestFailed \/ BuildletsGone \/ BuildCloses \/ BuildDone

ShardNext ==
  \/ GetHelpers \/ RunTests \/ FailsEarly
  \/ \E h \in Helper : HelperStep(h)
  \/ \E w \in Buildlet : RunStep(w)
  \/ MainEnds \/ LauncherEnds \/ Collect \/ BuildCanceled

\* A build that has asked for helpers gets to its tests or fails before;
\* each goroutine runs on; the scheduler answers each request, with a buildlet
\* or an error; Exec returns, at the latest when its timeout expires.
ShardFairness ==
  /\ WF_shardVars(AskHelpers = pc /\ (RunTests \/ FailsEarly))
  /\ \A h \in Helper : WF_shardVars(HelperStep(h))
  /\ \A w \in Buildlet : WF_shardVars(RunStep(w))
  /\ WF_shardVars(MainEnds) /\ WF_shardVars(LauncherEnds) /\ WF_shardVars(Collect)

ShardSpec == ShardInit /\ [][ShardNext]_shardVars /\ ShardFairness

-----------------------------------------------------------------------------
ShardTypeOK ==
  /\ taken \subseteq Test /\ done \subseteq Test /\ remoteErr \subseteq done
  /\ numFail \in [Test -> 0..MaxTestExecErrors]
  /\ activity \in 0..(2 + Cardinality(Helper))
  /\ pos \in 0..Len(Items)
  /\ result \in {"idle", "running", "error", "pass", "fail", "gone"}

\* What a buildlet runs is its own: no other buildlet runs it, its token is
\* taken, and its channel done is still open, so that closing it cannot panic.
\* Tokens are given back by buildlets that broke and taken by cancelAll.
OwnTests ==
  \A w \in Buildlet : \A t \in running[w] :
    /\ t \in taken \ done
    /\ \A v \in Buildlet \ {w} : t \notin running[v]

\* "All tests passed" is printed only when every test was in a run that
\* completed and none of them in a run that failed, although a merged run's
\* error is kept on one of its tests.
PassIsDeserved == result = "pass" => done = Test /\ failures = {}

\* When runTests reports that the buildlets are gone, none of them is running
\* or will run a test: a helper is counted before its goroutine starts.
GoneAreGone ==
  result = "gone" => ~launcher /\ \A w \in Buildlet : pc[w] \in {"none", "closed"}

\* runTests returns, whichever buildlets break and however late the helpers are.
RunTestsReturns == result = "running" ~> Returned

\* In the end no helper is left open and no goroutine that asks for one or offers
\* one, whenever the helper arrived: during the tests, after them, or because the
\* timer of a build that never got to its tests asked for it.
HelpersClosed == <>[](\A h \in Helper : pc[h] \in {"idle", "none", "closed"})

\* Whatever breaks and whatever is late, the tests of a build come to an end:
\* runTests returns, and nothing of its helpers is left.
TestsEnd == RunTestsReturns /\ HelpersClosed
=============================================================================
