--------------------------- MODULE MaintnerProofs ---------------------------
(***************************************************************************)
(* What holds of gopherbot on an issue, whatever people do to the issue,   *)
(* however far the corpus is behind GitHub, and whichever calls fail; and  *)
(* of the mutation log, whatever the leader loses in a crash and whatever  *)
(* a client finds in its files.                                            *)
(***************************************************************************)
EXTENDS Gopherbot, MutationLog, FiniteSetTheorems, SequenceTheorems, WellFoundedInduction, TLAPS

\* The changing part of what the bot writes, as the corpus has it.
Text(do, what) ==
    IF do = "opened" \/ what = "opened" THEN Title(seen["issue"])
    ELSE IF what = "mentions" THEN Subject(seen["gerrit"]) ELSE 0

Speaks == {"comment", "opened"}
Renames == {"retitled", "reworded"}

\* A call that renames nothing and is worded as the corpus has it.
Worded(c) == c.do \notin Renames /\ (c.do \in Speaks => c.text = Text(c.do, c.what))
AllWorded(calls) == \A k \in 1 .. Len(calls) : Worded(calls[k])

\* A sequence of such calls none of which closes the issue.
Plain(c) == c.do # "closed" /\ Worded(c)
Harmless(calls) == \E S : calls \in Seq(S) /\ \A c \in S : Plain(c)

\* The bot has told the issue why it closes it.
Told == \E j \in 1 .. Len(log) : log[j].do = "comment" /\ log[j].what \in Reasons /\ ByBot(j)

\* What closes the issue comes after what tells it why.
Explained(calls) ==
    /\ \E S : calls \in Seq(S)
    /\ \A k \in 1 .. Len(calls) : calls[k].do = "closed" =>
         \/ \E i \in 1 .. k - 1 : calls[i].do = "comment" /\ calls[i].what \in Reasons
         \/ Told

\* Of the log: only the bot gives its reasons.
LogInv ==
    /\ \E S : log \in Seq(S)
    /\ \A i \in 1 .. Len(log) : log[i].do = "comment" /\ log[i].what \in Reasons => ByBot(i)
    /\ ClosedWithReason

\* The words of the bot are those that people gave, and not newer than those in
\* the corpus, so that what it says next is as new.
Given(x) == x = 0 \/ (x \in 1 .. Len(log) /\ log[x].do \in Renames)
WordsInv ==
    /\ \A f \in Feed : seen[f] <= Len(log)
    /\ \A i \in 1 .. Len(log) : log[i].do \in Renames => ~ByBot(i)
    /\ \A i \in 1 .. Len(log) : ByBot(i) /\ log[i].do \in Speaks =>
          Given(log[i].text) /\ log[i].text <= Text(log[i].do, log[i].what)
    /\ NothingTwice

BotInv ==
    /\ LogInv /\ WordsInv
    /\ scene \in Scenario /\ seen \in [Feed -> Nat]
    /\ todo = [t \in Task |-> todo[t]]
    /\ \A t \in Task : Explained(todo[t]) /\ AllWorded(todo[t])

-----------------------------------------------------------------------------
(* Sequences of calls *)

LEMMA HarmlessOf ==
  ASSUME NEW a, NEW S, a \in Seq(S), \A c \in S : Plain(c)
  PROVE  Harmless(a)
BY DEF Harmless

LEMMA HarmlessEmpty == Harmless(<<>>)
  <1>1. PICK a, S : a = <<>> /\ S = {}
    OBVIOUS
  <1>2. a \in Seq(S) /\ \A c \in S : Plain(c)
    BY <1>1
  <1>3. Harmless(a)
    BY <1>2, HarmlessOf
  <1>. QED BY <1>1, <1>3

LEMMA HarmlessOne ==
  ASSUME NEW c, Plain(c)
  PROVE  Harmless(<<c>>)
  <1>1. PICK a, S : a = <<c>> /\ S = {c}
    OBVIOUS
  <1>2. a \in Seq(S) /\ \A d \in S : Plain(d)
    BY <1>1
  <1>3. Harmless(a)
    BY <1>2, HarmlessOf
  <1>. QED BY <1>1, <1>3

\* The calls that write nothing, and those that write.
LEMMA PlainCall ==
  ASSUME NEW do \in {"labeled", "unlabeled", "milestoned", "locked"}, NEW what
  PROVE  Plain(Call(do, what))
BY DEF Plain, Worded, Call, Writes, Speaks, Renames

LEMMA PlainWrites ==
  ASSUME NEW do \in Speaks, NEW what
  PROVE  Plain(Writes(do, what, Text(do, what)))
BY DEF Plain, Worded, Writes, Speaks, Renames

LEMMA HarmlessConcat ==
  ASSUME NEW a, NEW b, Harmless(a), Harmless(b)
  PROVE  Harmless(a \o b)
  <1>1. PICK S : a \in Seq(S) /\ \A c \in S : Plain(c)
    BY DEF Harmless
  <1>2. PICK T : b \in Seq(T) /\ \A c \in T : Plain(c)
    BY DEF Harmless
  <1>3. a \in Seq(S \cup T) /\ b \in Seq(S \cup T)
    BY <1>1, <1>2
  <1>4. a \o b \in Seq(S \cup T)
    BY <1>3
  <1>. QED BY <1>1, <1>2, <1>4 DEF Harmless

LEMMA HarmlessWhen ==
  ASSUME NEW condition, NEW a, Harmless(a)
  PROVE  Harmless(When(condition, a))
BY HarmlessEmpty DEF When

\* SetToSeq is a sequence of the elements of a finite set.
LEMMA HarmlessSet ==
  ASSUME NEW S, IsFiniteSet(S), \A c \in S : Plain(c)
  PROVE  Harmless(SetToSeq(S))
  <1>. DEFINE n == Cardinality(S)
  <1>1. n \in Nat /\ ExistsBijection(1 .. n, S)
    BY FS_CardinalityType
  <1>2. PICK f \in [1 .. n -> S] : IsInjective(f)
    BY <1>1 DEF ExistsBijection, Bijection, Injection, IsInjective
  <1>3. SetToSeq(S) \in [1 .. n -> S]
    BY <1>2 DEF SetToSeq
  <1>4. SetToSeq(S) \in Seq(S)
    BY <1>1, <1>3
  <1>. QED BY <1>4 DEF Harmless

LEMMA HarmlessExplained ==
  ASSUME NEW a, Harmless(a)
  PROVE  Explained(a) /\ AllWorded(a)
  <1>1. PICK S : a \in Seq(S) /\ \A c \in S : Plain(c)
    BY DEF Harmless
  <1>2. \A k \in 1 .. Len(a) : a[k] \in S
    BY <1>1
  <1>. QED BY <1>1, <1>2 DEF Explained, AllWorded, Plain

\* addGitHubComment comes before closeGitHubIssue.
LEMMA CloseExplained ==
  ASSUME NEW condition, NEW reason \in Reasons
  PROVE  /\ Explained(When(condition, CloseWith(reason)))
         /\ AllWorded(When(condition, CloseWith(reason)))
  <1>1. Explained(<<>>) /\ AllWorded(<<>>)
    BY HarmlessEmpty, HarmlessExplained
  <1>2. Explained(CloseWith(reason)) /\ AllWorded(CloseWith(reason))
    <2>. DEFINE a == CloseWith(reason)
    <2>1. /\ a \in Seq({Call("comment", reason), Call("closed", "issue")}) /\ Len(a) = 2
          /\ a[1] = Call("comment", reason) /\ a[2] = Call("closed", "issue")
      BY DEF CloseWith
    <2>2. a[1].do = "comment" /\ a[1].what = reason /\ a[2].do = "closed"
      BY <2>1 DEF Call, Writes
    <2>6. Worded(a[1]) /\ Worded(a[2])
      <3>1. a[1].text = 0 /\ Text("comment", reason) = 0
        BY <2>1 DEF Call, Writes, Text, Reasons
      <3>. QED BY <2>2, <3>1 DEF Worded, Speaks, Renames
    <2>. HIDE DEF a
    <2>3. \A k \in 1 .. Len(a) : a[k].do = "closed" =>
            \E i \in 1 .. k - 1 : a[i].do = "comment" /\ a[i].what \in Reasons
      BY <2>1, <2>2
    <2>4. \E S : a \in Seq(S)
      BY <2>1, Zenon
    <2>5. Explained(a)
      BY <2>3, <2>4 DEF Explained
    <2>7. AllWorded(a)
      BY <2>1, <2>6 DEF AllWorded
    <2>. QED BY <2>5, <2>7 DEF a
  <1>. QED BY <1>1, <1>2 DEF When

-----------------------------------------------------------------------------
(* The tasks *)

\* What is taken from a finite set by some function is finite.
LEMMA FiniteImage ==
  ASSUME NEW S, IsFiniteSet(S), NEW T, NEW f \in [S -> T], \A y \in T : \E x \in S : f[x] = y
  PROVE  IsFiniteSet(T)
  <1>1. f \in Surjection(S, T)
    BY DEF Surjection
  <1>. QED BY <1>1, FS_Surjection

LEMMA FiniteEntries ==
  ASSUME NEW n \in Nat, NEW do
  PROVE  IsFiniteSet({log[i].what : i \in Entries(n, do)})
  <1>. DEFINE S == Entries(n, do)
              T == {log[i].what : i \in S}
              f == [i \in S |-> log[i].what]
  <1>1. IsFiniteSet(1 .. n) /\ S \in SUBSET (1 .. n)
    BY FS_Interval DEF Entries
  <1>2. IsFiniteSet(S)
    BY <1>1, FS_Subset
  <1>3. f \in [S -> T] /\ \A y \in T : \E x \in S : f[x] = y
    OBVIOUS
  <1>. HIDE DEF S, T, f
  <1>4. IsFiniteSet(T)
    BY <1>2, <1>3, FiniteImage
  <1>. QED BY <1>4 DEF T, S

\* The calls that add, or remove, each label of a finite set.
LEMMA HarmlessLabels ==
  ASSUME NEW do \in {"labeled", "unlabeled"}, NEW L, IsFiniteSet(L)
  PROVE  Harmless(SetToSeq({Call(do, l) : l \in L}))
  <1>. DEFINE T == {Call(do, l) : l \in L}
              f == [l \in L |-> Call(do, l)]
  <1>1. f \in [L -> T] /\ \A y \in T : \E x \in L : f[x] = y
    OBVIOUS
  <1>2. \A c \in T : Plain(c)
    BY PlainCall
  <1>. HIDE DEF f, T
  <1>3. IsFiniteSet(T)
    BY <1>1, FiniteImage
  <1>4. Harmless(SetToSeq(T))
    BY <1>2, <1>3, HarmlessSet
  <1>. QED BY <1>4 DEF T

LEMMA PlanExplained ==
  ASSUME seen \in [Feed -> Nat]
  PROVE  Plan = [t \in Task |-> Plan[t]] /\ \A t \in Task : Explained(Plan[t]) /\ AllWorded(Plan[t])
  <1>. DEFINE Fit(x) == Explained(x) /\ AllWorded(x)
  <1>0. seen["comments"] \in Nat
    BY DEF Feed
  <1>1. Fit(LabelByTitle)
    BY HarmlessOne, PlainCall, HarmlessWhen, HarmlessExplained DEF LabelByTitle
  <1>2. Fit(LabelProposals)
    <2>1. /\ Harmless(When(~Has("Proposal") /\ ~Event("unlabeled"), <<Call("labeled", "Proposal")>>))
          /\ Harmless(When(MayMilestone, <<Call("milestoned", "Proposal")>>))
          /\ Harmless(When(Has("NeedsDecision") /\ ~GopherbotRemovedLabel("NeedsDecision"),
                           <<Call("unlabeled", "NeedsDecision")>>))
      BY HarmlessOne, PlainCall, HarmlessWhen
    <2>. QED BY <2>1, HarmlessConcat, HarmlessWhen, HarmlessExplained DEF LabelProposals
  <1>3. Fit(OpenCherryPickIssues)
    <2>1. /\ Harmless(<<Writes("comment", "opened", Title(seen["issue"]))>>)
          /\ Harmless(<<Call("unlabeled", "CherryPickCandidate")>>)
      <3>1. Plain(Writes("comment", "opened", Title(seen["issue"])))
        BY PlainWrites DEF Text, Speaks
      <3>. QED BY <3>1, HarmlessOne, PlainCall
    <2>2. Harmless([i \in 1 .. Len(Releases) |-> Writes("opened", Releases[i], Title(seen["issue"]))])
      <3>1. PICK x, a, S : /\ x = Title(seen["issue"])
                           /\ a = [i \in 1 .. Len(Releases) |-> Writes("opened", Releases[i], x)]
                           /\ S = {Writes("opened", Releases[i], x) : i \in 1 .. Len(Releases)}
        OBVIOUS
      <3>2. a \in Seq(S)
        BY <3>1, BotAssumption
      <3>3. \A c \in S : Plain(c)
        BY <3>1, PlainWrites DEF Text, Speaks
      <3>4. Harmless(a)
        BY <3>2, <3>3, HarmlessOf
      <3>. QED BY <3>1, <3>4
    <2>3. Harmless(BackportCalls)
      BY <2>1, <2>2, HarmlessConcat DEF BackportCalls
    <2>. QED BY <2>1, <2>3, HarmlessConcat, HarmlessWhen, HarmlessExplained DEF OpenCherryPickIssues
  <1>4. Fit(CloseMerged)
    BY CloseExplained DEF CloseMerged, Reasons
  <1>5. Fit(SetMilestones)
    BY HarmlessOne, PlainCall, HarmlessWhen, HarmlessExplained DEF SetMilestones
  <1>6. Fit(UpdateNeeds)
    <2>1. PICK L : /\ L = {l \in Needs : Has(l) /\ ~(l \in NeedsKnown /\ log[Max(NeedsAdded)].what = l)}
      OBVIOUS
    <2>2. IsFiniteSet(Needs) /\ L \in SUBSET Needs
      <3>1. IsFiniteSet({"NeedsDecision"})
        BY FS_Singleton
      <3>2. IsFiniteSet({"NeedsDecision"} \cup {"NeedsFix"})
        BY <3>1, FS_AddElement
      <3>3. IsFiniteSet({"NeedsDecision"} \cup {"NeedsFix"} \cup {"NeedsInvestigation"})
        BY <3>2, FS_AddElement
      <3>4. Needs = {"NeedsDecision"} \cup {"NeedsFix"} \cup {"NeedsInvestigation"}
        BY DEF Needs
      <3>. QED BY <2>1, <3>3, <3>4
    <2>3. IsFiniteSet(L)
      BY <2>2, FS_Subset
    <2>4. Harmless(SetToSeq({Call("unlabeled", l) : l \in L}))
      BY <2>3, HarmlessLabels
    <2>. QED BY <2>1, <2>4, HarmlessWhen, HarmlessExplained DEF UpdateNeeds
  <1>7. Fit(FreezeOldIssues)
    <2>1. Harmless(<<Call("locked", "issue")>>) /\ Harmless(<<Call("labeled", "FrozenDueToAge")>>)
      BY HarmlessOne, PlainCall
    <2>. QED BY <2>1, HarmlessConcat, HarmlessWhen, HarmlessExplained DEF FreezeOldIssues
  <1>8. Fit(CloseStaleWaitingForInfo)
    BY CloseExplained DEF CloseStaleWaitingForInfo, Reasons
  <1>9. ASSUME NEW do \in {"labeled", "unlabeled"}, NEW action, NEW L \in SUBSET Commanded(action)
        PROVE  Fit(When(Open, SetToSeq({Call(do, l) : l \in L})))
    <2>1. IsFiniteSet({log[i].what : i \in Entries(seen["comments"], action)})
      BY <1>0, FiniteEntries
    <2>2. L \in SUBSET {log[i].what : i \in Entries(seen["comments"], action)}
      BY DEF Commanded
    <2>3. IsFiniteSet(L)
      BY <2>1, <2>2, FS_Subset
    <2>. QED BY <2>3, HarmlessLabels, HarmlessWhen, HarmlessExplained
  <1>10. Fit(AddFromComments)
    <2>1. PICK L : L = {x \in Commanded("add") : ~Has(x)}
      OBVIOUS
    <2>. QED BY <1>9, <2>1 DEF AddFromComments
  <1>11. Fit(RemoveFromComments)
    <2>1. PICK L : L = {x \in Commanded("remove") : Has(x)}
      OBVIOUS
    <2>. QED BY <1>9, <2>1 DEF RemoveFromComments
  <1>12. Fit(Cl2issue)
    <2>1. Plain(Writes("comment", "mentions", Subject(seen["gerrit"])))
      BY PlainWrites DEF Text, Speaks
    <2>. QED BY <2>1, HarmlessOne, HarmlessWhen, HarmlessExplained DEF Cl2issue
  <1>. HIDE DEF Fit
  <1>13. Plan = [t \in Task |-> Plan[t]]
    BY DEF Plan, Task
  <1>14. ASSUME NEW t \in Task PROVE Fit(Plan[t])
    BY <1>1, <1>2, <1>3, <1>4, <1>5, <1>6, <1>7, <1>8, <1>10, <1>11, <1>12 DEF Plan, Task
  <1>. QED BY <1>13, <1>14 DEF Fit

-----------------------------------------------------------------------------
LEMMA LessIsWellFounded == IsWellFoundedOn({p \in Nat \X Nat : p[1] < p[2]}, Nat)
BY NatLessThanWellFounded DEF OpToRel

(* The words of the bot *)

LEMMA MaxIsMember ==
  ASSUME NEW n \in Nat, NEW S \in SUBSET (0 .. n), S # {}
  PROVE  Max(S) \in S /\ \A y \in S : y <= Max(S)
  <1>. DEFINE R == {p \in Nat \X Nat : p[1] < p[2]}
              T == {n - x : x \in S}
  <1>1. IsWellFoundedOn(R, Nat)
    BY LessIsWellFounded
  <1>2. T \in SUBSET Nat /\ T # {}
    <2>1. PICK x \in S : TRUE
      OBVIOUS
    <2>2. n - x \in T
      OBVIOUS
    <2>3. ASSUME NEW y \in S PROVE n - y \in Nat
      OBVIOUS
    <2>. QED BY <2>2, <2>3
  <1>. HIDE DEF T
  <1>3. PICK m \in T : \A y \in T : ~(<<y, m>> \in R)
    BY <1>1, <1>2, WFMin
  <1>4. PICK x \in S : m = n - x
    BY <1>3 DEF T
  <1>5. ASSUME NEW y \in S PROVE x >= y
    <2>1. n - y \in T /\ n - y \in Nat /\ m \in Nat
      BY <1>2, <1>3 DEF T
    <2>2. ~(n - y < m)
      BY <1>3, <2>1
    <2>. QED BY <1>4, <2>1, <2>2
  <1>6. Max(S) \in S /\ \A y \in S : Max(S) >= y
    BY <1>4, <1>5 DEF Max
  <1>. QED BY <1>6

\* The latest of the first n entries of a kind.
LEMMA LatestFacts ==
  ASSUME NEW n \in Nat, NEW do
  PROVE  /\ Latest(Entries(n, do)) \in 0 .. n
         /\ Latest(Entries(n, do)) = 0 \/ log[Latest(Entries(n, do))].do = do
         /\ \A i \in Entries(n, do) : i <= Latest(Entries(n, do))
  <1>. DEFINE S == Entries(n, do) \cup {0}
  <1>1. S \in SUBSET (0 .. n) /\ S # {}
    BY DEF Entries
  <1>. HIDE DEF S
  <1>2. Max(S) \in S /\ \A y \in S : y <= Max(S)
    BY <1>1, MaxIsMember
  <1>3. Max(S) \in 0 .. n /\ (Max(S) = 0 \/ log[Max(S)].do = do) /\ \A i \in Entries(n, do) : i <= Max(S)
    BY <1>1, <1>2 DEF S, Entries
  <1>. QED BY <1>3 DEF S, Latest

LEMMA LatestGrows ==
  ASSUME NEW n \in Nat, NEW m \in Nat, n <= m, NEW do
  PROVE  Latest(Entries(n, do)) <= Latest(Entries(m, do))
  <1>1. PICK x, y : x = Latest(Entries(n, do)) /\ y = Latest(Entries(m, do))
    OBVIOUS
  <1>2. /\ x \in 0 .. n /\ y \in 0 .. m /\ (x = 0 \/ log[x].do = do)
        /\ \A i \in Entries(m, do) : i <= y
    BY <1>1, LatestFacts
  <1>3. x = 0 \/ x \in Entries(m, do)
    BY <1>2 DEF Entries
  <1>. QED BY <1>1, <1>2, <1>3

\* The words in the corpus were given by people.
LEMMA TextGiven ==
  ASSUME seen \in [Feed -> Nat], \A f \in Feed : seen[f] <= Len(log), Len(log) \in Nat, NEW do, NEW what
  PROVE  Text(do, what) \in Nat /\ Given(Text(do, what))
  <1>0. /\ seen["issue"] \in Nat /\ seen["issue"] <= Len(log)
        /\ seen["gerrit"] \in Nat /\ seen["gerrit"] <= Len(log)
    BY DEF Feed
  <1>1. Title(seen["issue"]) \in Nat /\ Given(Title(seen["issue"]))
    <2>1. PICK x : x = Title(seen["issue"])
      OBVIOUS
    <2>2. x \in 0 .. seen["issue"] /\ (x = 0 \/ log[x].do = "retitled")
      BY <1>0, <2>1, LatestFacts DEF Title
    <2>. QED BY <1>0, <2>1, <2>2 DEF Given, Renames
  <1>2. Subject(seen["gerrit"]) \in Nat /\ Given(Subject(seen["gerrit"]))
    <2>1. PICK x : x = Subject(seen["gerrit"])
      OBVIOUS
    <2>2. x \in 0 .. seen["gerrit"] /\ (x = 0 \/ log[x].do = "reworded")
      BY <1>0, <2>1, LatestFacts DEF Subject
    <2>. QED BY <1>0, <2>1, <2>2 DEF Given, Renames
  <1>. QED BY <1>1, <1>2 DEF Text, Given

\* What is added to the log is not in the corpus yet.
LEMMA TextStays ==
  ASSUME \A f \in Feed : seen[f] <= Len(log), seen \in [Feed -> Nat], Len(log) \in Nat, seen' = seen,
         \A i \in 1 .. Len(log) : log'[i] = log[i]
  PROVE  \A do, what : Text(do, what)' = Text(do, what)
  <1>0. /\ seen["issue"] \in Nat /\ seen["issue"] <= Len(log)
        /\ seen["gerrit"] \in Nat /\ seen["gerrit"] <= Len(log)
    BY DEF Feed
  <1>1. Entries(seen["issue"], "retitled")' = Entries(seen["issue"], "retitled")
    BY <1>0 DEF Entries
  <1>2. Entries(seen["gerrit"], "reworded")' = Entries(seen["gerrit"], "reworded")
    BY <1>0 DEF Entries
  <1>3. Title(seen["issue"])' = Title(seen["issue"]) /\ Subject(seen["gerrit"])' = Subject(seen["gerrit"])
    BY <1>1, <1>2 DEF Title, Subject, Latest
  <1>. QED BY <1>3 DEF Text

\* What the bot adds is worded as the corpus has it and not there yet.
LEMMA WordsGrow ==
  ASSUME WordsInv, seen \in [Feed -> Nat], seen' = seen, NEW S, log \in Seq(S), NEW e,
         log' = Append(log, e),
         e.by = "bot" => /\ Worded(e)
                         /\ e.do \in Speaks => \A i \in 1 .. Len(log) :
                              log[i].do = e.do /\ log[i].what = e.what => log[i].text # e.text
  PROVE  WordsInv' /\ \A do, what : Text(do, what)' = Text(do, what)
  <1>. DEFINE n == Len(log)
  <1>1. /\ n \in Nat /\ Len(log') = n + 1 /\ log'[n + 1] = e
        /\ \A i \in 1 .. n : log'[i] = log[i]
    OBVIOUS
  <1>2. \A f \in Feed : seen[f] <= n /\ seen[f] \in Nat
    BY DEF WordsInv
  <1>. HIDE DEF n
  <1>3. \A do, what : Text(do, what)' = Text(do, what)
    BY <1>1, <1>2, TextStays DEF n
  <1>4. \A do, what : Text(do, what) \in Nat /\ Given(Text(do, what))
    BY <1>1, <1>2, TextGiven DEF n
  <1>5. \A x : Given(x) => Given(x)'
    BY <1>1 DEF Given, n
  <1>6. ASSUME NEW i \in 1 .. n + 1, log'[i].do \in Renames PROVE log'[i].by # "bot"
    BY <1>1, <1>6 DEF WordsInv, ByBot, Worded, n
  <1>7. ASSUME NEW i \in 1 .. n + 1, log'[i].by = "bot", log'[i].do \in Speaks
        PROVE  Given(log'[i].text) /\ log'[i].text \in Nat /\ log'[i].text <= Text(log'[i].do, log'[i].what)
    <2>1. CASE i = n + 1
      BY <1>1, <1>4, <1>7, <2>1 DEF Worded
    <2>2. CASE i \in 1 .. n
      <3>1. Given(log[i].text) /\ log[i].text <= Text(log[i].do, log[i].what)
        BY <1>1, <1>7, <2>2 DEF WordsInv, ByBot, n
      <3>2. log[i].text \in Nat
        BY <1>1, <3>1 DEF Given, n
      <3>. QED BY <1>1, <2>2, <3>1, <3>2
    <2>. QED BY <1>1, <2>1, <2>2
  <1>8. ASSUME NEW i \in 1 .. n + 1, NEW j \in 1 .. n + 1, i < j, log'[i].by = "bot", log'[j].by = "bot",
               log'[i].do \in Speaks, log'[j].do = log'[i].do, log'[j].what = log'[i].what
        PROVE  /\ log'[i].text < log'[j].text
               /\ log'[log'[j].text].do \in Renames /\ log'[log'[j].text].by # "bot"
    <2>1. /\ log'[i].text \in Nat /\ log'[j].text \in Nat /\ Given(log'[j].text)
          /\ log'[i].text <= Text(log'[i].do, log'[i].what)
      BY <1>7, <1>8
    <2>2. log'[i].text < log'[j].text
      <3>1. CASE j = n + 1
        <4>1. i \in 1 .. n /\ log'[i] = log[i] /\ log'[j] = e
          BY <1>1, <1>8, <3>1
        <4>2. e.text = Text(e.do, e.what) /\ log[i].text # e.text
          BY <1>8, <4>1 DEF Worded, n
        <4>. QED BY <1>8, <2>1, <4>1, <4>2
      <3>2. CASE j \in 1 .. n
        <4>1. i \in 1 .. n /\ log'[i] = log[i] /\ log'[j] = log[j]
          BY <1>1, <1>8, <3>2
        <4>. QED BY <1>8, <3>2, <4>1 DEF WordsInv, NothingTwice, ByBot, Speaks, n
      <3>. QED BY <1>1, <3>1, <3>2
    <2>3. PICK x : x = log'[j].text
      OBVIOUS
    <2>4. x \in 1 .. n /\ log[x].do \in Renames
      BY <2>1, <2>2, <2>3 DEF Given, n
    <2>5. log'[x] = log[x] /\ log[x].by # "bot"
      BY <1>1, <2>4 DEF WordsInv, ByBot, n
    <2>. QED BY <2>2, <2>3, <2>4, <2>5
  <1>9. NothingTwice'
    <2>1. ASSUME NEW i \in 1 .. Len(log'), NEW j \in 1 .. Len(log'), i < j,
                 log'[i].by = "bot", log'[j].by = "bot", log'[i].do \in Speaks,
                 log'[j].do = log'[i].do, log'[j].what = log'[i].what
          PROVE  /\ log'[i].text < log'[j].text
                 /\ log'[log'[j].text].do \in Renames /\ log'[log'[j].text].by # "bot"
      BY <1>1, <1>8, <2>1
    <2>. QED BY <2>1 DEF NothingTwice, ByBot, Speaks, Renames
  <1>10. ASSUME NEW i \in 1 .. n + 1, log'[i].by = "bot", log'[i].do \in Speaks
         PROVE  (Given(log[i].text) /\ log[i].text <= Text(log[i].do, log[i].what))'
    <2>1. PICK do, what, x : do = log'[i].do /\ what = log'[i].what /\ x = log'[i].text
      OBVIOUS
    <2>2. Given(x)' /\ x <= Text(do, what)'
      BY <1>3, <1>5, <1>7, <1>10, <2>1
    <2>. QED BY <2>1, <2>2 DEF Text, Given
  <1>11. (\A i \in 1 .. Len(log) : ByBot(i) /\ log[i].do \in Speaks =>
            Given(log[i].text) /\ log[i].text <= Text(log[i].do, log[i].what))'
    BY <1>1, <1>10 DEF ByBot
  <1>12. (\A f \in Feed : seen[f] <= Len(log))'
    BY <1>1, <1>2
  <1>13. (\A i \in 1 .. Len(log) : log[i].do \in Renames => ~ByBot(i))'
    BY <1>1, <1>6 DEF ByBot
  <1>. QED BY <1>3, <1>9, <1>11, <1>12, <1>13 DEF WordsInv

\* The corpus catches up: its words get newer.
LEMMA WordsUpdate ==
  ASSUME WordsInv, Len(log) \in Nat, log' = log,
         \A g \in Feed : /\ seen[g] \in Nat /\ seen'[g] \in Nat
                         /\ seen[g] <= seen'[g] /\ seen'[g] <= Len(log)
  PROVE  WordsInv'
  <1>1. /\ Title(seen["issue"]) <= Title(seen'["issue"]) /\ Title(seen'["issue"]) \in Nat
        /\ Subject(seen["gerrit"]) <= Subject(seen'["gerrit"]) /\ Subject(seen'["gerrit"]) \in Nat
        /\ Title(seen["issue"]) \in Nat /\ Subject(seen["gerrit"]) \in Nat
    <2>1. \A g \in {"issue", "gerrit"} : /\ seen[g] \in Nat /\ seen'[g] \in Nat /\ seen[g] <= seen'[g]
      BY DEF Feed
    <2>2. ASSUME NEW n \in Nat, NEW do PROVE Latest(Entries(n, do)) \in Nat
      <3>1. Latest(Entries(n, do)) \in 0 .. n
        BY LatestFacts
      <3>. QED BY <3>1
    <2>. QED BY <2>1, <2>2, LatestGrows DEF Title, Subject
  <1>2. Title(seen["issue"])' = Title(seen'["issue"]) /\ Subject(seen["gerrit"])' = Subject(seen'["gerrit"])
    BY DEF Title, Subject, Latest, Entries
  <1>3. \A do, what : /\ Text(do, what) \in Nat /\ Text(do, what)' \in Nat
                     /\ Text(do, what) <= Text(do, what)'
    BY <1>1, <1>2 DEF Text
  <1>4. \A x : (Given(x)' <=> Given(x)) /\ (Given(x) => x \in Nat)
    BY DEF Given
  <1>5. ASSUME NEW i \in 1 .. Len(log), ByBot(i), log[i].do \in Speaks
        PROVE  Given(log[i].text)' /\ log[i].text <= Text(log[i].do, log[i].what)'
    <2>1. PICK do, what, x : do = log[i].do /\ what = log[i].what /\ x = log[i].text
      OBVIOUS
    <2>2. Given(x) /\ x <= Text(do, what)
      BY <1>5, <2>1 DEF WordsInv
    <2>3. Given(x)' /\ x <= Text(do, what)'
      BY <1>3, <1>4, <2>2
    <2>. QED BY <2>1, <2>3 DEF Text, Given
  <1>6. NothingTwice'
    BY DEF WordsInv, NothingTwice, ByBot
  <1>. QED BY <1>5, <1>6 DEF WordsInv, ByBot

-----------------------------------------------------------------------------
(* The steps *)

\* Whatever is added to the log, what was told stays told.
LEMMA Grows ==
  ASSUME NEW S, log \in Seq(S), NEW e, log' = Append(log, e)
  PROVE  /\ \E T : log' \in Seq(T)
         /\ Len(log) \in Nat /\ Len(log') = Len(log) + 1
         /\ \A i \in 1 .. Len(log) : log'[i] = log[i]
         /\ log'[Len(log) + 1] = e
         /\ Told => Told'
  <1>1. log \in Seq(S \cup {e}) /\ e \in S \cup {e}
    OBVIOUS
  <1>2. log' \in Seq(S \cup {e})
    BY <1>1
  <1>3. /\ Len(log) \in Nat /\ Len(log') = Len(log) + 1
        /\ \A i \in 1 .. Len(log) : log'[i] = log[i]
        /\ log'[Len(log) + 1] = e
    BY <1>1
  <1>4. Told => Told'
    BY <1>3 DEF Told, ByBot
  <1>. QED BY <1>2, <1>3, <1>4

\* People's words are not the bot's, and only the bot has to explain itself.
LEMMA PeopleAdd ==
  ASSUME LogInv, NEW e, log' = Append(log, e), e.by = "people",
         e.do = "comment" => e.what \notin Reasons
  PROVE  LogInv' /\ (Told => Told')
  <1>0. PICK S : log \in Seq(S)
    BY DEF LogInv
  <1>1. /\ \E T : log' \in Seq(T)
        /\ Len(log) \in Nat /\ Len(log') = Len(log) + 1
        /\ \A i \in 1 .. Len(log) : log'[i] = log[i]
        /\ log'[Len(log) + 1] = e
        /\ Told => Told'
    BY <1>0, Grows
  <1>2. (\A i \in 1 .. Len(log) : log[i].do = "comment" /\ log[i].what \in Reasons => ByBot(i))'
    BY <1>1 DEF LogInv, ByBot
  <1>3. ClosedWithReason'
    BY <1>1 DEF LogInv, ClosedWithReason, ByBot, Entries
  <1>. QED BY <1>1, <1>2, <1>3 DEF LogInv

LEMMA SameLog ==
  ASSUME LogInv, WordsInv, log' = log, seen' = seen
  PROVE  /\ LogInv' /\ (Told => Told')
         /\ WordsInv' /\ \A do, what : Text(do, what)' = Text(do, what)
  <1>1. LogInv' /\ (Told => Told')
    BY DEF LogInv, Told, ClosedWithReason, ByBot, Entries
  <1>2. \A do, what : Text(do, what)' = Text(do, what)
    BY DEF Text, Title, Subject, Latest, Entries
  <1>3. NothingTwice'
    BY DEF WordsInv, NothingTwice, ByBot
  <1>4. \A x : Given(x)' <=> Given(x)
    BY DEF Given
  <1>5. WordsInv'
    BY <1>2, <1>3, <1>4 DEF WordsInv, ByBot
  <1>. QED BY <1>1, <1>2, <1>5

\* A call: the issue is not closed before it is told why, and GitHub is asked
\* before a comment or an issue is added to it.
LEMMA BotAdds ==
  ASSUME LogInv, WordsInv, seen \in [Feed -> Nat], seen' = seen,
         NEW c, TakesEffect(c), c.do = "closed" => Told, Worded(c)
  PROVE  /\ LogInv' /\ (Told => Told')
         /\ WordsInv' /\ \A do, what : Text(do, what)' = Text(do, what)
         /\ c.do = "comment" /\ c.what \in Reasons => Told'
  <1>0. PICK S : log \in Seq(S)
    BY DEF LogInv
  <1>1. CASE ~Changes(c)
    <2>1. log' = log
      BY <1>1 DEF TakesEffect
    <2>2. LogInv' /\ (Told => Told') /\ WordsInv' /\ \A do, what : Text(do, what)' = Text(do, what)
      BY <2>1, SameLog
    <2>3. ASSUME c.do = "comment", c.what \in Reasons PROVE Told
      <3>1. HasText(c)
        BY <1>1, <2>3 DEF Changes
      <3>2. PICK i \in 1 .. Len(log) : log[i].do = "comment" /\ log[i].what = c.what
        BY <2>3, <3>1 DEF HasText, Where, Entries
      <3>. QED BY <3>2, <2>3 DEF LogInv, Told
    <2>4. Told <=> Told'
      BY <2>1 DEF Told, ByBot
    <2>. QED BY <2>2, <2>3, <2>4
  <1>2. CASE Changes(c)
    <2>. DEFINE e == Entry(c.do, c.what, c.text, "bot")
    <2>1. log' = Append(log, e)
      BY <1>2 DEF TakesEffect
    <2>2. e.do = c.do /\ e.what = c.what /\ e.text = c.text /\ e.by = "bot"
      BY DEF Entry
    <2>. HIDE DEF e
    <2>3. /\ \E T : log' \in Seq(T)
          /\ Len(log) \in Nat /\ Len(log') = Len(log) + 1
          /\ \A i \in 1 .. Len(log) : log'[i] = log[i]
          /\ log'[Len(log) + 1] = e
          /\ Told => Told'
      BY <1>0, <2>1, Grows
    <2>4. (\A i \in 1 .. Len(log) : log[i].do = "comment" /\ log[i].what \in Reasons => ByBot(i))'
      BY <2>2, <2>3 DEF LogInv, ByBot
    <2>5. ASSUME c.do \in Speaks, NEW i \in 1 .. Len(log), log[i].do = c.do, log[i].what = c.what
          PROVE  log[i].text # c.text
      <3>1. ~HasText(c)
        BY <1>2, <2>5 DEF Changes, Speaks
      <3>. QED BY <2>5, <3>1 DEF HasText, Where, Entries
    <2>6. WordsInv' /\ \A do, what : Text(do, what)' = Text(do, what)
      <3>1. Worded(e)
        BY <2>2 DEF Worded
      <3>. QED BY <1>0, <2>1, <2>2, <2>5, <3>1, WordsGrow
    <2>7. ClosedWithReason'
      <3>1. ASSUME NEW i \in 1 .. Len(log'), log'[i].do = "closed", log'[i].by = "bot"
            PROVE  \E j \in 1 .. i - 1 : log'[j].do = "comment" /\ log'[j].by = "bot"
                                         /\ log'[j].what \in Reasons
        <4>1. CASE i = Len(log) + 1
          BY <2>2, <2>3, <3>1, <4>1 DEF Told, ByBot
        <4>2. CASE i \in 1 .. Len(log)
          BY <2>3, <3>1, <4>2 DEF LogInv, ClosedWithReason, Entries, ByBot
        <4>. QED BY <2>3, <4>1, <4>2
      <3>. QED BY <3>1 DEF ClosedWithReason, Entries, ByBot
    <2>8. c.do = "comment" /\ c.what \in Reasons => Told'
      BY <2>2, <2>3 DEF Told, ByBot
    <2>. QED BY <2>3, <2>4, <2>6, <2>7, <2>8 DEF LogInv
  <1>. QED BY <1>1, <1>2

\* What is left of a task after its first call.
LEMMA TailExplained ==
  ASSUME NEW calls, calls # <<>>, Explained(calls), Told => Told',
         Head(calls).do = "comment" /\ Head(calls).what \in Reasons => Told'
  PROVE  Explained(Tail(calls))'
  <1>1. PICK S : calls \in Seq(S)
    BY DEF Explained
  <1>2. PICK rest : rest = Tail(calls)
    OBVIOUS
  <1>3. /\ rest \in Seq(S) /\ Len(calls) \in Nat /\ Len(calls) > 0
        /\ Len(rest) = Len(calls) - 1 /\ Head(calls) = calls[1]
        /\ \A k \in 1 .. Len(rest) : rest[k] = calls[k + 1]
    BY <1>1, <1>2
  <1>4. ASSUME NEW k \in 1 .. Len(rest), rest[k].do = "closed"
        PROVE  \/ \E i \in 1 .. k - 1 : rest[i].do = "comment" /\ rest[i].what \in Reasons
               \/ Told'
    <2>1. k + 1 \in 1 .. Len(calls) /\ calls[k + 1].do = "closed"
      BY <1>3, <1>4
    <2>2. CASE Told
      BY <2>2
    <2>3. CASE \E i \in 1 .. (k + 1) - 1 : calls[i].do = "comment" /\ calls[i].what \in Reasons
      <3>1. PICK i \in 1 .. k : calls[i].do = "comment" /\ calls[i].what \in Reasons
        BY <2>3
      <3>2. CASE i = 1
        BY <1>3, <3>1, <3>2
      <3>3. CASE i > 1
        <4>1. i - 1 \in 1 .. k - 1 /\ i - 1 \in 1 .. Len(rest) /\ rest[i - 1] = calls[i]
          BY <1>3, <3>1, <3>3
        <4>. QED BY <3>1, <4>1
      <3>. QED BY <3>2, <3>3
    <2>. QED BY <2>1, <2>2, <2>3 DEF Explained
  <1>5. Explained(rest)'
    BY <1>3, <1>4 DEF Explained
  <1>. QED BY <1>2, <1>5

\* The first call of a task closes the issue only when it has been told why.
LEMMA HeadExplained ==
  ASSUME NEW calls, calls # <<>>, Explained(calls)
  PROVE  Head(calls).do = "closed" => Told
  <1>1. PICK S : calls \in Seq(S)
    BY DEF Explained
  <1>2. Head(calls) = calls[1] /\ 1 \in 1 .. Len(calls)
    BY <1>1
  <1>. QED BY <1>2 DEF Explained

LEMMA HeadWorded ==
  ASSUME NEW calls, calls # <<>>, Explained(calls), AllWorded(calls)
  PROVE  Worded(Head(calls))
  <1>1. PICK S : calls \in Seq(S)
    BY DEF Explained
  <1>2. Head(calls) = calls[1] /\ 1 \in 1 .. Len(calls)
    BY <1>1
  <1>. QED BY <1>2 DEF AllWorded

LEMMA ExplainedStays ==
  ASSUME NEW calls, Explained(calls), Told => Told'
  PROVE  Explained(calls)'
BY DEF Explained

LEMMA TailWorded ==
  ASSUME NEW calls, calls # <<>>, Explained(calls), AllWorded(calls),
         \A do, what : Text(do, what)' = Text(do, what)
  PROVE  AllWorded(Tail(calls))'
  <1>1. PICK S : calls \in Seq(S)
    BY DEF Explained
  <1>2. PICK rest : rest = Tail(calls)
    OBVIOUS
  <1>3. \A k \in 1 .. Len(rest) : k + 1 \in 1 .. Len(calls) /\ rest[k] = calls[k + 1]
    BY <1>1, <1>2
  <1>4. AllWorded(rest)'
    BY <1>3 DEF AllWorded, Worded
  <1>. QED BY <1>2, <1>4

LEMMA WordedStays ==
  ASSUME NEW calls, AllWorded(calls), \A do, what : Text(do, what)' = Text(do, what)
  PROVE  AllWorded(calls)'
BY DEF AllWorded, Worded

\* One task's calls change, the others' stay.
LEMMA OneTask ==
  ASSUME todo = [u \in Task |-> todo[u]], \A u \in Task : Explained(todo[u]) /\ AllWorded(todo[u]),
         Told => Told', \A do, what : Text(do, what)' = Text(do, what),
         NEW t \in Task, NEW calls, Explained(calls)', AllWorded(calls)',
         todo' = [todo EXCEPT ![t] = calls]
  PROVE  /\ todo' = [u \in Task |-> todo'[u]]
         /\ \A u \in Task : Explained(todo[u])' /\ AllWorded(todo[u])'
  <1>1. PICK new : new = todo'
    OBVIOUS
  <1>2. new = [u \in Task |-> new[u]] /\ \A u \in Task : new[u] = IF u = t THEN calls ELSE todo[u]
    BY <1>1
  <1>3. ASSUME NEW u \in Task PROVE Explained(new[u])' /\ AllWorded(new[u])'
    BY <1>2, ExplainedStays, WordedStays
  <1>4. ASSUME NEW u \in Task PROVE Explained(todo[u])' /\ AllWorded(todo[u])'
    BY <1>1, <1>3 DEF Explained, AllWorded
  <1>. QED BY <1>1, <1>2, <1>4

-----------------------------------------------------------------------------
LEMMA BotInitInv == BotInit => BotInv
  <1>. SUFFICES ASSUME BotInit PROVE BotInv
    OBVIOUS
  <1>1. PICK S : S = {}
    OBVIOUS
  <1>2. log \in Seq(S) /\ Len(log) = 0
    BY DEF BotInit
  <1>3. Explained(<<>>) /\ AllWorded(<<>>)
    BY HarmlessEmpty, HarmlessExplained
  <1>4. \A t \in Task : Explained(todo[t]) /\ AllWorded(todo[t])
    BY <1>3 DEF BotInit, NoCalls
  <1>5. todo = [t \in Task |-> todo[t]]
    BY DEF BotInit, NoCalls
  <1>6. seen \in [Feed -> Nat] /\ \A f \in Feed : seen[f] <= Len(log)
    BY <1>2 DEF BotInit
  <1>7. NothingTwice /\ ClosedWithReason
    BY <1>2 DEF NothingTwice, ClosedWithReason, Entries
  <1>8. LogInv /\ WordsInv
    BY <1>2, <1>6, <1>7 DEF LogInv, WordsInv
  <1>. QED BY <1>4, <1>5, <1>6, <1>8 DEF BotInv, BotInit

LEMMA BotStep ==
  ASSUME BotInv, [BotNext]_botVars
  PROVE  BotInv'
  <1>. DEFINE Calls == /\ todo = [t \in Task |-> todo[t]]
                       /\ \A t \in Task : Explained(todo[t]) /\ AllWorded(todo[t])
              Same == (Told => Told') /\ \A do, what : Text(do, what)' = Text(do, what)
  <1>0. LogInv /\ WordsInv /\ scene \in Scenario /\ seen \in [Feed -> Nat] /\ Calls
    BY DEF BotInv
  <1>. SUFFICES LogInv' /\ WordsInv' /\ scene' \in Scenario /\ seen' \in [Feed -> Nat] /\ Calls'
    BY DEF BotInv
  <1>1. ASSUME log' = log, seen' = seen PROVE LogInv' /\ WordsInv' /\ Same
    BY <1>0, <1>1, SameLog
  <1>2. ASSUME todo' = todo, Same PROVE Calls'
    <2>1. ASSUME NEW t \in Task PROVE Explained(todo[t])' /\ AllWorded(todo[t])'
      <3>1. PICK calls : calls = todo[t] /\ calls = todo'[t]
        BY <1>2
      <3>2. Explained(calls)' /\ AllWorded(calls)'
        BY <1>0, <1>2, <3>1, ExplainedStays, WordedStays
      <3>. QED BY <3>1, <3>2 DEF Explained, AllWorded
    <2>. QED BY <1>0, <1>2, <2>1
  <1>3. CASE Round
    <2>1. Plan = [t \in Task |-> Plan[t]] /\ \A t \in Task : Explained(Plan[t]) /\ AllWorded(Plan[t])
      BY <1>0, PlanExplained
    <2>2. PICK new : new = Plan
      OBVIOUS
    <2>3. todo' = new /\ log' = log /\ seen' = seen
      BY <1>3, <2>2 DEF Round
    <2>4. ASSUME NEW t \in Task PROVE Explained(todo[t])' /\ AllWorded(todo[t])'
      <3>1. Explained(new[t]) /\ AllWorded(new[t])
        BY <2>1, <2>2
      <3>2. Explained(new[t])' /\ AllWorded(new[t])'
        BY <3>1, <1>1, <2>3, ExplainedStays, WordedStays
      <3>. QED BY <2>3, <3>2 DEF Explained, AllWorded
    <2>. QED BY <1>0, <1>1, <1>3, <2>1, <2>2, <2>3, <2>4 DEF Round
  <1>4. ASSUME NEW t \in Task, Due(t), TakesEffect(Head(todo[t])), seen' = seen
        PROVE  /\ LogInv' /\ WordsInv' /\ Same
               /\ \A calls : calls = todo[t] => Explained(Tail(calls))' /\ AllWorded(Tail(calls))'
    <2>1. PICK calls : calls = todo[t] /\ calls # <<>> /\ Explained(calls) /\ AllWorded(calls)
      BY <1>0, <1>4 DEF Due
    <2>2. Head(calls).do = "closed" => Told
      BY <2>1, HeadExplained
    <2>3. Worded(Head(calls))
      BY <2>1, HeadWorded
    <2>4. /\ LogInv' /\ WordsInv' /\ Same
          /\ Head(calls).do = "comment" /\ Head(calls).what \in Reasons => Told'
      BY <1>0, <1>4, <2>1, <2>2, <2>3, BotAdds
    <2>5. Explained(Tail(calls))' /\ AllWorded(Tail(calls))'
      BY <2>1, <2>4, TailExplained, TailWorded
    <2>. QED BY <2>1, <2>4, <2>5
  <1>11. ASSUME NEW t \in Task, NEW rest, LogInv', WordsInv', Same, Explained(rest)', AllWorded(rest)',
                todo' = [todo EXCEPT ![t] = rest]
         PROVE  LogInv' /\ WordsInv' /\ Calls'
    BY <1>0, <1>11, OneTask
  <1>5. CASE CallSucceeds
    <2>1. PICK t \in Task : /\ Due(t) /\ TakesEffect(Head(todo[t]))
                            /\ todo' = [todo EXCEPT ![t] = Tail(todo[t])]
      BY <1>5 DEF CallSucceeds
    <2>2. PICK calls, rest : calls = todo[t] /\ rest = Tail(calls)
      OBVIOUS
    <2>3. LogInv' /\ WordsInv' /\ Same /\ Explained(rest)' /\ AllWorded(rest)'
      BY <1>4, <1>5, <2>1, <2>2 DEF CallSucceeds
    <2>. QED BY <1>0, <1>5, <1>11, <2>1, <2>2, <2>3 DEF CallSucceeds
  <1>6. CASE CallFails
    <2>0. seen' = seen /\ scene' = scene
      BY <1>6 DEF CallFails
    <2>1. PICK t \in Task :
            /\ Due(t)
            /\ \/ /\ TakesEffect(Head(todo[t])) \/ log' = log
                  /\ todo' = [todo EXCEPT ![t] = <<>>]
               \/ /\ Head(todo[t]).do = "unlabeled" /\ (TakesEffect(Head(todo[t])) \/ log' = log)
                  /\ todo' = [todo EXCEPT ![t] = Tail(todo[t])]
      BY <1>6 DEF CallFails
    <2>2. LogInv' /\ WordsInv' /\ Same
      BY <1>1, <1>4, <2>0, <2>1
    <2>3. CASE todo' = [todo EXCEPT ![t] = <<>>]
      <3>1. PICK rest : rest = <<>> /\ Explained(rest) /\ AllWorded(rest)
        BY HarmlessEmpty, HarmlessExplained
      <3>2. Explained(rest)' /\ AllWorded(rest)'
        BY <2>2, <3>1, ExplainedStays, WordedStays
      <3>. QED BY <1>0, <1>11, <2>0, <2>2, <2>3, <3>1, <3>2
    <2>4. CASE Head(todo[t]).do = "unlabeled" /\ todo' = [todo EXCEPT ![t] = Tail(todo[t])]
      <3>1. PICK calls, rest : calls = todo[t] /\ rest = Tail(calls)
        OBVIOUS
      <3>2. calls # <<>> /\ Explained(calls) /\ AllWorded(calls) /\ Head(calls).do # "comment"
        BY <1>0, <2>1, <2>4, <3>1 DEF Due
      <3>3. Explained(Tail(calls))' /\ AllWorded(Tail(calls))'
        BY <2>2, <3>2, TailExplained, TailWorded
      <3>. QED BY <1>0, <1>11, <2>0, <2>2, <2>4, <3>1, <3>3
    <2>. QED BY <2>1, <2>3, <2>4
  <1>7. ASSUME NEW f \in Feed, Update(f) PROVE BotInv'
    <2>1. log' = log /\ todo' = todo /\ scene' = scene /\ todo = NoCalls
      BY <1>7 DEF Update
    <2>2. PICK n \in seen[f] + 1 .. Len(log) : seen' = [seen EXCEPT ![f] = n]
      BY <1>7 DEF Update
    <2>3. n \in Nat /\ Len(log) \in Nat
      <3>1. PICK S : log \in Seq(S)
        BY <1>0 DEF LogInv
      <3>. QED BY <1>0, <2>2, <3>1
    <2>4. /\ seen' \in [Feed -> Nat]
          /\ \A g \in Feed : seen[g] \in Nat /\ seen[g] <= seen'[g] /\ seen'[g] <= Len(log)
      BY <1>0, <2>2, <2>3 DEF WordsInv
    <2>5. LogInv' /\ (Told => Told')
      BY <1>0, <2>1 DEF LogInv, Told, ClosedWithReason, ByBot, Entries
    <2>6. WordsInv'
      BY <1>0, <2>1, <2>3, <2>4, WordsUpdate
    <2>7. Calls'
      <3>1. Explained(<<>>) /\ AllWorded(<<>>)
        BY HarmlessEmpty, HarmlessExplained
      <3>2. PICK none : none = <<>>
        OBVIOUS
      <3>3. Explained(none)'
        BY <2>5, <3>1, <3>2, ExplainedStays
      <3>4. AllWorded(none)'
        BY <3>2 DEF AllWorded
      <3>5. \A t \in Task : todo'[t] = none
        BY <2>1, <3>2 DEF NoCalls
      <3>6. ASSUME NEW t \in Task PROVE Explained(todo[t])' /\ AllWorded(todo[t])'
        BY <3>3, <3>4, <3>5 DEF Explained, AllWorded
      <3>. QED BY <1>0, <2>1, <3>6
    <2>. QED BY <1>0, <2>1, <2>4, <2>5, <2>6, <2>7 DEF BotInv
  <1>8. ASSUME NEW a \in scene, Happens(a) PROVE BotInv'
    <2>1. PICK e : e = Entry(a.do, a.what, 0, "people")
      OBVIOUS
    <2>2. log' = Append(log, e) /\ todo' = todo /\ scene' = scene /\ seen' = seen
      BY <1>8, <2>1 DEF Happens
    <2>3. e.by = "people" /\ (e.do = "comment" => e.what \notin Reasons)
      BY <1>0, <1>8, <2>1, BotAssumption DEF Entry
    <2>4. LogInv' /\ (Told => Told')
      BY <1>0, <2>2, <2>3, PeopleAdd
    <2>5. WordsInv' /\ Same
      <3>1. PICK S : log \in Seq(S)
        BY <1>0 DEF LogInv
      <3>. QED BY <1>0, <2>2, <2>3, <2>4, <3>1, WordsGrow
    <2>6. Calls'
      BY <1>2, <2>2, <2>5
    <2>. QED BY <1>0, <2>2, <2>4, <2>5, <2>6 DEF BotInv
  <1>9. CASE UNCHANGED botVars
    BY <1>0, <1>1, <1>2, <1>9 DEF botVars
  <1>. QED BY <1>3, <1>5, <1>6, <1>7, <1>8, <1>9 DEF BotNext, BotInv

\* The bot never closes an issue without having said why, and what it says or
\* opens a second time it words by a title or a subject that people have changed
\* (addGitHubComment, closeGitHubIssue, createGitHubIssue), with any releases, any
\* number of people's acts and of failed calls, and whatever the corpus shows.
THEOREM SaidOnceAndExplained == BotSpec => []ExplainedOnce
  <1>1. BotInit => BotInv
    BY BotInitInv
  <1>2. BotInv /\ [BotNext]_botVars => BotInv'
    BY BotStep
  <1>3. BotInv => ExplainedOnce
    BY DEF BotInv, LogInv, WordsInv, ExplainedOnce
  <1>. QED BY <1>1, <1>2, <1>3, PTL DEF BotSpec

-----------------------------------------------------------------------------
(* The mutation log: induction, and what FlattenSeq computes *)

\* Induction over the natural numbers, for what a set can express.
LEMMA SetInduction ==
  ASSUME NEW P, 0 \in P, \A n \in Nat : n \in P => n + 1 \in P
  PROVE  Nat \subseteq P
  <1>. DEFINE R == {p \in Nat \X Nat : p[1] < p[2]}
              T == Nat \ P
  <1>0. IsWellFoundedOn(R, Nat)
    BY LessIsWellFounded
  <1>. SUFFICES ASSUME T # {} PROVE FALSE
    OBVIOUS
  <1>1. T \subseteq Nat
    OBVIOUS
  <1>. HIDE DEF T, R
  <1>2. PICK x \in T : \A y \in T : ~(<<y, x>> \in R)
    BY <1>0, <1>1, WFMin
  <1>3. x \in Nat /\ x \notin P
    BY <1>2 DEF T
  <1>4. x - 1 \in Nat
    BY <1>3
  <1>5. <<x - 1, x>> \in R
    BY <1>3, <1>4 DEF R
  <1>6. x - 1 \in P
    BY <1>2, <1>4, <1>5 DEF T
  <1>. QED BY <1>3, <1>4, <1>6

-----------------------------------------------------------------------------
\* FlattenSeq as a recursive function, and that it exists.
Running(s, n) == CHOOSE g : g = [i \in 1 .. n |-> IF i = 1 THEN s[i] ELSE g[i - 1] \o s[i]]

LEMMA FlattenIsRunning ==
  ASSUME NEW s, Len(s) # 0
  PROVE  FlattenSeq(s) = Running(s, Len(s))[Len(s)]
BY DEF FlattenSeq, Running

LEMMA RunningUnfolds ==
  ASSUME NEW s, NEW n \in Nat
  PROVE  Running(s, n) = [i \in 1 .. n |-> IF i = 1 THEN s[i] ELSE Running(s, n)[i - 1] \o s[i]]
  <1>. DEFINE Then(x, i) == x \o s[i]
              Is(g, k) == g = [i \in 1 .. k |-> IF i = 1 THEN s[i] ELSE Then(g[i - 1], i)]
              P == {k \in Nat : \E g : Is(g, k)}
  <1>. HIDE DEF Then
  <1>1. 0 \in P
    <2>1. PICK g : g = [i \in 1 .. 0 |-> 0]
      OBVIOUS
    <2>2. Is(g, 0)
      BY <2>1
    <2>. QED BY <2>2
  <1>2. ASSUME NEW k \in Nat, k \in P PROVE k + 1 \in P
    <2>1. PICK g : Is(g, k)
      BY <1>2
    <2>2. PICK h : h = [i \in 1 .. k + 1 |-> IF i <= k THEN g[i]
                                             ELSE IF i = 1 THEN s[i] ELSE Then(g[i - 1], i)]
      OBVIOUS
    <2>3. ASSUME NEW i \in 1 .. k + 1
          PROVE  h[i] = IF i = 1 THEN s[i] ELSE Then(h[i - 1], i)
      <3>1. CASE i = 1
        BY <2>1, <2>2, <3>1
      <3>2. CASE i # 1
        <4>1. i - 1 \in 1 .. k /\ h[i - 1] = g[i - 1]
          BY <2>2, <3>2
        <4>2. CASE i <= k
          <5>1. g[i] = Then(g[i - 1], i)
            BY <2>1, <3>2, <4>2
          <5>. QED BY <2>2, <3>2, <4>1, <4>2, <5>1
        <4>3. CASE i = k + 1
          BY <2>2, <3>2, <4>1, <4>3
        <4>. QED BY <4>2, <4>3
      <3>. QED BY <3>1, <3>2
    <2>4. Is(h, k + 1)
      BY <2>2, <2>3
    <2>. QED BY <2>4
  <1>. HIDE DEF P
  <1>3. n \in P
    BY <1>1, <1>2, SetInduction
  <1>4. PICK g : Is(g, n)
    BY <1>3 DEF P
  <1>. QED BY <1>4 DEF Running, Then

\* It depends on what has been read only.
LEMMA RunningAgrees ==
  ASSUME NEW s, NEW t, NEW m \in Nat, NEW n \in Nat, m <= n,
         \A i \in 1 .. m : s[i] = t[i]
  PROVE  \A i \in 1 .. m : Running(s, m)[i] = Running(t, n)[i]
  <1>. DEFINE P == {k \in Nat : k \in 1 .. m => Running(s, m)[k] = Running(t, n)[k]}
  <1>1. 0 \in P
    OBVIOUS
  <1>2. ASSUME NEW k \in Nat, k \in P PROVE k + 1 \in P
    <2>. SUFFICES ASSUME k + 1 \in 1 .. m PROVE Running(s, m)[k + 1] = Running(t, n)[k + 1]
      OBVIOUS
    <2>. DEFINE Then(x, y) == x \o y
    <2>1. /\ Running(s, m)[k + 1] = IF k + 1 = 1 THEN s[k + 1]
                                   ELSE Then(Running(s, m)[(k + 1) - 1], s[k + 1])
          /\ Running(t, n)[k + 1] = IF k + 1 = 1 THEN t[k + 1]
                                   ELSE Then(Running(t, n)[(k + 1) - 1], t[k + 1])
      <3>1. k + 1 \in 1 .. m /\ k + 1 \in 1 .. n
        OBVIOUS
      <3>2. /\ Running(s, m) = [i \in 1 .. m |-> IF i = 1 THEN s[i] ELSE Then(Running(s, m)[i - 1], s[i])]
            /\ Running(t, n) = [i \in 1 .. n |-> IF i = 1 THEN t[i] ELSE Then(Running(t, n)[i - 1], t[i])]
        BY RunningUnfolds
      <3>. HIDE DEF Then
      <3>. QED BY <3>1, <3>2
    <2>. HIDE DEF Then
    <2>2. CASE k = 0
      BY <2>1, <2>2
    <2>3. CASE k # 0
      <3>1. k \in 1 .. m /\ (k + 1) - 1 = k
        BY <2>3
      <3>2. Running(s, m)[k] = Running(t, n)[k]
        BY <1>2, <3>1
      <3>. QED BY <2>1, <2>3, <3>1, <3>2
    <2>. QED BY <2>2, <2>3
  <1>. HIDE DEF P
  <1>3. Nat \subseteq P
    BY <1>1, <1>2, SetInduction
  <1>. QED BY <1>3 DEF P

LEMMA FlattenEmpty ==
  ASSUME NEW s, Len(s) = 0
  PROVE  FlattenSeq(s) = s
BY DEF FlattenSeq

\* One more sequence is put behind the others.
LEMMA FlattenOneMore ==
  ASSUME NEW f, NEW s, Len(f) \in Nat \ {0}, Len(s) = Len(f) + 1, \A i \in 1 .. Len(f) : f[i] = s[i]
  PROVE  FlattenSeq(s) = FlattenSeq(f) \o s[Len(s)]
  <1>. DEFINE Then(x, y) == x \o y
  <1>0. PICK n, m : /\ n = Len(f) /\ m = Len(s) /\ n \in Nat \ {0} /\ m \in Nat /\ m = n + 1
                    /\ \A i \in 1 .. n : f[i] = s[i]
    OBVIOUS
  <1>1. FlattenSeq(s) = Running(s, m)[m] /\ FlattenSeq(f) = Running(f, n)[n]
    <2>1. Len(s) # 0 /\ Len(f) # 0
      BY <1>0
    <2>. QED BY <1>0, <2>1, FlattenIsRunning
  <1>2. Running(f, n)[n] = Running(s, m)[n]
    <2>1. n <= m /\ n \in 1 .. n
      BY <1>0
    <2>2. \A i \in 1 .. n : Running(f, n)[i] = Running(s, m)[i]
      <3>1. n \in Nat /\ m \in Nat /\ n <= m /\ \A i \in 1 .. n : f[i] = s[i]
        BY <1>0, <2>1
      <3>. QED BY <3>1, RunningAgrees
    <2>. QED BY <2>1, <2>2, Zenon
  <1>3. Running(s, m)[m] = Then(Running(s, m)[n], s[m])
    <2>1. Running(s, m) = [i \in 1 .. m |-> IF i = 1 THEN s[i] ELSE Then(Running(s, m)[i - 1], s[i])]
      BY <1>0, RunningUnfolds
    <2>2. m \in 1 .. m /\ m # 1 /\ m - 1 = n
      BY <1>0
    <2>. HIDE DEF Then
    <2>. QED BY <2>1, <2>2
  <1>4. FlattenSeq(s) = Then(FlattenSeq(f), s[m])
    BY <1>1, <1>2, <1>3, Zenon
  <1>. QED BY <1>0, <1>4, Zenon

LEMMA FlattenOne ==
  ASSUME NEW s, Len(s) = 1
  PROVE  FlattenSeq(s) = s[1]
  <1>. DEFINE Then(x, y) == x \o y
  <1>0. Len(s) # 0
    OBVIOUS
  <1>1. FlattenSeq(s) = Running(s, Len(s))[Len(s)]
    BY <1>0, FlattenIsRunning, Zenon
  <1>2. Running(s, 1) = [i \in 1 .. 1 |-> IF i = 1 THEN s[i] ELSE Then(Running(s, 1)[i - 1], s[i])]
    BY RunningUnfolds
  <1>. HIDE DEF Then
  <1>3. Running(s, 1)[1] = s[1]
    BY <1>2
  <1>. QED BY <1>1, <1>3

\* A sequence begins with another one.
Begins(a, b) == Len(a) <= Len(b) /\ \A i \in 1 .. Len(a) : a[i] = b[i]

LEMMA PrefixIsBegins ==
  ASSUME NEW S, NEW a \in Seq(S), NEW b \in Seq(S)
  PROVE  IsPrefix(a, b) <=> Begins(a, b)
  <1>1. ASSUME IsPrefix(a, b) PROVE Begins(a, b)
    <2>1. Len(a) <= Len(b) /\ SubSeq(a, 1, Len(a)) = SubSeq(b, 1, Len(a))
      BY <1>1 DEF IsPrefix
    <2>2. ASSUME NEW i \in 1 .. Len(a) PROVE a[i] = b[i]
      <3>1. SubSeq(a, 1, Len(a))[i] = a[i]
        OBVIOUS
      <3>2. SubSeq(b, 1, Len(a))[i] = b[i]
        BY <2>1
      <3>. QED BY <2>1, <3>1, <3>2
    <2>. QED BY <2>1, <2>2 DEF Begins
  <1>2. ASSUME Begins(a, b) PROVE IsPrefix(a, b)
    <2>1. Len(a) <= Len(b) /\ \A i \in 1 .. Len(a) : a[i] = b[i]
      BY <1>2 DEF Begins
    <2>2. PICK c, d : c = SubSeq(a, 1, Len(a)) /\ d = SubSeq(b, 1, Len(a))
      OBVIOUS
    <2>3. /\ c \in Seq(S) /\ Len(c) = Len(a) /\ \A i \in 1 .. Len(a) : c[i] = a[i]
          /\ d \in Seq(S) /\ Len(d) = Len(a) /\ \A i \in 1 .. Len(a) : d[i] = b[i]
      BY <2>1, <2>2
    <2>4. c = d
      BY <2>1, <2>3, SeqEqual
    <2>. QED BY <2>1, <2>2, <2>4 DEF IsPrefix
  <1>. QED BY <1>1, <1>2

LEMMA BeginsTransitive ==
  ASSUME NEW S, NEW a \in Seq(S), NEW b \in Seq(S), NEW c \in Seq(S), Begins(a, b), Begins(b, c)
  PROVE  Begins(a, c)
BY DEF Begins

LEMMA BeginsConcat ==
  ASSUME NEW S, NEW a \in Seq(S), NEW b \in Seq(S)
  PROVE  a \o b \in Seq(S) /\ Begins(a, a \o b) /\ Len(a \o b) = Len(a) + Len(b)
BY ConcatProperties DEF Begins

\* What begins alike and is as long is the same.
LEMMA BeginsWhole ==
  ASSUME NEW S, NEW a \in Seq(S), NEW b \in Seq(S), Begins(a, b), Len(a) = Len(b)
  PROVE  a = b
BY SeqEqual DEF Begins

\* The same put in front.
LEMMA BeginsBehind ==
  ASSUME NEW S, NEW a \in Seq(S), NEW b \in Seq(S), NEW c \in Seq(S), Begins(b, c)
  PROVE  Begins(a \o b, a \o c)
  <1>1. /\ Len(a \o b) = Len(a) + Len(b)
        /\ \A i \in 1 .. Len(a) + Len(b) : (a \o b)[i] = IF i <= Len(a) THEN a[i] ELSE b[i - Len(a)]
    BY ConcatProperties
  <1>2. /\ Len(a \o c) = Len(a) + Len(c)
        /\ \A i \in 1 .. Len(a) + Len(c) : (a \o c)[i] = IF i <= Len(a) THEN a[i] ELSE c[i - Len(a)]
    BY ConcatProperties
  <1>3. Len(a) \in Nat /\ Len(b) \in Nat /\ Len(c) \in Nat
    OBVIOUS
  <1>4. Len(b) <= Len(c) /\ \A i \in 1 .. Len(b) : b[i] = c[i]
    BY DEF Begins
  <1>5. ASSUME NEW i \in 1 .. Len(a) + Len(b) PROVE (a \o b)[i] = (a \o c)[i]
    <2>1. i \in 1 .. Len(a) + Len(c)
      BY <1>3, <1>4
    <2>2. CASE i <= Len(a)
      BY <1>1, <1>2, <2>1, <2>2
    <2>3. CASE ~(i <= Len(a))
      <3>1. i - Len(a) \in 1 .. Len(b)
        BY <1>3, <2>3
      <3>. QED BY <1>1, <1>2, <1>4, <2>1, <2>3, <3>1
    <2>. QED BY <2>2, <2>3
  <1>. QED BY <1>1, <1>2, <1>3, <1>4, <1>5 DEF Begins

LEMMA FlattenAppend ==
  ASSUME NEW S, NEW f \in Seq(Seq(S)), NEW s \in Seq(Seq(S)), Len(s) = Len(f) + 1,
         \A i \in 1 .. Len(f) : f[i] = s[i], FlattenSeq(f) \in Seq(S)
  PROVE  FlattenSeq(s) = FlattenSeq(f) \o s[Len(s)] /\ FlattenSeq(s) \in Seq(S)
  <1>0. Len(f) \in Nat /\ Len(s) \in Nat /\ Len(s) \in 1 .. Len(s)
    OBVIOUS
  <1>1. s[Len(s)] \in Seq(S)
    BY <1>0
  <1>2. FlattenSeq(s) = FlattenSeq(f) \o s[Len(s)]
    <2>1. CASE Len(f) = 0
      <3>1. Len(s) = 1 /\ FlattenSeq(s) = s[1]
        BY <2>1, FlattenOne
      <3>2. f = <<>>
        BY <2>1
      <3>3. FlattenSeq(f) = <<>>
        BY <2>1, <3>2, FlattenEmpty
      <3>. QED BY <1>1, <3>1, <3>3, ConcatEmptySeq
    <2>2. CASE Len(f) # 0
      BY <1>0, <2>2, FlattenOneMore
    <2>. QED BY <2>1, <2>2
  <1>3. FlattenSeq(f) \o s[Len(s)] \in Seq(S)
    BY <1>1, ConcatProperties
  <1>. QED BY <1>2, <1>3

LEMMA FlattenType ==
  ASSUME NEW S, NEW s \in Seq(Seq(S))
  PROVE  FlattenSeq(s) \in Seq(S)
  <1>. DEFINE P == {n \in Nat : \A f \in Seq(Seq(S)) : Len(f) = n => FlattenSeq(f) \in Seq(S)}
  <1>1. 0 \in P
    <2>1. ASSUME NEW f \in Seq(Seq(S)), Len(f) = 0 PROVE FlattenSeq(f) \in Seq(S)
      <3>1. f = <<>> /\ FlattenSeq(f) = f
        BY <2>1, FlattenEmpty
      <3>2. <<>> \in Seq(S)
        BY EmptySeq
      <3>. QED BY <3>1, <3>2
    <2>. QED BY <2>1
  <1>2. ASSUME NEW n \in Nat, n \in P PROVE n + 1 \in P
    <2>1. ASSUME NEW f \in Seq(Seq(S)), Len(f) = n + 1 PROVE FlattenSeq(f) \in Seq(S)
      <3>1. PICK g : g = SubSeq(f, 1, n)
        OBVIOUS
      <3>2. g \in Seq(Seq(S)) /\ Len(g) = n /\ \A i \in 1 .. n : g[i] = f[i]
        BY <2>1, <3>1
      <3>3. FlattenSeq(g) \in Seq(S)
        BY <1>2, <3>2
      <3>. QED BY <2>1, <3>2, <3>3, FlattenAppend
    <2>. QED BY <2>1
  <1>. HIDE DEF P
  <1>3. Nat \subseteq P
    BY <1>1, <1>2, SetInduction
  <1>4. Len(s) \in P
    BY <1>3
  <1>. QED BY <1>4 DEF P

\* What begins with the same sequences begins alike.
LEMMA FlattenBegins ==
  ASSUME NEW S, NEW f \in Seq(Seq(S)), NEW s \in Seq(Seq(S)), Begins(f, s)
  PROVE  Begins(FlattenSeq(f), FlattenSeq(s))
  <1>. DEFINE P == {n \in Nat : \A t \in Seq(Seq(S)) :
                      Len(t) = Len(f) + n /\ Begins(f, t) => Begins(FlattenSeq(f), FlattenSeq(t))}
  <1>0. Len(f) \in Nat /\ FlattenSeq(f) \in Seq(S)
    BY FlattenType
  <1>1. 0 \in P
    <2>1. ASSUME NEW t \in Seq(Seq(S)), Len(t) = Len(f) + 0, Begins(f, t)
          PROVE  Begins(FlattenSeq(f), FlattenSeq(t))
      <3>1. f = t
        BY <1>0, <2>1, BeginsWhole
      <3>. QED BY <1>0, <3>1 DEF Begins
    <2>. QED BY <2>1
  <1>2. ASSUME NEW n \in Nat, n \in P PROVE n + 1 \in P
    <2>1. ASSUME NEW t \in Seq(Seq(S)), Len(t) = Len(f) + (n + 1), Begins(f, t)
          PROVE  Begins(FlattenSeq(f), FlattenSeq(t))
      <3>1. PICK g : g = SubSeq(t, 1, Len(f) + n)
        OBVIOUS
      <3>2. /\ g \in Seq(Seq(S)) /\ Len(g) = Len(f) + n /\ \A i \in 1 .. Len(f) + n : g[i] = t[i]
        BY <1>0, <2>1, <3>1
      <3>3. Begins(f, g)
        <4>1. \A i \in 1 .. Len(f) : i \in 1 .. Len(f) + n /\ f[i] = t[i]
          BY <1>0, <2>1 DEF Begins
        <4>2. \A i \in 1 .. Len(f) : f[i] = g[i]
          BY <3>2, <4>1
        <4>. QED BY <1>0, <3>2, <4>2 DEF Begins
      <3>4. Begins(FlattenSeq(f), FlattenSeq(g))
        BY <1>2, <3>2, <3>3
      <3>5. FlattenSeq(g) \in Seq(S) /\ FlattenSeq(t) \in Seq(S)
        BY <3>2, FlattenType
      <3>6. Len(t) = Len(g) + 1 /\ t[Len(t)] \in Seq(S)
        BY <1>0, <2>1, <3>2
      <3>7. FlattenSeq(t) = FlattenSeq(g) \o t[Len(t)]
        BY <3>2, <3>5, <3>6, FlattenAppend
      <3>8. Begins(FlattenSeq(g), FlattenSeq(t))
        BY <3>5, <3>6, <3>7, BeginsConcat
      <3>. QED BY <1>0, <3>4, <3>5, <3>8, BeginsTransitive
    <2>. QED BY <2>1
  <1>. HIDE DEF P
  <1>3. Nat \subseteq P
    BY <1>1, <1>2, SetInduction
  <1>4. Len(s) - Len(f) \in Nat /\ Len(s) = Len(f) + (Len(s) - Len(f))
    BY <1>0 DEF Begins
  <1>. QED BY <1>3, <1>4 DEF P

-----------------------------------------------------------------------------
(* Segments and what they hold *)

Byte == Mutations \X Nat
Datum == Seq(Byte)
Segment == [num : Nat, data : Datum, final : BOOLEAN]

\* The segments a are the first ones of b; the last of them may have grown.
Continues(a, b) ==
    /\ Len(a) <= Len(b)
    /\ \A i \in 1 .. Len(a) : /\ Begins(a[i].data, b[i].data)
                              /\ i < Len(a) => a[i].data = b[i].data

LEMMA BeginsItself ==
  ASSUME NEW a \in Datum
  PROVE  Begins(a, a)
BY DEF Begins, Datum

LEMMA DataOf ==
  ASSUME NEW a \in Seq(Segment), NEW d, d = [i \in DOMAIN a |-> a[i].data]
  PROVE  d \in Seq(Datum) /\ Len(d) = Len(a) /\ \A i \in 1 .. Len(a) : d[i] = a[i].data
  <1>1. DOMAIN a = 1 .. Len(a) /\ Len(a) \in Nat /\ \A i \in 1 .. Len(a) : a[i] \in Segment
    OBVIOUS
  <1>2. \A i \in 1 .. Len(a) : a[i].data \in Datum
    BY <1>1 DEF Segment
  <1>3. d = [i \in 1 .. Len(a) |-> a[i].data]
    BY <1>1
  <1>. QED BY <1>1, <1>2, <1>3

LEMMA ContentType ==
  ASSUME NEW a \in Seq(Segment)
  PROVE  Content(a) \in Datum
  <1>1. PICK d : d = [i \in DOMAIN a |-> a[i].data]
    OBVIOUS
  <1>2. d \in Seq(Datum)
    BY <1>1, DataOf
  <1>3. FlattenSeq(d) \in Datum
    BY <1>2, FlattenType DEF Datum
  <1>. QED BY <1>1, <1>3 DEF Content

LEMMA ContentEmpty == Content(<<>>) = <<>>
  <1>1. PICK e : e = <<>>
    OBVIOUS
  <1>2. PICK d : d = [i \in DOMAIN e |-> e[i].data]
    OBVIOUS
  <1>3. d = <<>> /\ Len(d) = 0
    BY <1>1, <1>2
  <1>4. Content(e) = d
    BY <1>2, <1>3, FlattenEmpty DEF Content
  <1>. QED BY <1>1, <1>3, <1>4

LEMMA ContentBegins ==
  ASSUME NEW a \in Seq(Segment), NEW b \in Seq(Segment), Len(a) <= Len(b),
         \A i \in 1 .. Len(a) : a[i].data = b[i].data
  PROVE  Begins(Content(a), Content(b))
  <1>1. PICK d, e : d = [i \in DOMAIN a |-> a[i].data] /\ e = [i \in DOMAIN b |-> b[i].data]
    OBVIOUS
  <1>2. /\ d \in Seq(Datum) /\ Len(d) = Len(a) /\ \A i \in 1 .. Len(a) : d[i] = a[i].data
        /\ e \in Seq(Datum) /\ Len(e) = Len(b) /\ \A i \in 1 .. Len(b) : e[i] = b[i].data
    BY <1>1, DataOf
  <1>3. Begins(d, e)
    BY <1>2 DEF Begins
  <1>4. Begins(FlattenSeq(d), FlattenSeq(e))
    BY <1>2, <1>3, FlattenBegins DEF Datum
  <1>. QED BY <1>1, <1>4 DEF Content

LEMMA ContentAppend ==
  ASSUME NEW a \in Seq(Segment), NEW b \in Seq(Segment), Len(b) = Len(a) + 1,
         \A i \in 1 .. Len(a) : a[i].data = b[i].data
  PROVE  Content(b) = Content(a) \o b[Len(b)].data
  <1>1. PICK d, e : d = [i \in DOMAIN a |-> a[i].data] /\ e = [i \in DOMAIN b |-> b[i].data]
    OBVIOUS
  <1>2. /\ d \in Seq(Datum) /\ Len(d) = Len(a) /\ \A i \in 1 .. Len(a) : d[i] = a[i].data
        /\ e \in Seq(Datum) /\ Len(e) = Len(b) /\ \A i \in 1 .. Len(b) : e[i] = b[i].data
    BY <1>1, DataOf
  <1>3. FlattenSeq(d) \in Seq(Byte)
    BY <1>2, FlattenType DEF Datum
  <1>4. Len(e) = Len(d) + 1 /\ \A i \in 1 .. Len(d) : d[i] = e[i]
    BY <1>2
  <1>5. FlattenSeq(e) = FlattenSeq(d) \o e[Len(e)]
    BY <1>2, <1>3, <1>4, FlattenAppend DEF Datum
  <1>6. e[Len(e)] = b[Len(b)].data
    BY <1>2
  <1>. QED BY <1>1, <1>5, <1>6 DEF Content

LEMMA ContinuesTransitive ==
  ASSUME NEW a \in Seq(Segment), NEW b \in Seq(Segment), NEW c \in Seq(Segment),
         Continues(a, b), Continues(b, c)
  PROVE  Continues(a, c)
  <1>1. Len(a) \in Nat /\ Len(b) \in Nat /\ Len(c) \in Nat /\ Len(a) <= Len(b) /\ Len(b) <= Len(c)
    BY DEF Continues
  <1>2. ASSUME NEW i \in 1 .. Len(a)
        PROVE  Begins(a[i].data, c[i].data) /\ (i < Len(a) => a[i].data = c[i].data)
    <2>1. i \in 1 .. Len(b) /\ i \in 1 .. Len(c) /\ (i < Len(a) => i < Len(b))
      BY <1>1
    <2>2. /\ a[i].data \in Seq(Byte) /\ b[i].data \in Seq(Byte) /\ c[i].data \in Seq(Byte)
      <3>1. a[i] \in Segment /\ b[i] \in Segment /\ c[i] \in Segment
        BY <2>1
      <3>. QED BY <3>1 DEF Segment, Datum
    <2>3. /\ Begins(a[i].data, b[i].data) /\ (i < Len(a) => a[i].data = b[i].data)
          /\ Begins(b[i].data, c[i].data) /\ (i < Len(b) => b[i].data = c[i].data)
      BY <2>1 DEF Continues
    <2>4. Begins(a[i].data, c[i].data)
      BY <2>2, <2>3, BeginsTransitive
    <2>. QED BY <2>1, <2>3, <2>4
  <1>. QED BY <1>1, <1>2 DEF Continues

LEMMA ContentContinues ==
  ASSUME NEW a \in Seq(Segment), NEW b \in Seq(Segment), Continues(a, b)
  PROVE  Begins(Content(a), Content(b))
  <1>0. /\ Len(a) \in Nat /\ Len(b) \in Nat /\ Len(a) <= Len(b)
        /\ Content(a) \in Seq(Byte) /\ Content(b) \in Seq(Byte)
    BY ContentType DEF Continues, Datum
  <1>1. CASE Len(a) = 0
    <2>1. a = <<>>
      BY <1>1
    <2>2. Len(Content(a)) = 0
      BY <2>1, ContentEmpty
    <2>. QED BY <1>0, <2>2 DEF Begins
  <1>2. CASE Len(a) # 0
    <2>1. PICK n : n = Len(a) - 1 /\ n \in Nat
      <3>1. Len(a) - 1 \in Nat
        BY <1>0, <1>2
      <3>. QED BY <3>1
    <2>2. PICK f, g : f = SubSeq(a, 1, n) /\ g = SubSeq(b, 1, n + 1)
      OBVIOUS
    <2>3. /\ f \in Seq(Segment) /\ Len(f) = n /\ \A i \in 1 .. n : f[i] = a[i]
          /\ g \in Seq(Segment) /\ Len(g) = n + 1 /\ \A i \in 1 .. n + 1 : g[i] = b[i]
      BY <1>0, <2>1, <2>2
    <2>4. n + 1 = Len(a) /\ n + 1 \in 1 .. Len(a) /\ n + 1 \in 1 .. Len(b)
      BY <1>0, <2>1
    <2>5. ASSUME NEW i \in 1 .. n PROVE f[i].data = a[i].data /\ f[i].data = g[i].data
      <3>1. i \in 1 .. Len(a) /\ i < Len(a) /\ i \in 1 .. n + 1
        BY <1>0, <2>1
      <3>2. a[i].data = b[i].data
        BY <3>1 DEF Continues
      <3>. QED BY <2>3, <3>1, <3>2
    <2>6. Content(a) = Content(f) \o a[n + 1].data
      <3>1. Len(a) = Len(f) + 1 /\ a[Len(a)] = a[n + 1] /\ \A i \in 1 .. Len(f) : f[i].data = a[i].data
        BY <2>1, <2>3, <2>4, <2>5
      <3>2. Content(a) = Content(f) \o a[Len(a)].data
        BY <2>3, <3>1, ContentAppend
      <3>. QED BY <3>1, <3>2
    <2>7. Content(g) = Content(f) \o b[n + 1].data
      <3>1. Len(g) = Len(f) + 1 /\ g[Len(g)] = b[n + 1] /\ \A i \in 1 .. Len(f) : f[i].data = g[i].data
        BY <2>1, <2>3, <2>5
      <3>2. Content(g) = Content(f) \o g[Len(g)].data
        BY <2>3, <3>1, ContentAppend
      <3>. QED BY <3>1, <3>2
    <2>8. Content(f) \in Seq(Byte) /\ a[n + 1].data \in Seq(Byte) /\ b[n + 1].data \in Seq(Byte)
      <3>1. a[n + 1] \in Segment /\ b[n + 1] \in Segment
        BY <2>4
      <3>. QED BY <2>3, <3>1, ContentType DEF Segment, Datum
    <2>9. Begins(a[n + 1].data, b[n + 1].data)
      BY <2>4 DEF Continues
    <2>10. Begins(Content(a), Content(g))
      BY <2>6, <2>7, <2>8, <2>9, BeginsBehind
    <2>11. Begins(Content(g), Content(b)) /\ Content(g) \in Seq(Byte)
      <3>1. Len(g) <= Len(b) /\ \A i \in 1 .. Len(g) : g[i].data = b[i].data
        BY <1>0, <2>1, <2>3
      <3>2. Begins(Content(g), Content(b))
        BY <2>3, <3>1, ContentBegins
      <3>. QED BY <2>3, <3>2, ContentType DEF Datum
    <2>. QED BY <1>0, <2>10, <2>11, BeginsTransitive
  <1>. QED BY <1>1, <1>2

\* What is added to the beginning of a sequence to get all of it.
LEMMA RestOf ==
  ASSUME NEW S, NEW a \in Seq(S), NEW b \in Seq(S), Begins(a, b)
  PROVE  a \o SubSeq(b, Len(a) + 1, Len(b)) = b
  <1>1. PICK r : r = SubSeq(b, Len(a) + 1, Len(b))
    OBVIOUS
  <1>2. Len(a) \in Nat /\ Len(b) \in Nat /\ Len(a) <= Len(b) /\ \A i \in 1 .. Len(a) : a[i] = b[i]
    BY DEF Begins
  <1>3. r \in Seq(S) /\ Len(r) = Len(b) - Len(a) /\ \A i \in 1 .. Len(r) : r[i] = b[Len(a) + i]
    BY <1>1, <1>2
  <1>4. /\ a \o r \in Seq(S) /\ Len(a \o r) = Len(a) + Len(r)
        /\ \A i \in 1 .. Len(a) + Len(r) : (a \o r)[i] = IF i <= Len(a) THEN a[i] ELSE r[i - Len(a)]
    BY <1>3, ConcatProperties
  <1>5. Len(a \o r) = Len(b)
    BY <1>2, <1>3, <1>4
  <1>6. ASSUME NEW i \in 1 .. Len(b) PROVE (a \o r)[i] = b[i]
    <2>0. i \in 1 .. Len(a) + Len(r)
      BY <1>2, <1>3
    <2>1. CASE i <= Len(a)
      BY <1>2, <1>4, <2>0, <2>1
    <2>2. CASE ~(i <= Len(a))
      <3>1. i - Len(a) \in 1 .. Len(r) /\ Len(a) + (i - Len(a)) = i
        BY <1>2, <1>3, <2>2
      <3>2. r[i - Len(a)] = b[i]
        BY <1>3, <3>1
      <3>. QED BY <1>4, <2>0, <2>2, <3>2
    <2>. QED BY <2>1, <2>2
  <1>7. a \o r = b
    BY <1>4, <1>5, <1>6, SeqEqual
  <1>. QED BY <1>1, <1>7

-----------------------------------------------------------------------------
(* The invariant *)

\* The leader's log, of its parts.
LogsOf(sg, n, buf) ==
    [i \in 1 .. n |-> [num |-> i - 1, data |-> sg[i - 1], final |-> FALSE]]
    \o (IF buf = <<>> THEN <<>> ELSE <<[num |-> n, data |-> buf, final |-> TRUE]>>)

\* The object that was created last is never deleted.
NewestKept ==
    /\ DOMAIN newest \subseteq Nat
    /\ \A n \in DOMAIN newest : /\ newest[n] \in Datum /\ newest[n] # <<>>
                                /\ <<n, newest[n]>> \in bucket

\* The leader has the newest objects, and a buffer that continues the last one.
LeaderHasAll ==
    /\ up \in BOOLEAN /\ curNum \in Nat /\ logBuf \in Datum
    /\ ~up => curNum = 0 /\ logBuf = <<>>
    /\ \A n \in 0 .. curNum - 1 : n \in DOMAIN newest /\ n \in DOMAIN seg /\ seg[n] = newest[n]
    /\ up => /\ \A n \in DOMAIN newest : n <= curNum
             /\ curNum \in DOMAIN newest => Begins(newest[curNum], logBuf)

\* Segments are in the bucket; the last of them may have grown.
Held(segs) ==
    \A i \in 1 .. Len(segs) :
        /\ i - 1 \in DOMAIN newest
        /\ Begins(segs[i].data, newest[i - 1])
        /\ i < Len(segs) => segs[i].data = newest[i - 1]

\* What was flushed is in the bucket and in the leader's log.
DurableKept ==
    /\ durable \in Seq(Segment)
    /\ Held(durable)
    /\ up => Continues(durable, JSONLogs)

InHistory(segs) == \E h \in Histories : Continues(segs, h)

\* What the client holds, and what it is about to hold, is of one history each.
ClientFollows ==
    /\ last \in Seq(Segment) /\ got \in Seq(Segment) /\ pending \in Seq(Segment)
    /\ InHistory(last) /\ InHistory(got \o pending)

GrownIn(files, n) == IF n \in DOMAIN files THEN files[n] ELSE <<>>

FilesHold(files, segs) ==
    \A i \in 1 .. Len(segs) : segs[i].final => GrownIn(files, segs[i].num) = segs[i].data

\* The files are those of the segments that were synced.
FilesAreOf ==
    /\ \A i \in 1 .. Len(got \o pending) : (got \o pending)[i].num = i - 1
    /\ FilesHold(growing, got)

CorpusIsLast == taint = "none" => corpus = Content(last)

-----------------------------------------------------------------------------
(* The leader *)

\* What a log is, entry by entry.
AreLogs(l, sg, n, buf) ==
    /\ l \in Seq(Segment)
    /\ Len(l) = IF buf = <<>> THEN n ELSE n + 1
    /\ \A i \in 1 .. Len(l) : /\ l[i].num = i - 1
                              /\ l[i].data = IF i = n + 1 THEN buf ELSE sg[i - 1]

LEMMA LogsAre ==
  ASSUME NEW sg, NEW n \in Nat, NEW buf \in Datum, \A k \in 0 .. n - 1 : sg[k] \in Datum
  PROVE  AreLogs(LogsOf(sg, n, buf), sg, n, buf)
  <1>1. PICK f : f = [i \in 1 .. n |-> [num |-> i - 1, data |-> sg[i - 1], final |-> FALSE]]
    OBVIOUS
  <1>2. /\ f \in Seq(Segment) /\ Len(f) = n
        /\ \A i \in 1 .. n : f[i].num = i - 1 /\ f[i].data = sg[i - 1]
    <2>1. ASSUME NEW i \in 1 .. n
          PROVE  /\ [num |-> i - 1, data |-> sg[i - 1], final |-> FALSE] \in Segment
                 /\ f[i].num = i - 1 /\ f[i].data = sg[i - 1]
      <3>1. i - 1 \in 0 .. n - 1 /\ i - 1 \in Nat
        OBVIOUS
      <3>2. sg[i - 1] \in Datum
        BY <3>1
      <3>. QED BY <1>1, <3>1, <3>2 DEF Segment
    <2>. QED BY <1>1, <2>1
  <1>3. CASE buf = <<>>
    <2>1. PICK e : e = <<>> /\ e \in Seq(Segment) /\ Len(e) = 0
      BY EmptySeq
    <2>2. f \o e = f
      BY <1>2, <2>1, ConcatEmptySeq
    <2>3. LogsOf(sg, n, buf) = f
      BY <1>1, <1>3, <2>1, <2>2 DEF LogsOf
    <2>. QED BY <1>2, <1>3, <2>3 DEF AreLogs
  <1>4. CASE buf # <<>>
    <2>0. PICK r : r = [num |-> n, data |-> buf, final |-> TRUE]
      OBVIOUS
    <2>1. r \in Segment
      BY <2>0 DEF Segment
    <2>2. PICK l, o : l = f \o o /\ o = <<r>>
      OBVIOUS
    <2>3. /\ l \in Seq(Segment) /\ Len(l) = n + 1
          /\ \A i \in 1 .. n : l[i] = f[i]
          /\ l[n + 1] = r
      <3>1. o \in Seq(Segment) /\ Len(o) = 1 /\ o[1] = r
        BY <2>1, <2>2
      <3>2. /\ l \in Seq(Segment) /\ Len(l) = n + 1
            /\ \A i \in 1 .. n + 1 : l[i] = IF i <= n THEN f[i] ELSE o[i - n]
        BY <1>2, <2>2, <3>1, ConcatProperties
      <3>. QED BY <3>1, <3>2
    <2>4. LogsOf(sg, n, buf) = l
      BY <1>1, <1>4, <2>0, <2>2 DEF LogsOf
    <2>5. ASSUME NEW i \in 1 .. n + 1
          PROVE  l[i].num = i - 1 /\ l[i].data = IF i = n + 1 THEN buf ELSE sg[i - 1]
      <3>1. CASE i = n + 1
        BY <2>0, <2>3, <3>1
      <3>2. CASE i # n + 1
        <4>1. i \in 1 .. n
          BY <3>2
        <4>. QED BY <1>2, <2>3, <3>2, <4>1
      <3>. QED BY <3>1, <3>2
    <2>. QED BY <1>4, <2>3, <2>4, <2>5 DEF AreLogs
  <1>. QED BY <1>3, <1>4

\* The buffer may grow, or become a segment.
LEMMA LogsGrow ==
  ASSUME NEW a, NEW f, NEW m \in Nat, NEW d \in Datum, AreLogs(a, f, m, d),
         NEW b, NEW g, NEW n \in Nat, NEW e \in Datum, AreLogs(b, g, n, e),
         \A k \in 0 .. m - 1 : f[k] = g[k],
         \/ m = n /\ Begins(d, e)
         \/ n = m + 1 /\ d # <<>> /\ g[m] = d
  PROVE  Continues(a, b)
  <1>1. /\ Len(a) = (IF d = <<>> THEN m ELSE m + 1)
        /\ Len(b) = (IF e = <<>> THEN n ELSE n + 1)
        /\ \A i \in 1 .. Len(a) : a[i].data = IF i = m + 1 THEN d ELSE f[i - 1]
        /\ \A i \in 1 .. Len(b) : b[i].data = IF i = n + 1 THEN e ELSE g[i - 1]
        /\ a \in Seq(Segment) /\ b \in Seq(Segment)
    BY DEF AreLogs
  <1>2. m = n => (e = <<>> => d = <<>>)
    <2>. SUFFICES ASSUME m = n, e = <<>> PROVE d = <<>>
      OBVIOUS
    <2>1. m # m + 1
      OBVIOUS
    <2>2. Begins(d, e) /\ Len(e) = 0 /\ Len(d) \in Nat
      BY <2>1 DEF Datum
    <2>3. Len(d) = 0
      BY <2>2 DEF Begins
    <2>. QED BY <2>3 DEF Datum
  <1>3. Len(a) <= Len(b)
    BY <1>1, <1>2
  <1>4. ASSUME NEW i \in 1 .. Len(a)
        PROVE  Begins(a[i].data, b[i].data) /\ (i < Len(a) => a[i].data = b[i].data)
    <2>1. i \in 1 .. Len(b) /\ i \in 1 .. m + 1 /\ a[i].data \in Datum
      <3>1. a[i] \in Segment
        BY <1>1
      <3>. QED BY <1>1, <1>3, <3>1 DEF Segment
    <2>2. CASE i = m + 1
      <3>1. a[i].data = d /\ ~(i < Len(a))
        BY <1>1, <2>2
      <3>2. CASE m = n
        <4>1. Begins(d, e) /\ b[i].data = e
          BY <1>1, <2>1, <2>2, <3>2
        <4>. QED BY <3>1, <4>1
      <3>3. CASE m # n
        <4>1. b[i].data = d
          BY <1>1, <2>1, <2>2, <3>3
        <4>. QED BY <3>1, <4>1, BeginsItself
      <3>. QED BY <3>2, <3>3
    <2>3. CASE i # m + 1
      <3>1. i - 1 \in 0 .. m - 1 /\ i # n + 1
        BY <2>1, <2>3
      <3>2. a[i].data = b[i].data
        BY <1>1, <2>1, <2>3, <3>1
      <3>. QED BY <2>1, <3>2, BeginsItself
    <2>. QED BY <2>2, <2>3
  <1>. QED BY <1>3, <1>4 DEF Continues

LEMMA LogsNow ==
  ASSUME NewestKept, LeaderHasAll
  PROVE  AreLogs(JSONLogs, seg, curNum, logBuf)
  <1>1. curNum \in Nat /\ logBuf \in Datum /\ \A k \in 0 .. curNum - 1 : seg[k] \in Datum
    BY DEF NewestKept, LeaderHasAll
  <1>2. JSONLogs = LogsOf(seg, curNum, logBuf)
    BY DEF JSONLogs, LogsOf
  <1>. QED BY <1>1, <1>2, LogsAre

LEMMA LogsNext ==
  ASSUME NewestKept', LeaderHasAll'
  PROVE  AreLogs(JSONLogs', seg', curNum', logBuf')
  <1>1. curNum' \in Nat /\ logBuf' \in Datum /\ \A k \in 0 .. curNum' - 1 : seg'[k] \in Datum
    BY DEF NewestKept, LeaderHasAll
  <1>2. JSONLogs' = LogsOf(seg', curNum', logBuf')
    BY DEF JSONLogs, LogsOf
  <1>. QED BY <1>1, <1>2, LogsAre

\* What a write may do to the bucket.
KeepsObjects ==
    /\ NewestKept'
    /\ \A n \in DOMAIN newest : n \in DOMAIN newest' /\ Begins(newest[n], newest'[n])
    /\ \A n \in DOMAIN newest' : n <= curNum
    /\ \A n \in 0 .. curNum - 1 : n \in DOMAIN newest' /\ newest'[n] = newest[n]
    /\ curNum \in DOMAIN newest' => Begins(newest'[curNum], logBuf)

LEMMA IdleKeeps ==
  ASSUME NewestKept, LeaderHasAll, up, UNCHANGED <<bucket, newest>>
  PROVE  KeepsObjects
  <1>1. NewestKept'
    BY DEF NewestKept
  <1>2. \A n \in DOMAIN newest : Begins(newest[n], newest[n])
    BY BeginsItself DEF NewestKept
  <1>. QED BY <1>1, <1>2 DEF KeepsObjects, LeaderHasAll

LEMMA StoreKeeps ==
  ASSUME NewestKept, LeaderHasAll, up, logBuf # <<>>, newest' = Created,
         bucket' = Stored \/ bucket' = Stored \ Replaced
  PROVE  KeepsObjects /\ curNum \in DOMAIN newest' /\ newest'[curNum] = logBuf
  <1>0. curNum \in Nat /\ logBuf \in Datum
    BY DEF LeaderHasAll
  <1>1. /\ DOMAIN newest' = DOMAIN newest \cup {curNum} /\ newest'[curNum] = logBuf
        /\ \A n \in DOMAIN newest : n # curNum => newest'[n] = newest[n]
    BY DEF Created, Put
  <1>2. ASSUME NEW n \in DOMAIN newest'
        PROVE  newest'[n] \in Datum /\ newest'[n] # <<>> /\ <<n, newest'[n]>> \in bucket'
    <2>1. CASE n = curNum
      <3>1. <<curNum, logBuf>> \in Stored /\ <<curNum, logBuf>> \notin Replaced
        BY DEF Stored, Replaced
      <3>. QED BY <1>0, <1>1, <2>1, <3>1
    <2>2. CASE n # curNum
      <3>1. newest'[n] = newest[n] /\ n \in DOMAIN newest
        BY <1>1, <2>2
      <3>2. <<n, newest[n]>> \in Stored
        BY <3>1 DEF Stored, NewestKept
      <3>3. <<n, newest[n]>> \notin Replaced
        BY <2>2 DEF Replaced
      <3>. QED BY <3>1, <3>2, <3>3 DEF NewestKept
    <2>. QED BY <2>1, <2>2
  <1>3. NewestKept'
    BY <1>0, <1>1, <1>2 DEF NewestKept
  <1>4. ASSUME NEW n \in DOMAIN newest PROVE n \in DOMAIN newest' /\ Begins(newest[n], newest'[n])
    <2>1. CASE n = curNum
      BY <1>1, <2>1 DEF LeaderHasAll
    <2>2. CASE n # curNum
      BY <1>1, <2>2, BeginsItself DEF NewestKept
    <2>. QED BY <2>1, <2>2
  <1>5. \A n \in DOMAIN newest' : n <= curNum
    BY <1>0, <1>1 DEF LeaderHasAll
  <1>6. \A n \in 0 .. curNum - 1 : n \in DOMAIN newest' /\ newest'[n] = newest[n]
    BY <1>0, <1>1 DEF LeaderHasAll
  <1>7. Begins(newest'[curNum], logBuf)
    BY <1>0, <1>1, BeginsItself
  <1>. QED BY <1>1, <1>3, <1>4, <1>5, <1>6, <1>7 DEF KeepsObjects

LEMMA ErrorKeeps ==
  ASSUME NewestKept, LeaderHasAll, up, FlushError
  PROVE  KeepsObjects
BY IdleKeeps, StoreKeeps DEF FlushError

LEMMA FlushKeeps ==
  ASSUME NewestKept, LeaderHasAll, up, FlushLocked
  PROVE  /\ KeepsObjects
         /\ \A n \in 0 .. curNum - 1 : n \in DOMAIN seg' /\ seg'[n] = seg[n]
         /\ logBuf # <<>> => /\ curNum \in DOMAIN newest' /\ curNum \in DOMAIN seg'
                             /\ seg'[curNum] = logBuf /\ newest'[curNum] = logBuf
  <1>0. curNum \in Nat /\ \A n \in 0 .. curNum - 1 : n \in DOMAIN seg
    BY DEF LeaderHasAll
  <1>1. CASE logBuf = <<>>
    BY <1>0, <1>1, IdleKeeps DEF FlushLocked
  <1>2. CASE logBuf # <<>>
    <2>1. newest' = Created /\ (bucket' = Stored \/ bucket' = Stored \ Replaced)
      BY <1>2 DEF FlushLocked
    <2>2. seg' = Put(seg, curNum, logBuf)
      BY <1>2 DEF FlushLocked
    <2>3. curNum \in DOMAIN seg' /\ seg'[curNum] = logBuf
      BY <2>2 DEF Put
    <2>4. ASSUME NEW n \in 0 .. curNum - 1 PROVE n \in DOMAIN seg' /\ seg'[n] = seg[n]
      BY <1>0, <2>2 DEF Put
    <2>. QED BY <1>2, <2>1, <2>3, <2>4, StoreKeeps
  <1>. QED BY <1>1, <1>2

LEMMA DurableStays ==
  ASSUME NewestKept, LeaderHasAll, DurableKept, up, KeepsObjects, UNCHANGED durable
  PROVE  Held(durable)'
  <1>0. durable' = durable /\ durable \in Seq(Segment) /\ Len(durable) \in Nat /\ curNum \in Nat
    BY DEF DurableKept, LeaderHasAll
  <1>1. ASSUME NEW i \in 1 .. Len(durable)
        PROVE  /\ i - 1 \in DOMAIN newest'
               /\ Begins(durable[i].data, newest'[i - 1])
               /\ i < Len(durable) => durable[i].data = newest'[i - 1]
    <2>1. /\ i - 1 \in DOMAIN newest /\ Begins(durable[i].data, newest[i - 1])
          /\ i < Len(durable) => durable[i].data = newest[i - 1]
      BY DEF DurableKept, Held
    <2>2. i - 1 \in DOMAIN newest' /\ Begins(newest[i - 1], newest'[i - 1])
      BY <2>1 DEF KeepsObjects
    <2>3. durable[i].data \in Seq(Byte) /\ newest[i - 1] \in Seq(Byte) /\ newest'[i - 1] \in Seq(Byte)
      <3>1. durable[i] \in Segment
        BY <1>0
      <3>2. newest[i - 1] \in Datum /\ newest'[i - 1] \in Datum
        BY <2>1, <2>2 DEF KeepsObjects, NewestKept
      <3>. QED BY <3>1, <3>2 DEF Segment, Datum
    <2>4. Begins(durable[i].data, newest'[i - 1])
      BY <2>1, <2>2, <2>3, BeginsTransitive
    <2>5. ASSUME i < Len(durable) PROVE durable[i].data = newest'[i - 1]
      <3>1. Len(durable) \in 1 .. Len(durable)
        BY <1>0, <2>5
      <3>2. Len(durable) - 1 \in DOMAIN newest
        BY <3>1 DEF DurableKept, Held
      <3>3. Len(durable) - 1 <= curNum
        BY <3>2 DEF LeaderHasAll
      <3>4. i - 1 \in 0 .. curNum - 1
        BY <1>0, <2>5, <3>3
      <3>5. newest'[i - 1] = newest[i - 1]
        BY <3>4 DEF KeepsObjects
      <3>. QED BY <2>1, <2>5, <3>5
    <2>. QED BY <2>2, <2>4, <2>5
  <1>. QED BY <1>0, <1>1 DEF Held

LEMMA LogsHeld ==
  ASSUME NewestKept, LeaderHasAll, up, FlushLocked
  PROVE  durable' = JSONLogs /\ JSONLogs \in Seq(Segment) /\ Held(durable)'
  <1>0. durable' = JSONLogs /\ curNum \in Nat /\ logBuf \in Datum
    BY DEF FlushLocked, LeaderHasAll
  <1>1. /\ KeepsObjects
        /\ logBuf # <<>> => curNum \in DOMAIN newest' /\ newest'[curNum] = logBuf
    BY FlushKeeps
  <1>2. PICK l : l = JSONLogs /\ AreLogs(l, seg, curNum, logBuf)
    BY LogsNow
  <1>3. ASSUME NEW i \in 1 .. Len(l)
        PROVE  i - 1 \in DOMAIN newest' /\ l[i].data = newest'[i - 1] /\ l[i].data \in Datum
    <2>0. l \in Seq(Segment) /\ l[i].data = (IF i = curNum + 1 THEN logBuf ELSE seg[i - 1])
      BY <1>2 DEF AreLogs
    <2>1. CASE i = curNum + 1
      <3>1. logBuf # <<>> /\ i - 1 = curNum
        BY <1>0, <1>2, <2>1 DEF AreLogs
      <3>. QED BY <1>0, <1>1, <2>0, <2>1, <3>1
    <2>2. CASE i # curNum + 1
      <3>1. i - 1 \in 0 .. curNum - 1
        <4>1. Len(l) <= curNum + 1
          BY <1>0, <1>2 DEF AreLogs
        <4>. QED BY <1>0, <2>2, <4>1
      <3>2. /\ i - 1 \in DOMAIN newest /\ newest[i - 1] \in Datum
            /\ seg[i - 1] = newest[i - 1] /\ newest'[i - 1] = newest[i - 1] /\ i - 1 \in DOMAIN newest'
        BY <1>1, <3>1 DEF LeaderHasAll, KeepsObjects, NewestKept
      <3>. QED BY <2>0, <2>2, <3>2
    <2>. QED BY <2>1, <2>2
  <1>4. \A i \in 1 .. Len(l) : Begins(l[i].data, newest'[i - 1])
    BY <1>3, BeginsItself
  <1>5. durable' = l
    BY <1>0, <1>2
  <1>6. Held(durable)'
    BY <1>3, <1>4, <1>5 DEF Held
  <1>. QED BY <1>0, <1>2, <1>6 DEF AreLogs

\* The log continues in a step that fills the buffer or makes a segment of it.
LEMMA LogContinues ==
  ASSUME NewestKept, LeaderHasAll, NewestKept', LeaderHasAll',
         \A k \in 0 .. curNum - 1 : seg[k] = seg'[k],
         \/ curNum = curNum' /\ Begins(logBuf, logBuf')
         \/ curNum' = curNum + 1 /\ logBuf # <<>> /\ seg'[curNum] = logBuf
  PROVE  Continues(JSONLogs, JSONLogs') /\ JSONLogs \in Seq(Segment) /\ JSONLogs' \in Seq(Segment)
  <1>1. AreLogs(JSONLogs, seg, curNum, logBuf) /\ AreLogs(JSONLogs', seg', curNum', logBuf')
    BY LogsNow, LogsNext
  <1>2. curNum \in Nat /\ curNum' \in Nat /\ logBuf \in Datum /\ logBuf' \in Datum
    BY DEF LeaderHasAll
  <1>3. Continues(JSONLogs, JSONLogs')
    BY <1>1, <1>2, LogsGrow
  <1>. QED BY <1>1, <1>3 DEF AreLogs

\* Every history goes on in a history of the next state.
HistoriesGrow ==
    /\ past' \subseteq Seq(Segment)
    /\ \A h \in Histories : h \in Seq(Segment) /\ \E g \in Histories' : g \in Seq(Segment) /\ Continues(h, g)

LEMMA ContinuesItself ==
  ASSUME NEW a \in Seq(Segment)
  PROVE  Continues(a, a)
  <1>1. ASSUME NEW i \in 1 .. Len(a) PROVE Begins(a[i].data, a[i].data)
    <2>1. a[i] \in Segment
      OBVIOUS
    <2>. QED BY <2>1, BeginsItself DEF Segment
  <1>. QED BY <1>1 DEF Continues

LEMMA GrowOn ==
  ASSUME past \subseteq Seq(Segment), UNCHANGED past,
         Continues(JSONLogs, JSONLogs'), JSONLogs \in Seq(Segment), JSONLogs' \in Seq(Segment)
  PROVE  HistoriesGrow
  <1>1. past' = past /\ JSONLogs' \in Histories' /\ past \subseteq Histories'
    BY DEF Histories
  <1>2. ASSUME NEW h \in Histories
        PROVE  h \in Seq(Segment) /\ \E g \in Histories' : g \in Seq(Segment) /\ Continues(h, g)
    <2>1. CASE h \in past
      BY <1>1, <2>1, ContinuesItself
    <2>2. CASE h = JSONLogs
      BY <1>1, <2>2
    <2>. QED BY <2>1, <2>2 DEF Histories
  <1>. QED BY <1>1, <1>2 DEF HistoriesGrow

LEMMA GrowDown ==
  ASSUME past \subseteq Seq(Segment), past' = past \cup {JSONLogs}, JSONLogs \in Seq(Segment)
  PROVE  HistoriesGrow
  <1>1. Histories = past' /\ Histories \subseteq Histories'
    BY DEF Histories
  <1>. QED BY <1>1, ContinuesItself DEF HistoriesGrow

LeaderInv == NewestKept /\ LeaderHasAll /\ DurableKept /\ past \subseteq Seq(Segment)

LEMMA RecordType ==
  ASSUME NEW m \in Mutations, NEW off \in Nat
  PROVE  Record(m, off) \in Datum
  <1>1. Size[m] \in Nat
    BY MutationLogAssumption
  <1>2. <<m, off>> \in Byte
    BY DEF Byte
  <1>. QED BY <1>1, <1>2 DEF Record, Datum

LEMMA LogKeeps ==
  ASSUME LeaderInv, NEW m \in Mutations, Log(m)
  PROVE  LeaderInv' /\ HistoriesGrow
  <1>0. /\ up = TRUE /\ up' = TRUE /\ past' = past /\ past \subseteq Seq(Segment)
        /\ curNum \in Nat /\ logBuf \in Seq(Byte) /\ logBuf \in Datum
    BY DEF Log, LeaderInv, LeaderHasAll, Datum
  <1>. USE DEF LeaderInv
  <1>1. CASE PushesOver(m)
    <2>1. FlushLocked /\ curNum' = curNum + 1 /\ logBuf' = Record(m, 0)
      BY <1>1 DEF Log
    <2>2. logBuf # <<>>
      <3>0. Size[m] \in 1 .. Target /\ Target \in Nat
        BY MutationLogAssumption
      <3>1. Len(logBuf) + Size[m] > Target /\ Size[m] <= Target /\ Len(logBuf) \in Nat /\ Size[m] \in Int
        BY <1>0, <1>1, <3>0 DEF PushesOver
      <3>2. Len(logBuf) # 0
        BY <3>0, <3>1
      <3>. QED BY <3>2
    <2>3. /\ KeepsObjects /\ NewestKept'
          /\ \A n \in 0 .. curNum - 1 : n \in DOMAIN seg' /\ seg'[n] = seg[n]
          /\ curNum \in DOMAIN newest' /\ curNum \in DOMAIN seg'
          /\ seg'[curNum] = logBuf /\ newest'[curNum] = logBuf
      BY <1>0, <2>1, <2>2, FlushKeeps DEF KeepsObjects
    <2>4. LeaderHasAll'
      <3>1. logBuf' \in Datum /\ curNum' \in Nat
        BY <1>0, <2>1, RecordType
      <3>2. ASSUME NEW n \in 0 .. curNum' - 1
            PROVE  n \in DOMAIN newest' /\ n \in DOMAIN seg' /\ seg'[n] = newest'[n]
        <4>1. CASE n = curNum
          BY <2>3, <4>1
        <4>2. CASE n # curNum
          <5>1. n \in 0 .. curNum - 1
            BY <1>0, <2>1, <4>2
          <5>. QED BY <2>3, <5>1 DEF KeepsObjects, LeaderHasAll
        <4>. QED BY <4>1, <4>2
      <3>3. \A n \in DOMAIN newest' : n <= curNum' /\ n # curNum'
        <4>1. \A n \in DOMAIN newest' : n <= curNum /\ n \in Nat
          BY <2>3 DEF KeepsObjects, NewestKept
        <4>. QED BY <1>0, <2>1, <4>1
      <3>. QED BY <1>0, <3>1, <3>2, <3>3 DEF LeaderHasAll
    <2>5. Continues(JSONLogs, JSONLogs') /\ JSONLogs \in Seq(Segment) /\ JSONLogs' \in Seq(Segment)
      BY <2>1, <2>2, <2>3, <2>4, LogContinues
    <2>6. DurableKept'
      BY <1>0, <2>1, <2>5, LogsHeld DEF DurableKept
    <2>. QED BY <1>0, <2>3, <2>4, <2>5, <2>6, GrowOn
  <1>2. CASE ~PushesOver(m)
    <2>1. /\ logBuf' = logBuf \o Record(m, Len(logBuf))
          /\ UNCHANGED <<bucket, newest, seg, curNum, durable>>
      BY <1>2 DEF Log
    <2>2. logBuf' \in Datum /\ Begins(logBuf, logBuf')
      <3>1. Record(m, Len(logBuf)) \in Seq(Byte)
        BY <1>0, RecordType DEF Datum
      <3>. QED BY <1>0, <2>1, <3>1, BeginsConcat DEF Datum
    <2>3. KeepsObjects /\ NewestKept'
      BY <1>0, <2>1, IdleKeeps DEF KeepsObjects
    <2>4. LeaderHasAll'
      <3>1. curNum \in DOMAIN newest => Begins(newest[curNum], logBuf')
        <4>. SUFFICES ASSUME curNum \in DOMAIN newest PROVE Begins(newest[curNum], logBuf')
          OBVIOUS
        <4>1. newest[curNum] \in Seq(Byte) /\ Begins(newest[curNum], logBuf) /\ logBuf' \in Seq(Byte)
          BY <1>0, <2>2 DEF NewestKept, LeaderHasAll, Datum
        <4>. QED BY <1>0, <2>2, <4>1, BeginsTransitive
      <3>. QED BY <1>0, <2>1, <2>2, <3>1 DEF LeaderHasAll
    <2>5. Continues(JSONLogs, JSONLogs') /\ JSONLogs \in Seq(Segment) /\ JSONLogs' \in Seq(Segment)
      BY <2>1, <2>2, <2>3, <2>4, LogContinues
    <2>6. DurableKept'
      <3>1. Held(durable)'
        BY <1>0, <2>1, <2>3, DurableStays
      <3>2. durable' = durable /\ durable \in Seq(Segment) /\ Continues(durable, JSONLogs)
        BY <1>0, <2>1 DEF DurableKept
      <3>3. Continues(durable, JSONLogs')
        BY <2>5, <3>2, ContinuesTransitive
      <3>. QED BY <3>1, <3>2, <3>3 DEF DurableKept
    <2>. QED BY <1>0, <2>3, <2>4, <2>5, <2>6, GrowOn
  <1>. QED BY <1>1, <1>2

LEMMA TimerKeeps ==
  ASSUME LeaderInv, OnFlushTimer
  PROVE  LeaderInv' /\ HistoriesGrow
  <1>. USE DEF LeaderInv
  <1>0. /\ up = TRUE /\ up' = TRUE /\ past' = past /\ past \subseteq Seq(Segment)
        /\ curNum \in Nat /\ logBuf \in Datum /\ curNum' = curNum /\ logBuf' = logBuf
    BY DEF OnFlushTimer, LeaderHasAll
  <1>1. /\ KeepsObjects /\ NewestKept'
        /\ \A n \in 0 .. curNum - 1 : n \in DOMAIN seg' /\ seg'[n] = seg[n]
    <2>1. CASE FlushLocked
      BY <1>0, <2>1, FlushKeeps DEF KeepsObjects
    <2>2. CASE FlushError /\ UNCHANGED seg
      BY <1>0, <2>2, ErrorKeeps DEF KeepsObjects, LeaderHasAll
    <2>. QED BY <2>1, <2>2 DEF OnFlushTimer
  <1>2. LeaderHasAll'
    <2>1. \A n \in 0 .. curNum - 1 : n \in DOMAIN newest' /\ n \in DOMAIN seg' /\ seg'[n] = newest'[n]
      BY <1>1 DEF KeepsObjects, LeaderHasAll
    <2>. QED BY <1>0, <1>1, <2>1 DEF LeaderHasAll, KeepsObjects
  <1>3. Continues(JSONLogs, JSONLogs') /\ JSONLogs \in Seq(Segment) /\ JSONLogs' \in Seq(Segment)
    <2>1. Begins(logBuf, logBuf')
      BY <1>0, BeginsItself
    <2>. QED BY <1>0, <1>1, <1>2, <2>1, LogContinues
  <1>4. DurableKept'
    <2>1. CASE FlushLocked
      BY <1>0, <1>3, <2>1, LogsHeld DEF DurableKept
    <2>2. CASE UNCHANGED durable
      <3>1. Held(durable)'
        BY <1>0, <1>1, <2>2, DurableStays
      <3>2. durable' = durable /\ durable \in Seq(Segment) /\ Continues(durable, JSONLogs)
        BY <1>0, <2>2 DEF DurableKept
      <3>3. Continues(durable, JSONLogs')
        BY <1>3, <3>2, ContinuesTransitive
      <3>. QED BY <3>1, <3>2, <3>3 DEF DurableKept
    <2>. QED BY <2>1, <2>2 DEF OnFlushTimer
  <1>. QED BY <1>0, <1>1, <1>2, <1>3, <1>4, GrowOn

LEMMA DownKeeps ==
  ASSUME LeaderInv, up, KeepsObjects, Down
  PROVE  LeaderInv' /\ HistoriesGrow
  <1>. USE DEF LeaderInv
  <1>0. /\ up' = FALSE /\ curNum' = 0 /\ logBuf' = <<>> /\ durable' = durable
        /\ past' = past \cup {JSONLogs} /\ past \subseteq Seq(Segment)
    BY DEF Down, LeaderStarts
  <1>1. NewestKept'
    BY DEF KeepsObjects
  <1>2. LeaderHasAll'
    <2>1. logBuf' \in Datum
      BY <1>0, EmptySeq DEF Datum
    <2>2. \A n \in 0 .. curNum' - 1 : FALSE
      BY <1>0
    <2>. QED BY <1>0, <2>1, <2>2 DEF LeaderHasAll
  <1>3. DurableKept'
    BY <1>0, DurableStays DEF DurableKept
  <1>4. JSONLogs \in Seq(Segment)
    BY LogsNow DEF AreLogs
  <1>5. HistoriesGrow
    BY <1>0, <1>4, GrowDown
  <1>6. past' \subseteq Seq(Segment)
    BY <1>5 DEF HistoriesGrow
  <1>. QED BY <1>1, <1>2, <1>3, <1>5, <1>6

LEMMA CrashKeeps ==
  ASSUME LeaderInv, Crash \/ \E m \in Mutations : LogFails(m)
  PROVE  LeaderInv' /\ HistoriesGrow
  <1>1. CASE Crash
    <2>1. KeepsObjects
      BY <1>1, IdleKeeps DEF Crash, LeaderInv
    <2>. QED BY <1>1, <2>1, DownKeeps DEF Crash
  <1>2. CASE \E m \in Mutations : LogFails(m)
    <2>1. KeepsObjects
      BY <1>2, ErrorKeeps DEF LogFails, LeaderInv
    <2>. QED BY <1>2, <2>1, DownKeeps DEF LogFails
  <1>. QED BY <1>1, <1>2

\* A leader that has loaded what the bucket holds serves it.
LEMMA LoadKeeps ==
  ASSUME LeaderInv, InitLoad
  PROVE  LeaderInv' /\ HistoriesGrow
  <1>. USE DEF LeaderInv
  <1>0. /\ up = FALSE /\ up' = TRUE /\ past' = past /\ past \subseteq Seq(Segment)
        /\ newest' = newest /\ durable' = durable /\ durable \in Seq(Segment) /\ Len(durable) \in Nat
        /\ curNum = 0 /\ logBuf = <<>> /\ DOMAIN newest \subseteq Nat
    BY DEF InitLoad, LeaderHasAll, DurableKept, NewestKept
  <1>1. NewestKept'
    <2>1. PICK D \in SUBSET {o \in bucket : o[2] # newest[o[1]]} : bucket' = bucket \ D
      BY DEF InitLoad, Newest
    <2>2. \A n \in DOMAIN newest : <<n, newest[n]>> \in bucket'
      BY <2>1 DEF NewestKept
    <2>. QED BY <1>0, <2>2 DEF NewestKept
  <1>2. Held(durable)'
    BY <1>0 DEF DurableKept, Held
  <1>3. LeaderHasAll' /\ Continues(durable, JSONLogs')
    <2>1. CASE bucket = {} /\ LeaderStarts(NoFiles, 0, <<>>)
      <3>1. curNum' = 0 /\ logBuf' = <<>> /\ logBuf' \in Datum
        BY <2>1, EmptySeq DEF LeaderStarts, Datum
      <3>2. \A n \in DOMAIN newest : FALSE
        BY <2>1 DEF NewestKept
      <3>3. \A n \in 0 .. curNum' - 1 : FALSE
        BY <3>1
      <3>4. LeaderHasAll'
        BY <1>0, <3>1, <3>2, <3>3 DEF LeaderHasAll
      <3>5. Len(durable) = 0
        BY <1>0, <3>2 DEF DurableKept, Held
      <3>6. JSONLogs' \in Seq(Segment)
        BY <1>1, <3>4, LogsNext DEF AreLogs
      <3>. QED BY <3>4, <3>5, <3>6 DEF Continues
    <2>2. CASE \E max \in Numbers :
                  /\ \A n \in Numbers : n <= max
                  /\ 0 .. max \subseteq Numbers
                  /\ \/ LeaderStarts([n \in Numbers |-> Newest(n)], max + 1, <<>>)
                     \/ LeaderStarts([n \in Numbers |-> Newest(n)], max, Newest(max))
      <3>1. PICK max \in DOMAIN newest :
                  /\ \A n \in DOMAIN newest : n <= max
                  /\ 0 .. max \subseteq DOMAIN newest
                  /\ \/ LeaderStarts([n \in DOMAIN newest |-> newest[n]], max + 1, <<>>)
                     \/ LeaderStarts([n \in DOMAIN newest |-> newest[n]], max, newest[max])
        BY <2>2 DEF Numbers, Newest
      <3>2. max \in Nat /\ newest[max] \in Datum /\ newest[max] # <<>>
        BY <1>0 DEF NewestKept
      <3>3. /\ DOMAIN seg' = DOMAIN newest /\ \A n \in DOMAIN newest : seg'[n] = newest[n]
            /\ \/ curNum' = max + 1 /\ logBuf' = <<>>
               \/ curNum' = max /\ logBuf' = newest[max]
        BY <3>1 DEF LeaderStarts
      <3>4. curNum' \in Nat /\ logBuf' \in Datum
        <4>1. logBuf' = <<>> => logBuf' \in Datum
          BY EmptySeq DEF Datum
        <4>. QED BY <3>2, <3>3, <4>1
      <3>5. LeaderHasAll'
        <4>1. ASSUME NEW n \in 0 .. curNum' - 1 PROVE n \in DOMAIN newest /\ seg'[n] = newest[n]
          <5>1. n \in 0 .. max
            BY <3>2, <3>3
          <5>. QED BY <3>1, <3>3, <5>1
        <4>2. \A n \in DOMAIN newest : n <= curNum'
          BY <1>0, <3>1, <3>2, <3>3
        <4>3. curNum' \in DOMAIN newest => Begins(newest[curNum'], logBuf')
          <5>1. CASE curNum' = max + 1
            BY <3>1, <3>2, <5>1
          <5>2. CASE curNum' = max
            <6>1. logBuf' = newest[max]
              BY <3>2, <3>3, <5>2
            <6>. QED BY <3>2, <5>2, <6>1, BeginsItself
          <5>. QED BY <3>3, <5>1, <5>2
        <4>. QED BY <1>0, <3>3, <3>4, <4>1, <4>2, <4>3 DEF LeaderHasAll
      <3>6. PICK l : l = JSONLogs' /\ AreLogs(l, seg', curNum', logBuf')
        BY <1>1, <3>5, LogsNext
      <3>7. Len(l) = max + 1 /\ \A i \in 1 .. max + 1 : l[i].data = newest[i - 1]
        <4>1. Len(l) = max + 1
          BY <3>2, <3>3, <3>6 DEF AreLogs
        <4>2. ASSUME NEW i \in 1 .. max + 1 PROVE l[i].data = newest[i - 1]
          <5>1. l[i].data = IF i = curNum' + 1 THEN logBuf' ELSE seg'[i - 1]
            BY <3>6, <4>1 DEF AreLogs
          <5>2. i - 1 \in DOMAIN newest /\ seg'[i - 1] = newest[i - 1]
            BY <3>1, <3>2, <3>3
          <5>3. i = curNum' + 1 => logBuf' = newest[i - 1]
            BY <3>2, <3>3
          <5>. QED BY <5>1, <5>2, <5>3
        <4>. QED BY <4>1, <4>2
      <3>8. Len(durable) <= max + 1
        <4>1. CASE Len(durable) = 0
          BY <3>2, <4>1
        <4>2. CASE Len(durable) # 0
          <5>1. Len(durable) \in 1 .. Len(durable)
            BY <1>0, <4>2
          <5>2. Len(durable) - 1 \in DOMAIN newest
            BY <5>1 DEF DurableKept, Held
          <5>3. Len(durable) - 1 <= max
            BY <3>1, <5>2
          <5>. QED BY <1>0, <3>2, <5>3
        <4>. QED BY <4>1, <4>2
      <3>9. ASSUME NEW i \in 1 .. Len(durable)
            PROVE  Begins(durable[i].data, l[i].data) /\ (i < Len(durable) => durable[i].data = l[i].data)
        <4>1. i \in 1 .. max + 1
          BY <1>0, <3>2, <3>8
        <4>2. /\ Begins(durable[i].data, newest[i - 1])
              /\ i < Len(durable) => durable[i].data = newest[i - 1]
          BY DEF DurableKept, Held
        <4>. QED BY <3>7, <4>1, <4>2
      <3>10. Continues(durable, l)
        BY <3>7, <3>8, <3>9 DEF Continues
      <3>. QED BY <3>5, <3>6, <3>10
    <2>3. \/ bucket = {} /\ LeaderStarts(NoFiles, 0, <<>>)
          \/ \E max \in Numbers :
                  /\ \A n \in Numbers : n <= max
                  /\ 0 .. max \subseteq Numbers
                  /\ \/ LeaderStarts([n \in Numbers |-> Newest(n)], max + 1, <<>>)
                     \/ LeaderStarts([n \in Numbers |-> Newest(n)], max, Newest(max))
      <3>1. CASE bucket = {} /\ LeaderStarts(NoFiles, 0, <<>>)
        BY <3>1
      <3>2. ASSUME NEW max \in Numbers,
                   LET segs == [n \in Numbers |-> Newest(n)]
                   IN  /\ \A n \in Numbers : n <= max
                       /\ 0..max \subseteq Numbers
                       /\ IF Len(segs[max]) >= Target - Slack
                          THEN LeaderStarts(segs, max + 1, <<>>)
                          ELSE LeaderStarts(segs, max, segs[max])
            PROVE \/ LeaderStarts([n \in Numbers |-> Newest(n)], max + 1, <<>>)
                  \/ LeaderStarts([n \in Numbers |-> Newest(n)], max, Newest(max))
        <4>1. [n \in Numbers |-> Newest(n)][max] = Newest(max)
          OBVIOUS
        <4>. QED BY <3>2, <4>1
      <3>. QED BY <3>1, <3>2 DEF InitLoad
    <2>. QED BY <2>1, <2>2, <2>3
  <1>4. JSONLogs \in Seq(Segment) /\ JSONLogs' \in Seq(Segment) /\ Len(JSONLogs) = 0
    BY <1>0, <1>1, <1>3, LogsNow, LogsNext DEF AreLogs
  <1>5. Continues(JSONLogs, JSONLogs')
    BY <1>4 DEF Continues
  <1>6. DurableKept'
    BY <1>0, <1>2, <1>3 DEF DurableKept
  <1>. QED BY <1>0, <1>1, <1>3, <1>4, <1>5, <1>6, GrowOn

-----------------------------------------------------------------------------
(* The client *)

\* What is in a history stays in one.
LEMMA StaysInHistory ==
  ASSUME NEW a \in Seq(Segment), HistoriesGrow, InHistory(a)
  PROVE  \E h \in Histories' : h \in Seq(Segment) /\ Continues(a, h)
  <1>1. PICK h \in Histories : Continues(a, h)
    BY DEF InHistory
  <1>2. PICK g \in Histories' : h \in Seq(Segment) /\ g \in Seq(Segment) /\ Continues(h, g)
    BY DEF HistoriesGrow
  <1>. QED BY <1>1, <1>2, ContinuesTransitive

\* Segments with the same data are in the same histories.
LEMMA SameDataContinues ==
  ASSUME NEW a, NEW b, NEW h, Len(a) = Len(b), \A i \in 1 .. Len(a) : a[i].data = b[i].data,
         Continues(a, h)
  PROVE  Continues(b, h)
BY DEF Continues

\* The first segments, as long as they have the same data.
LEMMA SameSegmentsAre ==
  ASSUME NEW a \in Seq(Segment), NEW b \in Seq(Segment), NEW k, k = SameSegments(a, b)
  PROVE  /\ k \in Nat /\ k <= Len(a) /\ k <= Len(b)
         /\ \A j \in 1 .. k : a[j].data = b[j].data
  <1>. DEFINE Same(i) == i <= Len(a) /\ i <= Len(b) /\ \A j \in 1 .. i : a[j].data = b[j].data
              Stop(i) == i < Len(a) /\ i < Len(b) => a[i + 1].data # b[i + 1].data
              P == {i \in Nat : Same(i)}
  <1>0. Len(a) \in Nat /\ Len(b) \in Nat
    OBVIOUS
  <1>1. \E i \in 0 .. Len(a) : Same(i) /\ Stop(i)
    <2>. SUFFICES ASSUME \A i \in 0 .. Len(a) : ~(Same(i) /\ Stop(i)) PROVE FALSE
      OBVIOUS
    <2>1. 0 \in P
      BY <1>0
    <2>2. ASSUME NEW i \in Nat, i \in P PROVE i + 1 \in P
      <3>1. i \in 0 .. Len(a) /\ Same(i)
        BY <1>0, <2>2
      <3>2. i < Len(a) /\ i < Len(b) /\ a[i + 1].data = b[i + 1].data
        BY <3>1
      <3>3. \A j \in 1 .. i + 1 : a[j].data = b[j].data
        <4>1. \A j \in 1 .. i + 1 : j \in 1 .. i \/ j = i + 1
          BY <2>2
        <4>. QED BY <3>1, <3>2, <4>1
      <3>. QED BY <1>0, <3>2, <3>3
    <2>. HIDE DEF P
    <2>3. Len(a) + 1 \in P
      BY <1>0, <2>1, <2>2, SetInduction
    <2>. QED BY <1>0, <2>3 DEF P
  <1>2. k = CHOOSE i \in 0 .. Len(a) : Same(i) /\ Stop(i)
    BY DEF SameSegments
  <1>. HIDE DEF Same, Stop
  <1>3. k \in 0 .. Len(a) /\ Same(k)
    BY <1>1, <1>2
  <1>. QED BY <1>0, <1>3 DEF Same

\* The first n segments, and what they hold.
LEMMA FirstSegments ==
  ASSUME NEW a \in Seq(Segment), NEW n \in Nat, n <= Len(a), NEW f, f = SubSeq(a, 1, n)
  PROVE  /\ f \in Seq(Segment) /\ Len(f) = n /\ \A i \in 1 .. n : f[i] = a[i]
         /\ Content(f) \in Seq(Byte) /\ Content(a) \in Seq(Byte) /\ Begins(Content(f), Content(a))
  <1>1. f \in Seq(Segment) /\ Len(f) = n /\ \A i \in 1 .. n : f[i] = a[i]
    OBVIOUS
  <1>2. Content(f) \in Seq(Byte) /\ Content(a) \in Seq(Byte)
    BY <1>1, ContentType DEF Datum
  <1>3. Len(f) <= Len(a) /\ \A i \in 1 .. Len(f) : f[i].data = a[i].data
    BY <1>1
  <1>4. Begins(Content(f), Content(a))
    BY <1>1, <1>3, ContentBegins
  <1>. QED BY <1>1, <1>2, <1>4

LEMMA SameContent ==
  ASSUME NEW a \in Seq(Segment), NEW b \in Seq(Segment), Len(a) = Len(b),
         \A i \in 1 .. Len(a) : a[i].data = b[i].data
  PROVE  Content(a) = Content(b)
  <1>1. Content(a) \in Seq(Byte) /\ Content(b) \in Seq(Byte)
    BY ContentType DEF Datum
  <1>2. Len(a) <= Len(b) /\ Len(b) <= Len(a) /\ \A i \in 1 .. Len(b) : b[i].data = a[i].data
    OBVIOUS
  <1>3. Begins(Content(a), Content(b)) /\ Begins(Content(b), Content(a))
    BY <1>2, ContentBegins
  <1>4. Len(Content(a)) = Len(Content(b))
    BY <1>1, <1>3 DEF Begins
  <1>. QED BY <1>1, <1>3, <1>4, BeginsWhole

\* One more segment of both.
LEMMA NextSegment ==
  ASSUME NEW a \in Seq(Segment), NEW n \in Nat, n < Len(a),
         NEW f, f = SubSeq(a, 1, n), NEW g, g = SubSeq(a, 1, n + 1)
  PROVE  /\ Content(g) = Content(f) \o a[n + 1].data /\ a[n + 1].data \in Seq(Byte)
         /\ Len(Content(g)) = Len(Content(f)) + Len(a[n + 1].data)
  <1>0. n + 1 \in Nat /\ n + 1 <= Len(a) /\ n <= Len(a) /\ n + 1 \in 1 .. Len(a)
    OBVIOUS
  <1>1. /\ f \in Seq(Segment) /\ Len(f) = n /\ \A i \in 1 .. n : f[i] = a[i]
        /\ Content(f) \in Seq(Byte)
    BY <1>0, FirstSegments
  <1>2. /\ g \in Seq(Segment) /\ Len(g) = n + 1 /\ \A i \in 1 .. n + 1 : g[i] = a[i]
    BY <1>0, FirstSegments
  <1>3. Len(g) = Len(f) + 1 /\ g[Len(g)] = a[n + 1] /\ \A i \in 1 .. Len(f) : f[i].data = g[i].data
    BY <1>1, <1>2
  <1>4. Content(g) = Content(f) \o g[Len(g)].data
    BY <1>1, <1>2, <1>3, ContentAppend
  <1>5. a[n + 1].data \in Seq(Byte)
    <2>1. a[n + 1] \in Segment
      BY <1>0
    <2>. QED BY <2>1 DEF Segment, Datum
  <1>6. Content(g) = Content(f) \o a[n + 1].data
    BY <1>3, <1>4
  <1>. QED BY <1>1, <1>5, <1>6, BeginsConcat

\* Where the sums of last are found in the new segments, the new ones continue it.
LEMMA HasLastMeansPrefix ==
  ASSUME NEW a \in Seq(Segment), NEW b \in Seq(Segment),
         \A i \in 1 .. Len(a) : a[i].final => Grown(a[i].num) = a[i].data,
         SumCommon(a, b) = Len(Content(b))
  PROVE  Begins(Content(b), Content(a))
  <1>1. PICK k : k = SameSegments(a, b)
    OBVIOUS
  <1>2. /\ k \in Nat /\ k <= Len(a) /\ k <= Len(b) /\ Len(a) \in Nat /\ Len(b) \in Nat
        /\ \A j \in 1 .. k : a[j].data = b[j].data
    BY <1>1, SameSegmentsAre
  <1>3. PICK a1, b1, a2, b2 : /\ a1 = SubSeq(a, 1, k) /\ b1 = SubSeq(b, 1, k)
                              /\ a2 = SubSeq(a, 1, k + 1) /\ b2 = SubSeq(b, 1, k + 1)
    OBVIOUS
  <1>4. /\ a1 \in Seq(Segment) /\ Len(a1) = k /\ \A i \in 1 .. k : a1[i] = a[i]
        /\ b1 \in Seq(Segment) /\ Len(b1) = k /\ \A i \in 1 .. k : b1[i] = b[i]
        /\ Content(a1) \in Seq(Byte) /\ Content(b1) \in Seq(Byte)
        /\ Content(a) \in Seq(Byte) /\ Content(b) \in Seq(Byte)
        /\ Begins(Content(a1), Content(a)) /\ Begins(Content(b1), Content(b))
    BY <1>2, <1>3, FirstSegments
  <1>5. Content(a1) = Content(b1)
    <2>1. Len(a1) = Len(b1) /\ \A i \in 1 .. Len(a1) : a1[i].data = b1[i].data
      BY <1>2, <1>4
    <2>. QED BY <1>4, <2>1, SameContent
  <1>6. CASE Len(Content(a1)) = Len(Content(b))
    <2>1. Content(b1) = Content(b)
      BY <1>4, <1>5, <1>6, BeginsWhole
    <2>. QED BY <1>4, <1>5, <2>1
  <1>7. CASE k < Len(a) /\ k < Len(b)
    <2>1. /\ Content(a2) = Content(a1) \o a[k + 1].data /\ a[k + 1].data \in Seq(Byte)
          /\ Content(b2) = Content(b1) \o b[k + 1].data /\ b[k + 1].data \in Seq(Byte)
          /\ Len(Content(b2)) = Len(Content(b1)) + Len(b[k + 1].data)
      BY <1>2, <1>3, <1>7, NextSegment
    <2>2. /\ Content(a2) \in Seq(Byte) /\ Begins(Content(a2), Content(a))
          /\ Content(b2) \in Seq(Byte) /\ Begins(Content(b2), Content(b))
      <3>1. k + 1 \in Nat /\ k + 1 <= Len(a) /\ k + 1 <= Len(b)
        BY <1>2, <1>7
      <3>. QED BY <1>3, <3>1, FirstSegments
    <2>3. \/ Len(Content(b)) = Len(Content(a1))
          \/ /\ Len(a[k + 1].data) < Len(b[k + 1].data)
             /\ Len(Content(b)) = Len(Content(a1)) + Len(a[k + 1].data)
          \/ /\ Len(b[k + 1].data) < Len(a[k + 1].data)
             /\ FilePrefix(a[k + 1], Len(b[k + 1].data)) = b[k + 1].data
             /\ Len(Content(b)) = Len(Content(a1)) + Len(b[k + 1].data)
      <3>. DEFINE Common(x, y) == Len(x.data) < Len(y.data) /\ FilePrefix(y, Len(x.data)) = x.data
      <3>1. SumCommon(a, b)
              = Len(Content(a1)) + (IF Len(a) = k \/ Len(b) = k THEN 0
                                    ELSE IF Common(a[k + 1], b[k + 1]) THEN Len(a[k + 1].data)
                                    ELSE IF Common(b[k + 1], a[k + 1]) THEN Len(b[k + 1].data) ELSE 0)
        BY <1>1, <1>3 DEF SumCommon
      <3>. HIDE DEF Common
      <3>2. \/ Len(Content(b)) = Len(Content(a1)) + 0
            \/ Common(a[k + 1], b[k + 1]) /\ Len(Content(b)) = Len(Content(a1)) + Len(a[k + 1].data)
            \/ Common(b[k + 1], a[k + 1]) /\ Len(Content(b)) = Len(Content(a1)) + Len(b[k + 1].data)
        BY <1>2, <1>7, <3>1
      <3>3. Len(Content(a1)) \in Nat
        BY <1>4
      <3>. QED BY <3>2, <3>3 DEF Common
    <2>4. ASSUME Len(a[k + 1].data) < Len(b[k + 1].data),
                 Len(Content(b)) = Len(Content(a1)) + Len(a[k + 1].data)
          PROVE  FALSE
      <3>1. Len(Content(b2)) <= Len(Content(b))
        BY <2>2 DEF Begins
      <3>2. Len(a[k + 1].data) \in Nat /\ Len(b[k + 1].data) \in Nat /\ Len(Content(a1)) \in Nat
        <4>1. a[k + 1].data \in Seq(Byte) /\ b[k + 1].data \in Seq(Byte) /\ Content(a1) \in Seq(Byte)
          BY <1>4, <2>1
        <4>2. \A x \in Seq(Byte) : Len(x) \in Nat
          OBVIOUS
        <4>. QED BY <4>1, <4>2
      <3>3. Len(Content(b2)) = Len(Content(a1)) + Len(b[k + 1].data)
        BY <1>5, <2>1
      <3>4. PICK l, m, n : l = Len(a[k + 1].data) /\ m = Len(b[k + 1].data) /\ n = Len(Content(a1))
        OBVIOUS
      <3>5. l \in Nat /\ m \in Nat /\ n \in Nat /\ l < m /\ n + m <= n + l
        BY <2>4, <3>1, <3>2, <3>3, <3>4
      <3>. QED BY <3>5
    <2>5. ASSUME Len(b[k + 1].data) < Len(a[k + 1].data),
                 FilePrefix(a[k + 1], Len(b[k + 1].data)) = b[k + 1].data,
                 Len(Content(b)) = Len(Content(a1)) + Len(b[k + 1].data)
          PROVE  Begins(Content(b), Content(a))
      <3>1. FilePrefix(a[k + 1], Len(b[k + 1].data))
              = IF Len(b[k + 1].data) <= Len(a[k + 1].data)
                THEN SubSeq(a[k + 1].data, 1, Len(b[k + 1].data)) ELSE <<>>
        <4>1. k + 1 \in 1 .. Len(a)
          BY <1>2, <1>7
        <4>2. a[k + 1].final => Grown(a[k + 1].num) = a[k + 1].data
          BY <4>1
        <4>. QED BY <4>2 DEF FilePrefix
      <3>0. Len(b[k + 1].data) \in Nat /\ Len(a[k + 1].data) \in Nat
        BY <2>1
      <3>2. PICK n : n = Len(b[k + 1].data) /\ n \in Nat /\ n < Len(a[k + 1].data)
        BY <2>5, <3>0, Zenon
      <3>3. b[k + 1].data = SubSeq(a[k + 1].data, 1, n)
        BY <2>5, <3>0, <3>1, <3>2
      <3>4. \A i \in 1 .. n : SubSeq(a[k + 1].data, 1, n)[i] = a[k + 1].data[i]
        BY <2>1, <3>0, <3>2
      <3>5. Begins(b[k + 1].data, a[k + 1].data)
        BY <3>0, <3>2, <3>3, <3>4 DEF Begins
      <3>6. Begins(Content(b2), Content(a2))
        BY <1>4, <1>5, <2>1, <3>5, BeginsBehind
      <3>7. Content(b2) = Content(b)
        BY <1>4, <1>5, <2>1, <2>2, <2>5, BeginsWhole
      <3>. QED BY <1>4, <2>2, <3>6, <3>7, BeginsTransitive
    <2>. QED BY <1>6, <2>3, <2>4, <2>5
  <1>8. CASE ~(k < Len(a) /\ k < Len(b))
    <2>1. Len(a) = k \/ Len(b) = k
      BY <1>2, <1>8
    <2>2. Len(Content(b)) = Len(Content(a1)) + 0
      BY <1>1, <1>3, <2>1 DEF SumCommon
    <2>3. Len(Content(a1)) \in Nat
      BY <1>4
    <2>. QED BY <1>6, <2>2, <2>3
  <1>. QED BY <1>7, <1>8

ClientInv == ClientFollows /\ FilesAreOf /\ CorpusIsLast

\* A step of the leader leaves the client in a history.
LEMMA LeaderStep ==
  ASSUME ClientInv, UNCHANGED clientVars, HistoriesGrow
  PROVE  ClientInv'
  <1>. USE DEF ClientInv
  <1>0. /\ last' = last /\ got' = got /\ pending' = pending /\ growing' = growing
        /\ corpus' = corpus /\ taint' = taint
    BY DEF clientVars
  <1>1. /\ last \in Seq(Segment) /\ got \in Seq(Segment) /\ pending \in Seq(Segment)
        /\ InHistory(last) /\ InHistory(got \o pending)
    BY DEF ClientFollows
  <1>2. PICK w : w = got \o pending /\ w \in Seq(Segment)
    BY <1>1, ConcatProperties
  <1>3. /\ \E h \in Histories' : Continues(last, h)
        /\ \E h \in Histories' : Continues(w, h)
    BY <1>1, <1>2, StaysInHistory
  <1>4. ClientFollows'
    BY <1>0, <1>1, <1>2, <1>3 DEF ClientFollows, InHistory
  <1>5. FilesAreOf' /\ CorpusIsLast'
    BY <1>0 DEF FilesAreOf, CorpusIsLast
  <1>. QED BY <1>4, <1>5

LEMMA LeaderRests ==
  ASSUME LeaderInv, UNCHANGED leaderVars
  PROVE  LeaderInv' /\ Histories' = Histories
BY DEF LeaderInv, leaderVars, NewestKept, LeaderHasAll, DurableKept, Held, JSONLogs, Histories

LEMMA HistoriesType ==
  ASSUME LeaderInv
  PROVE  Histories \subseteq Seq(Segment) /\ JSONLogs \in Histories
BY LogsNow DEF LeaderInv, Histories, AreLogs

\* Update has ended.
LEMMA EndKeeps ==
  ASSUME LeaderInv, UNCHANGED leaderVars, pending' = <<>>, got' = <<>>, last' \in Seq(Segment),
         \E h \in Histories : Continues(last', h), CorpusIsLast'
  PROVE  ClientInv'
  <1>1. PICK e : e = <<>> /\ e \in Seq(Segment) /\ Len(e) = 0
    BY EmptySeq
  <1>2. e \o e = e
    BY <1>1, ConcatEmptySeq
  <1>3. \A h \in Histories : Continues(e, h)
    BY <1>1, HistoriesType DEF Continues
  <1>4. \E h \in Histories : Continues(e, h)
    BY <1>3, HistoriesType
  <1>5. Histories' = Histories
    BY LeaderRests
  <1>6. ClientFollows'
    BY <1>1, <1>2, <1>4, <1>5 DEF ClientFollows, InHistory
  <1>7. FilesAreOf'
    BY <1>1, <1>2 DEF FilesAreOf, FilesHold
  <1>. QED BY <1>6, <1>7 DEF ClientInv

\* A segment goes from the one sequence to the other.
LEMMA OneMoved ==
  ASSUME NEW g \in Seq(Segment), NEW p \in Seq(Segment), p # <<>>,
         NEW t \in Segment, t.num = Head(p).num, t.data = Head(p).data,
         NEW v, v = g \o p, NEW w, w = Append(g, t) \o Tail(p)
  PROVE  /\ v \in Seq(Segment) /\ w \in Seq(Segment) /\ Len(v) = Len(w)
         /\ \A i \in 1 .. Len(v) : w[i].data = v[i].data /\ w[i].num = v[i].num
         /\ Len(g) + 1 \in 1 .. Len(v) /\ v[Len(g) + 1] = Head(p)
         /\ \A i \in 1 .. Len(g) : i \in 1 .. Len(v) /\ v[i] = g[i]
  <1>0. Len(g) \in Nat /\ Len(p) \in Nat /\ Len(p) # 0 /\ Head(p) = p[1]
    OBVIOUS
  <1>1. PICK a, b : a = Append(g, t) /\ b = Tail(p)
    OBVIOUS
  <1>2. /\ a \in Seq(Segment) /\ Len(a) = Len(g) + 1 /\ a[Len(g) + 1] = t
        /\ \A i \in 1 .. Len(g) : a[i] = g[i]
    BY <1>1, AppendProperties
  <1>3. /\ b \in Seq(Segment) /\ Len(b) = Len(p) - 1 /\ \A i \in 1 .. Len(b) : b[i] = p[i + 1]
    BY <1>0, <1>1, HeadTailProperties
  <1>4. /\ v \in Seq(Segment) /\ Len(v) = Len(g) + Len(p)
        /\ \A i \in 1 .. Len(g) + Len(p) : v[i] = IF i <= Len(g) THEN g[i] ELSE p[i - Len(g)]
    BY ConcatProperties
  <1>5. /\ w \in Seq(Segment) /\ Len(w) = Len(a) + Len(b)
        /\ \A i \in 1 .. Len(a) + Len(b) : w[i] = IF i <= Len(a) THEN a[i] ELSE b[i - Len(a)]
    BY <1>1, <1>2, <1>3, ConcatProperties
  <1>6. Len(v) = Len(w)
    BY <1>0, <1>2, <1>3, <1>4, <1>5
  <1>7. Len(g) + 1 \in 1 .. Len(v) /\ v[Len(g) + 1] = Head(p)
    BY <1>0, <1>4
  <1>8. \A i \in 1 .. Len(g) : i \in 1 .. Len(v) /\ v[i] = g[i]
    BY <1>0, <1>4
  <1>9. ASSUME NEW i \in 1 .. Len(v) PROVE w[i].data = v[i].data /\ w[i].num = v[i].num
    <2>0. i \in 1 .. Len(g) + Len(p) /\ i \in 1 .. Len(a) + Len(b)
      BY <1>0, <1>4, <1>5, <1>6
    <2>1. CASE i <= Len(g)
      BY <1>0, <1>2, <1>4, <1>5, <2>0, <2>1
    <2>2. CASE i = Len(g) + 1
      BY <1>0, <1>2, <1>4, <1>5, <2>0, <2>2
    <2>3. CASE i > Len(g) + 1
      <3>1. /\ i - Len(a) \in 1 .. Len(b) /\ (i - Len(a)) + 1 = i - Len(g)
            /\ ~(i <= Len(a)) /\ ~(i <= Len(g))
        BY <1>0, <1>2, <1>3, <2>0, <2>3
      <3>2. w[i] = b[i - Len(a)] /\ v[i] = p[i - Len(g)]
        BY <1>4, <1>5, <2>0, <3>1
      <3>3. b[i - Len(a)] = p[i - Len(g)]
        BY <1>3, <3>1
      <3>. QED BY <3>2, <3>3
    <2>. QED BY <1>0, <2>0, <2>1, <2>2, <2>3
  <1>. QED BY <1>4, <1>5, <1>6, <1>7, <1>8, <1>9

\* A segment is synced as t; at most its own file has changed.
LEMMA SyncKeeps ==
  ASSUME LeaderInv, ClientInv, UNCHANGED <<leaderVars, last, corpus, taint>>,
         NEW s, Syncing(s), NEW t \in Segment, t.num = s.num, t.data = s.data, Synced(t),
         \A n : n # s.num => GrownIn(growing', n) = GrownIn(growing, n),
         t.final => GrownIn(growing', s.num) = s.data
  PROVE  ClientInv'
  <1>. USE DEF ClientInv
  <1>0. /\ last \in Seq(Segment) /\ got \in Seq(Segment) /\ pending \in Seq(Segment)
        /\ pending # <<>> /\ s = Head(pending) /\ got' = Append(got, t) /\ pending' = Tail(pending)
        /\ last' = last /\ corpus' = corpus /\ taint' = taint
    BY DEF ClientFollows, Syncing, Synced
  <1>1. PICK v, w : v = got \o pending /\ w = Append(got, t) \o Tail(pending)
    OBVIOUS
  <1>2. /\ v \in Seq(Segment) /\ w \in Seq(Segment) /\ Len(v) = Len(w)
        /\ \A i \in 1 .. Len(v) : w[i].data = v[i].data /\ w[i].num = v[i].num
        /\ Len(got) + 1 \in 1 .. Len(v) /\ v[Len(got) + 1] = s
        /\ \A i \in 1 .. Len(got) : i \in 1 .. Len(v) /\ v[i] = got[i]
    <2>1. t.num = Head(pending).num /\ t.data = Head(pending).data
      BY <1>0
    <2>. QED BY <1>0, <1>1, <2>1, OneMoved
  <1>3. w = (got \o pending)'
    BY <1>0, <1>1
  <1>4. Histories' = Histories
    BY LeaderRests
  <1>5. ClientFollows'
    <2>1. PICK h \in Histories : Continues(v, h)
      BY <1>1 DEF ClientFollows, InHistory
    <2>2. Continues(w, h)
      BY <1>2, <2>1, SameDataContinues
    <2>3. got' \in Seq(Segment) /\ pending' \in Seq(Segment)
      BY <1>0
    <2>4. \E g \in Histories : Continues(last, g)
      BY DEF ClientFollows, InHistory
    <2>5. InHistory(last)' /\ InHistory(got \o pending)'
      BY <1>0, <1>3, <1>4, <2>2, <2>4 DEF InHistory
    <2>. QED BY <1>0, <2>3, <2>5 DEF ClientFollows
  <1>6. FilesAreOf'
    <2>0. Len(got) \in Nat /\ Len(got') = Len(got) + 1 /\ got'[Len(got) + 1] = t
          /\ \A i \in 1 .. Len(got) : got'[i] = got[i]
      BY <1>0, AppendProperties
    <2>1. \A i \in 1 .. Len(v) : v[i].num = i - 1
      BY <1>1 DEF FilesAreOf
    <2>2. \A i \in 1 .. Len(w) : w[i].num = i - 1
      BY <1>2, <2>1
    <2>3. s.num = (Len(got) + 1) - 1
      BY <1>2, <2>1
    <2>4. PICK f, g : f = growing' /\ g = got'
      OBVIOUS
    <2>5. ASSUME NEW i \in 1 .. Len(got) + 1, g[i].final PROVE GrownIn(f, g[i].num) = g[i].data
      <3>1. CASE i = Len(got) + 1
        BY <2>0, <2>4, <2>5, <3>1
      <3>2. CASE i # Len(got) + 1
        <4>1. i \in 1 .. Len(got) /\ i - 1 # (Len(got) + 1) - 1
          BY <2>0, <3>2
        <4>2. g[i] = got[i] /\ got[i].num = i - 1
          BY <1>2, <2>0, <2>1, <2>4, <4>1
        <4>3. GrownIn(growing, got[i].num) = got[i].data
          BY <2>5, <4>1, <4>2 DEF FilesAreOf, FilesHold
        <4>4. got[i].num # s.num
          BY <2>3, <4>1, <4>2
        <4>. QED BY <2>4, <4>2, <4>3, <4>4
      <3>. QED BY <2>0, <3>1, <3>2
    <2>6. FilesHold(f, g)
      BY <2>0, <2>4, <2>5 DEF FilesHold
    <2>. QED BY <1>3, <2>2, <2>4, <2>6 DEF FilesAreOf
  <1>7. CorpusIsLast'
    BY <1>0 DEF CorpusIsLast
  <1>. QED BY <1>5, <1>6, <1>7

LEMMA SyncSegKeeps ==
  ASSUME LeaderInv, ClientInv, SyncSeg
  PROVE  ClientInv' /\ UNCHANGED leaderVars
  <1>0. PICK s \in ToSet(pending) :
            SyncFrozen(s) \/ SyncGrown(s) \/ SyncData(s) \/ SyncAgain(s) \/ SyncFails(s)
    BY DEF SyncSeg
  <1>. USE DEF ClientInv
  <1>1. Syncing(s) /\ UNCHANGED leaderVars
    BY <1>0 DEF SyncFrozen, SyncGrown, SyncData, SyncAgain, SyncFails
  <1>2. /\ s \in Segment /\ s.num \in Nat
        /\ last \in Seq(Segment) /\ got \in Seq(Segment) /\ pending \in Seq(Segment)
    <2>1. pending \in Seq(Segment) /\ pending # <<>> /\ s = Head(pending)
      BY <1>1 DEF ClientFollows, Syncing
    <2>2. s \in Segment
      BY <2>1
    <2>. QED BY <2>2 DEF Segment, ClientFollows
  <1>3. CASE SyncFrozen(s)
    <2>1. PICK t : t = [s EXCEPT !.final = FALSE]
      OBVIOUS
    <2>2. t \in Segment /\ t.num = s.num /\ t.data = s.data /\ t.final = FALSE
      BY <1>2, <2>1 DEF Segment
    <2>3. Synced(t) /\ growing' = growing /\ UNCHANGED <<leaderVars, last, corpus, taint>>
      BY <1>3, <2>1 DEF SyncFrozen
    <2>4. \A n : GrownIn(growing', n) = GrownIn(growing, n)
      BY <2>3
    <2>. QED BY <1>1, <2>2, <2>3, <2>4, SyncKeeps
  <1>4. CASE SyncGrown(s)
    <2>1. Synced(s) /\ UNCHANGED <<leaderVars, last, corpus, taint>> /\ Grown(s.num) = s.data
      BY <1>4 DEF SyncGrown
    <2>2. \A n : n # s.num => GrownIn(growing', n) = GrownIn(growing, n)
      BY <1>4 DEF SyncGrown, GrownIn, Without
    <2>3. s.final => GrownIn(growing', s.num) = s.data
      BY <1>4, <2>1 DEF SyncGrown, Grown, GrownIn
    <2>. QED BY <1>1, <1>2, <2>1, <2>2, <2>3, SyncKeeps
  <1>5. CASE SyncData(s)
    <2>1. Synced(s) /\ UNCHANGED <<leaderVars, last, corpus, taint>> /\ Write(s)
      BY <1>5 DEF SyncData
    <2>2. \A n : n # s.num => GrownIn(growing', n) = GrownIn(growing, n)
      BY <2>1 DEF Write, GrownIn, Put
    <2>3. s.final => GrownIn(growing', s.num) = s.data
      BY <2>1 DEF Write, GrownIn, Put
    <2>. QED BY <1>1, <1>2, <2>1, <2>2, <2>3, SyncKeeps
  <1>6. CASE SyncAgain(s)
    <2>1. /\ growing' = Without(growing, s.num)
          /\ UNCHANGED <<leaderVars, last, pending, got, corpus, taint>>
      BY <1>6 DEF SyncAgain
    <2>2. ClientFollows' /\ CorpusIsLast'
      BY <2>1, LeaderRests DEF ClientFollows, CorpusIsLast, InHistory
    <2>3. FilesAreOf'
      <3>1. PICK v : v = got \o pending
        OBVIOUS
      <3>2. /\ pending # <<>> /\ s = Head(pending) /\ Len(got) \in Nat
        BY <1>1, <1>2 DEF Syncing
      <3>3. /\ Len(got) + 1 \in 1 .. Len(v) /\ v[Len(got) + 1] = s
            /\ \A i \in 1 .. Len(got) : i \in 1 .. Len(v) /\ v[i] = got[i]
        BY <1>2, <3>1, <3>2, OneMoved
      <3>4. \A i \in 1 .. Len(v) : v[i].num = i - 1
        BY <3>1 DEF FilesAreOf
      <3>5. ASSUME NEW i \in 1 .. Len(got), got[i].final
            PROVE  GrownIn(growing', got[i].num) = got[i].data
        <4>1. got[i].num = i - 1 /\ s.num = (Len(got) + 1) - 1
          BY <3>3, <3>4
        <4>2. got[i].num # s.num
          BY <3>2, <4>1
        <4>3. GrownIn(growing', got[i].num) = GrownIn(growing, got[i].num)
          BY <2>1, <4>2 DEF GrownIn, Without
        <4>4. GrownIn(growing, got[i].num) = got[i].data
          BY <3>5 DEF FilesAreOf, FilesHold
        <4>. QED BY <4>3, <4>4
      <3>6. FilesHold(growing', got)
        BY <3>5 DEF FilesHold
      <3>. QED BY <2>1, <3>6 DEF FilesAreOf
    <2>. QED BY <2>1, <2>2, <2>3
  <1>7. CASE SyncFails(s)
    <2>1. pending' = <<>> /\ got' = <<>> /\ UNCHANGED <<leaderVars, last, corpus, taint>>
      BY <1>7 DEF SyncFails, UpdateEnds
    <2>2. last' \in Seq(Segment) /\ \E h \in Histories : Continues(last', h)
      BY <2>1 DEF ClientFollows, InHistory
    <2>3. CorpusIsLast'
      BY <2>1 DEF CorpusIsLast
    <2>. QED BY <2>1, <2>2, <2>3, EndKeeps
  <1>. QED BY <1>0, <1>1, <1>3, <1>4, <1>5, <1>6, <1>7

LEMMA ServerKeeps ==
  ASSUME LeaderInv, ClientInv, GetServerSegments
  PROVE  ClientInv' /\ UNCHANGED leaderVars
  <1>. USE DEF ClientInv
  <1>0. /\ pending' = JSONLogs /\ got' = <<>> /\ UNCHANGED <<leaderVars, last, growing, corpus, taint>>
    BY DEF GetServerSegments
  <1>1. PICK e, l : e = <<>> /\ e \in Seq(Segment) /\ Len(e) = 0 /\ l = JSONLogs
    BY EmptySeq
  <1>2. AreLogs(l, seg, curNum, logBuf) /\ l \in Seq(Segment)
    BY <1>1, LogsNow DEF LeaderInv, AreLogs
  <1>3. e \o l = l
    BY <1>1, <1>2, ConcatEmptySeq
  <1>4. Histories' = Histories /\ l \in Histories /\ Continues(l, l)
    BY <1>0, <1>1, <1>2, LeaderRests, HistoriesType, ContinuesItself
  <1>5. ClientFollows'
    BY <1>0, <1>1, <1>2, <1>3, <1>4 DEF ClientFollows, InHistory
  <1>6. FilesAreOf'
    BY <1>0, <1>1, <1>2, <1>3 DEF FilesAreOf, FilesHold, AreLogs
  <1>7. CorpusIsLast'
    BY <1>0 DEF CorpusIsLast
  <1>. QED BY <1>0, <1>5, <1>6, <1>7

\* What Update found is of a history, and continues what the client had.
LEMMA FoundFollows ==
  ASSUME ClientInv, AllSynced, HasLast
  PROVE  /\ got \in Seq(Segment) /\ InHistory(got)
         /\ taint = "none" => corpus \o NewData = Content(got)
  <1>. USE DEF ClientInv
  <1>1. got \in Seq(Segment) /\ last \in Seq(Segment) /\ pending = <<>>
    BY DEF ClientFollows, AllSynced
  <1>2. got \o pending = got
    BY <1>1, ConcatEmptySeq
  <1>3. InHistory(got)
    BY <1>2 DEF ClientFollows
  <1>4. Begins(Content(last), Content(got))
    <2>1. \A i \in 1 .. Len(got) : got[i].final => Grown(got[i].num) = got[i].data
      BY DEF FilesAreOf, FilesHold, Grown, GrownIn
    <2>2. SumCommon(got, last) = Len(Content(last))
      BY DEF HasLast, Known
    <2>. QED BY <1>1, <2>1, <2>2, HasLastMeansPrefix
  <1>5. Content(last) \in Seq(Byte) /\ Content(got) \in Seq(Byte)
    BY <1>1, ContentType DEF Datum
  <1>6. NewData = SubSeq(Content(got), Len(Content(last)) + 1, Len(Content(got)))
    BY DEF NewData, HasLast
  <1>7. Content(last) \o NewData = Content(got)
    BY <1>4, <1>5, <1>6, RestOf
  <1>. QED BY <1>1, <1>3, <1>7 DEF CorpusIsLast

LEMMA UpdateKeeps ==
  ASSUME LeaderInv, ClientInv, Split \/ Deliver \/ Interrupted \/ Initialize \/ StartOffline
  PROVE  ClientInv' /\ UNCHANGED leaderVars
  <1>. USE DEF ClientInv
  <1>1. CASE Split
    <2>1. UNCHANGED <<leaderVars, last, pending, got, growing, corpus, taint>>
      BY <1>1 DEF Split
    <2>. QED BY <2>1, LeaderRests DEF ClientFollows, FilesAreOf, CorpusIsLast, InHistory
  <1>2. CASE Deliver
    <2>1. /\ last' = got /\ corpus' = corpus \o NewData /\ taint' = taint
          /\ pending' = <<>> /\ got' = <<>> /\ UNCHANGED leaderVars
      BY <1>2 DEF Deliver, UpdateEnds
    <2>2. /\ got \in Seq(Segment) /\ InHistory(got)
          /\ taint = "none" => corpus \o NewData = Content(got)
      BY <1>2, FoundFollows DEF Deliver
    <2>3. CorpusIsLast'
      BY <2>1, <2>2 DEF CorpusIsLast
    <2>4. last' \in Seq(Segment) /\ \E h \in Histories : Continues(last', h)
      BY <2>1, <2>2 DEF InHistory
    <2>. QED BY <2>1, <2>3, <2>4, EndKeeps
  <1>3. CASE Interrupted
    <2>1. last' = got /\ taint' = "cut" /\ pending' = <<>> /\ got' = <<>> /\ UNCHANGED leaderVars
      BY <1>3 DEF Interrupted, UpdateEnds
    <2>2. got \in Seq(Segment) /\ InHistory(got)
      BY <1>3, FoundFollows DEF Interrupted
    <2>3. CorpusIsLast'
      BY <2>1 DEF CorpusIsLast
    <2>4. last' \in Seq(Segment) /\ \E h \in Histories : Continues(last', h)
      BY <2>1, <2>2 DEF InHistory
    <2>. QED BY <2>1, <2>3, <2>4, EndKeeps
  <1>4. CASE Initialize
    <2>1. last' = <<>> /\ corpus' = <<>> /\ pending' = <<>> /\ got' = <<>> /\ UNCHANGED leaderVars
      BY <1>4 DEF Initialize, UpdateEnds
    <2>2. last' \in Seq(Segment) /\ Len(last') = 0
      BY <2>1, EmptySeq
    <2>3. \E h \in Histories : Continues(last', h)
      <3>1. \A h \in Histories : Continues(last', h)
        BY <2>2, HistoriesType DEF Continues
      <3>. QED BY <3>1, HistoriesType
    <2>4. CorpusIsLast'
      BY <2>1, ContentEmpty DEF CorpusIsLast
    <2>. QED BY <2>1, <2>2, <2>3, <2>4, EndKeeps
  <1>5. CASE StartOffline
    <2>1. UNCHANGED <<leaderVars, last, pending, got, growing>> /\ taint' = "offline"
      BY <1>5 DEF StartOffline
    <2>. QED BY <2>1, LeaderRests DEF ClientFollows, FilesAreOf, CorpusIsLast, InHistory
  <1>. QED BY <1>1, <1>2, <1>3, <1>4, <1>5

-----------------------------------------------------------------------------
LEMMA LogInit ==
  ASSUME MLInit
  PROVE  LeaderInv /\ ClientInv
  <1>1. PICK e : e = <<>> /\ e \in Seq(Segment) /\ Len(e) = 0 /\ e \in Datum
    BY EmptySeq DEF Datum
  <1>2. /\ newest = NoFiles /\ up = TRUE /\ curNum = 0 /\ logBuf = e /\ durable = e /\ past = {}
        /\ last = e /\ pending = e /\ got = e /\ corpus = e
    BY <1>1 DEF MLInit
  <1>3. NewestKept
    BY <1>2 DEF NewestKept, NoFiles
  <1>4. LeaderHasAll
    <2>1. \A n \in 0 .. curNum - 1 : FALSE
      BY <1>2
    <2>2. \A n \in DOMAIN newest : FALSE
      BY <1>2 DEF NoFiles
    <2>. QED BY <1>1, <1>2, <2>1, <2>2 DEF LeaderHasAll
  <1>5. JSONLogs \in Seq(Segment)
    BY <1>3, <1>4, LogsNow DEF AreLogs
  <1>6. Continues(e, JSONLogs)
    BY <1>1, <1>5 DEF Continues
  <1>7. LeaderInv
    BY <1>1, <1>2, <1>3, <1>4, <1>6 DEF LeaderInv, DurableKept, Held
  <1>8. e \o e = e
    BY <1>1, ConcatEmptySeq
  <1>9. \E h \in Histories : Continues(e, h)
    BY <1>6, <1>7, HistoriesType
  <1>10. ClientFollows
    BY <1>1, <1>2, <1>8, <1>9 DEF ClientFollows, InHistory
  <1>11. FilesAreOf
    BY <1>1, <1>2, <1>8 DEF FilesAreOf, FilesHold
  <1>12. CorpusIsLast
    BY <1>1, <1>2, ContentEmpty DEF CorpusIsLast
  <1>. QED BY <1>7, <1>10, <1>11, <1>12 DEF ClientInv

LEMMA LogStep ==
  ASSUME LeaderInv, ClientInv, [MLNext]_mlVars
  PROVE  LeaderInv' /\ ClientInv'
  <1>1. CASE \/ \E m \in Mutations : Log(m) \/ LogFails(m)
             \/ OnFlushTimer \/ Crash \/ InitLoad
    <2>1. UNCHANGED clientVars
      BY <1>1 DEF Log, LogFails, OnFlushTimer, Crash, InitLoad
    <2>2. LeaderInv' /\ HistoriesGrow
      BY <1>1, LogKeeps, TimerKeeps, CrashKeeps, LoadKeeps
    <2>. QED BY <2>1, <2>2, LeaderStep
  <1>2. CASE ClientStep \/ StartOffline \/ Interrupted
    <2>1. ClientInv' /\ UNCHANGED leaderVars
      BY <1>2, ServerKeeps, SyncSegKeeps, UpdateKeeps DEF ClientStep
    <2>. QED BY <2>1, LeaderRests
  <1>3. CASE UNCHANGED mlVars
    <2>1. UNCHANGED leaderVars /\ UNCHANGED clientVars
      BY <1>3 DEF mlVars
    <2>2. LeaderInv' /\ Histories' = Histories
      BY <2>1, LeaderRests
    <2>3. ClientInv'
      BY <2>1, <2>2 DEF ClientInv, ClientFollows, FilesAreOf, CorpusIsLast, InHistory, clientVars
    <2>. QED BY <2>2, <2>3
  <1>. QED BY <1>1, <1>2, <1>3 DEF MLNext

\* What the invariant is for.
LEMMA LogInvMeans ==
  ASSUME LeaderInv, ClientInv
  PROVE  FlushedSurvives /\ OneHistory
  <1>1. FlushedSurvives
    <2>. SUFFICES ASSUME up PROVE IsPrefix(Content(durable), History)
      BY DEF FlushedSurvives
    <2>1. durable \in Seq(Segment) /\ JSONLogs \in Seq(Segment) /\ Continues(durable, JSONLogs)
      BY HistoriesType DEF LeaderInv, DurableKept
    <2>2. Begins(Content(durable), Content(JSONLogs))
      BY <2>1, ContentContinues
    <2>3. Content(durable) \in Seq(Byte) /\ Content(JSONLogs) \in Seq(Byte)
      BY <2>1, ContentType DEF Datum
    <2>. QED BY <2>2, <2>3, PrefixIsBegins DEF History
  <1>2. OneHistory
    <2>1. last \in Seq(Segment) /\ Content(last) \in Seq(Byte)
      BY ContentType DEF ClientInv, ClientFollows, Datum
    <2>2. PICK h \in Histories : Continues(last, h)
      BY DEF ClientInv, ClientFollows, InHistory
    <2>3. h \in Seq(Segment) /\ Content(h) \in Seq(Byte)
      BY HistoriesType, ContentType DEF Datum
    <2>4. Begins(Content(last), Content(h))
      BY <2>1, <2>2, <2>3, ContentContinues
    <2>5. IsPrefix(Content(last), Content(h))
      BY <2>1, <2>3, <2>4, PrefixIsBegins
    <2>. QED BY <2>5 DEF OneHistory, IsAHistory, ClientInv, CorpusIsLast
  <1>. QED BY <1>1, <1>2

\* What was flushed is in every later log of the leader, whatever mutations, for
\* any number of crashes, failed writes and old versions left in the bucket.
THEOREM FlushedIsNeverLost == MLSpec => []FlushedSurvives
  <1>1. MLInit => LeaderInv /\ ClientInv
    BY LogInit
  <1>2. (LeaderInv /\ ClientInv) /\ [MLNext]_mlVars => (LeaderInv /\ ClientInv)'
    BY LogStep
  <1>3. LeaderInv /\ ClientInv => FlushedSurvives
    BY LogInvMeans
  <1>. QED BY <1>1, <1>2, <1>3, PTL DEF MLSpec

\* A corpus that Update filled is a prefix of one history of the leader.
THEOREM HistoriesAreNotMixed == MLSpec => []OneHistory
  <1>1. MLInit => LeaderInv /\ ClientInv
    BY LogInit
  <1>2. (LeaderInv /\ ClientInv) /\ [MLNext]_mlVars => (LeaderInv /\ ClientInv)'
    BY LogStep
  <1>3. LeaderInv /\ ClientInv => OneHistory
    BY LogInvMeans
  <1>. QED BY <1>1, <1>2, <1>3, PTL DEF MLSpec
=============================================================================
