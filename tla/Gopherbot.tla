----------------------------- MODULE Gopherbot -----------------------------
(***************************************************************************)
(* src/cmd/gopherbot/gopherbot.go: the tasks that garden one GitHub issue. *)
(* GitHub is the log of what happened to the issue.  The bot decides from  *)
(* the maintner corpus, which follows GitHub with a delay that differs for *)
(* the issue itself, its comments, its events and the Gerrit CLs about it, *)
(* and acts on GitHub as it is.  The corpus is updated between two rounds  *)
(* of doTasks only, so a round makes the calls that all of its tasks       *)
(* derive from one view.  What the bot writes repeats the issue's title or *)
(* the subject of a CL, which people change; nobody renames the backport   *)
(* issues that it opens.  Bot tasks whose subject is not an issue are left *)
(* out.                                                                    *)
(***************************************************************************)
EXTENDS Integers, FiniteSets, SequencesExt

CONSTANTS
    Scenario,   \* sets of what people may do: entries of the log
    TitleOf,    \* [Scenario -> title], "proposal", "topic", "backport" or "other"
    MaxActs,    \* [Scenario -> Nat], bound on acts
    MaxLag,     \* bound on the entries that events are behind the issue's state
    Releases    \* the releases that a backport is opened for, in order

\* What the bot says when it closes an issue.  addGitHubComment takes anybody's
\* comment that contains these words for its own: people use others.
Reasons == {"merged", "timeout"}

ASSUME BotAssumption ==
    /\ \A s \in Scenario : \A a \in s : a.do = "comment" => a.what \notin Reasons
    /\ Len(Releases) \in Nat

VARIABLES
    scene,  \* the scenario of this behaviour
    log,    \* what happened to the issue: sequence of [do, what, text, by]
    acts,   \* what people did to the issue and calls that failed, counted
    seen,   \* [Feed -> Nat]: how far the corpus has followed the log
    todo    \* [Task -> calls]: what is left of this round

botVars == <<scene, log, acts, seen, todo>>

Feed == {"issue", "comments", "events", "gerrit"}
Needs == {"NeedsDecision", "NeedsFix", "NeedsInvestigation"}

\* A comment is a command to the bot about a label, or something else.
Commands == {"add", "remove"}
Comments == Commands \cup {"comment"}

\* What happens to the CL that refers to the issue.
OfCL == {"mailed", "reworded", "merged"}

\* The entries that a feed brings: any change updates the issue.
Brings(f, do) ==
    CASE f = "comments" -> do \in Comments
      [] f = "events" -> do \notin Comments \cup OfCL \cup {"month", "opened"}
      [] f = "issue" -> do \notin OfCL \cup {"month", "opened"}
      [] f = "gerrit" -> do \in OfCL

Year == 2       \* in months
LongWait == 2   \* the half year of a cherry-pick issue, in months

-----------------------------------------------------------------------------
(* What the first n entries of the log say *)

Entry(do, what, text, by) == [do |-> do, what |-> what, text |-> text, by |-> by]
Entries(n, do) == {i \in 1 .. n : log[i].do = do}
Where(n, do, what) == {i \in Entries(n, do) : log[i].what = what}
Latest(S) == Max(S \cup {0})

HasLabel(n, l) == Latest(Where(n, "labeled", l)) > Latest(Where(n, "unlabeled", l))
HasEvent(n, do) == Entries(n, do) # {}
IsClosed(n) == Latest(Entries(n, "closed")) > Latest(Entries(n, "reopened"))
IsLocked(n) == HasEvent(n, "locked")
Title(n) == Latest(Entries(n, "retitled"))      \* the entry that gave it
Subject(n) == Latest(Entries(n, "reworded"))
HasMilestone(n) == Latest(Entries(n, "milestoned")) > Latest(Entries(n, "demilestoned"))
HasComment(n, what) == Where(n, "comment", what) # {}
Months(i) == Cardinality({j \in Entries(Len(log), "month") : j > i})

\* The corpus
Open == ~IsClosed(seen["issue"])
Has(l) == HasLabel(seen["issue"], l)
Event(do) == HasEvent(seen["events"], do)
Comment(what) == HasComment(seen["comments"], what)

-----------------------------------------------------------------------------
(* The tasks: the calls that each makes, given the corpus *)

\* The text is the changing part of what a call writes.
Writes(do, what, text) == [do |-> do, what |-> what, text |-> text]
Call(do, what) == Writes(do, what, 0)
When(condition, calls) == IF condition THEN calls ELSE <<>>

\* labelAccessIssues, labelBuildIssues and the other tasks that add the label
\* that a title calls for.
LabelByTitle ==
    When(Open /\ TitleOf[scene] = "topic" /\ ~Has("topic") /\ ~Event("unlabeled"),
         <<Call("labeled", "topic")>>)

GopherbotRemovedLabel(l) ==
    \E i \in Where(seen["events"], "unlabeled", l) : log[i].by = "bot"

MayMilestone ==
    ~HasMilestone(seen["issue"]) /\ ~Event("milestoned") /\ ~Event("demilestoned")

LabelProposals ==
    When(Open /\ TitleOf[scene] = "proposal",
         When(~Has("Proposal") /\ ~Event("unlabeled"), <<Call("labeled", "Proposal")>>)
         \o When(MayMilestone, <<Call("milestoned", "Proposal")>>)
         \o When(Has("NeedsDecision") /\ ~GopherbotRemovedLabel("NeedsDecision"),
                 <<Call("unlabeled", "NeedsDecision")>>))

\* The comment lists the numbers of the issues, which the titles determine.
BackportCalls ==
    [i \in 1 .. Len(Releases) |-> Writes("opened", Releases[i], Title(seen["issue"]))]
    \o <<Writes("comment", "opened", Title(seen["issue"]))>>

\* Mutant: the bot does not look for its own answer.
OpenCherryPickIssuesAgain ==
    When(~IsLocked(seen["issue"]) /\ Comment("backport"), BackportCalls)

OpenCherryPickIssues ==
    When(Has("CherryPickApproved") /\ Has("CherryPickCandidate"),
         <<Call("unlabeled", "CherryPickCandidate")>>)
    \o When(~IsLocked(seen["issue"]) /\ Comment("backport") /\ ~Comment("opened"),
            BackportCalls)

\* A CL that was merged at most a month ago refers to the issue.
MergedLately == \E i \in Entries(seen["gerrit"], "merged") : Months(i) = 0

\* addGitHubComment and closeGitHubIssue
CloseWith(reason) == <<Call("comment", reason), Call("closed", "issue")>>

\* closeCherryPickIssues, and closeLUCIConfigIssues for what is no backport
CloseMerged ==
    When(/\ Open /\ MergedLately /\ ~Event("reopened")
         /\ IF TitleOf[scene] = "backport" THEN HasMilestone(seen["issue"])
                                           ELSE ~IsLocked(seen["issue"]),
         CloseWith("merged"))

\* setSubrepoMilestones, setMiscMilestones, setMinorMilestones, setVSCodeGoMilestones
SetMilestones ==
    When(Open /\ TitleOf[scene] \in {"topic", "backport"} /\ MayMilestone,
         <<Call("milestoned", TitleOf[scene])>>)

\* The entries of the event feed about Needs labels; the position that a label
\* was added at last is forgotten when it is removed, the greatest one is not.
NeedsAdded == {i \in Entries(seen["events"], "labeled") : log[i].what \in Needs}
NeedsKnown == {l \in Needs : HasLabel(seen["events"], l)}

UpdateNeeds ==
    When(/\ Open
         /\ Cardinality({l \in Needs : Has(l)}) > 1
         /\ Cardinality(NeedsKnown) > 1,
         LET newest == Max(NeedsAdded)
             old == {l \in Needs : Has(l) /\ ~(l \in NeedsKnown /\ log[newest].what = l)}
         IN  SetToSeq({Call("unlabeled", l) : l \in old}))

Updated == Max({i \in 1 .. seen["issue"] : Brings("issue", log[i].do)} \cup {0})

FreezeOldIssues ==
    When(~Open /\ ~IsLocked(seen["issue"]) /\ Months(Updated) >= Year,
         <<Call("locked", "issue")>>
         \o When(~Has("FrozenDueToAge"), <<Call("labeled", "FrozenDueToAge")>>))

\* waitStart, 0 when it is reset: by "reopened", or with the label.
WaitStart ==
    LET added == Latest(Where(seen["events"], "labeled", "WaitingForInfo"))
    IN  IF \E i \in Entries(seen["events"], "reopened")
                    \cup Where(seen["events"], "unlabeled", "WaitingForInfo") : i > added
        THEN 0 ELSE added

Deadline ==
    IF Has("CherryPickCandidate") \/ Has("CherryPickApproved") THEN LongWait ELSE 1

CloseStaleWaitingForInfo ==
    When(/\ Open /\ Has("WaitingForInfo")
         /\ WaitStart > 0 /\ Months(WaitStart) >= Deadline
         /\ Latest(Where(seen["comments"], "comment", "op")) < WaitStart,
         CloseWith("timeout"))

\* "any action has been taken on the label since the comment"
NoopCommand(i) ==
    \E j \in i .. seen["events"] :
        log[j].do \in {"labeled", "unlabeled"} /\ log[j].what = log[i].what

CommandsOn(n, l) == {i \in 1 .. n : log[i].do \in Commands /\ log[i].what = l}

\* mutationsFromCommands: what is left of the commands about l, where two
\* opposing ones cancel each other.
Mutation(l) ==
    LET Step(m, i) == IF m # "none" /\ m # log[i].do THEN "none" ELSE log[i].do
        effective == {i \in CommandsOn(seen["comments"], l) : ~NoopCommand(i)}
    IN  FoldLeft(Step, "none", SetToSortSeq(effective, <))

Commanded(action) ==
    {l \in {log[i].what : i \in Entries(seen["comments"], action)} : Mutation(l) = action}

AddFromComments ==
    When(Open, SetToSeq({Call("labeled", l) : l \in {x \in Commanded("add") : ~Has(x)}}))
RemoveFromComments ==
    When(Open, SetToSeq({Call("unlabeled", l) : l \in {x \in Commanded("remove") : Has(x)}}))

Cl2issue ==
    When(/\ \E i \in UNION {Entries(seen["gerrit"], do) : do \in OfCL} : Months(i) = 0
         /\ ~IsLocked(seen["issue"]) /\ ~Comment("mentions"),
         <<Writes("comment", "mentions", Subject(seen["gerrit"]))>>)

\* doTasks, in the order of tasks
Plan == <<LabelByTitle, LabelProposals, OpenCherryPickIssues, CloseMerged,
          SetMilestones, UpdateNeeds, FreezeOldIssues, CloseStaleWaitingForInfo,
          AddFromComments, RemoveFromComments, Cl2issue>>

Task == 1 .. 11
NoCalls == [t \in Task |-> <<>>]
Due(t) == todo[t] # <<>> /\ \A u \in 1 .. t - 1 : todo[u] = <<>>

-----------------------------------------------------------------------------
BotInit ==
    /\ scene \in Scenario
    /\ log = <<>> /\ acts = 0
    /\ seen = [f \in Feed |-> 0]
    /\ todo = NoCalls

Round ==
    /\ todo = NoCalls /\ Plan # NoCalls
    /\ todo' = Plan
    /\ UNCHANGED <<scene, log, acts, seen>>

HasText(c) == \E i \in Where(Len(log), c.do, c.what) : log[i].text = c.text
LastMilestone == Latest(Entries(Len(log), "milestoned"))

\* Mutant: addGitHubComment looks at the corpus only.
ChangesAsKnown(c) ==
    CASE c.do = "labeled" -> ~HasLabel(Len(log), c.what)
      [] c.do = "unlabeled" -> HasLabel(Len(log), c.what)
      [] c.do = "comment" -> ~Comment(c.what)
      [] c.do = "opened" -> ~HasText(c)
      [] c.do = "milestoned" -> ~HasMilestone(Len(log)) \/ log[LastMilestone].what # c.what
      [] c.do = "closed" -> ~IsClosed(Len(log))
      [] c.do = "locked" -> ~IsLocked(Len(log))

\* Whether a call changes the issue as GitHub has it now.  The bot asks GitHub
\* first for a label to be removed, and for a comment or an issue to be opened:
\* one with the same text, or with the same title, is taken for its own.
Changes(c) ==
    CASE c.do = "labeled" -> ~HasLabel(Len(log), c.what)
      [] c.do = "unlabeled" -> HasLabel(Len(log), c.what)
      [] c.do = "comment" -> ~HasText(c)
      [] c.do = "opened" -> ~HasText(c)
      [] c.do = "milestoned" -> ~HasMilestone(Len(log)) \/ log[LastMilestone].what # c.what
      [] c.do = "closed" -> ~IsClosed(Len(log))
      [] c.do = "locked" -> ~IsLocked(Len(log))

TakesEffect(c) ==
    log' = IF Changes(c) THEN Append(log, Entry(c.do, c.what, c.text, "bot")) ELSE log

CallSucceeds ==
    /\ \E t \in Task : /\ Due(t)
                       /\ TakesEffect(Head(todo[t]))
                       /\ todo' = [todo EXCEPT ![t] = Tail(@)]
    /\ UNCHANGED <<scene, acts, seen>>

\* An error, with or without the effect, ends the task.  For a label to be
\* removed this is the error of the list of labels; one of the removal itself is
\* logged and the task goes on.
CallFails ==
    /\ acts < MaxActs[scene] /\ acts' = acts + 1
    /\ \E t \in Task :
          /\ Due(t)
          /\ \/ /\ UNCHANGED log
                /\ todo' = [todo EXCEPT ![t] = <<>>]
             \/ /\ Head(todo[t]).do # "unlabeled"
                /\ TakesEffect(Head(todo[t]))
                /\ todo' = [todo EXCEPT ![t] = <<>>]
             \/ /\ Head(todo[t]).do = "unlabeled"
                /\ TakesEffect(Head(todo[t])) \/ UNCHANGED log
                /\ todo' = [todo EXCEPT ![t] = Tail(@)]
    /\ UNCHANGED <<scene, seen>>

\* corpus.Update: maintner syncs issues, comments, events and Gerrit one after
\* the other, so that any of them may be ahead.
Update(f) ==
    /\ todo = NoCalls
    /\ \E n \in seen[f] + 1 .. Len(log) : /\ Brings(f, log[n].do)
                                          /\ f = "issue" => n <= seen["events"] + MaxLag
                                          /\ seen' = [seen EXCEPT ![f] = n]
    /\ UNCHANGED <<scene, log, acts, todo>>

\* People, CLs and time
Happens(a) ==
    /\ acts < MaxActs[scene] /\ acts' = acts + 1
    /\ CASE a.do = "labeled" -> ~HasLabel(Len(log), a.what)
         [] a.do = "unlabeled" -> HasLabel(Len(log), a.what)
         [] a.do = "closed" -> ~IsClosed(Len(log))
         [] a.do = "reopened" -> IsClosed(Len(log))
         [] a.do = "demilestoned" -> HasMilestone(Len(log))
         [] a.do \in {"mailed", "merged"} -> ~HasEvent(Len(log), a.do)
         [] a.do = "reworded" -> HasEvent(Len(log), "mailed") /\ ~HasEvent(Len(log), "merged")
         [] a.do = "milestoned" -> ~HasMilestone(Len(log))
         [] a.do \in Comments \cup {"month", "retitled"} -> TRUE
    /\ log' = Append(log, Entry(a.do, a.what, 0, "people"))
    /\ UNCHANGED <<scene, seen, todo>>

BotNext ==
    \/ Round \/ CallSucceeds \/ CallFails
    \/ \E f \in Feed : Update(f)
    \/ \E a \in scene : Happens(a)

\* Rounds go on, calls end, and the corpus catches up with a log that no longer
\* grows.
BotFairness ==
    /\ WF_botVars(Round) /\ WF_botVars(CallSucceeds)
    /\ SF_botVars(\E f \in Feed : Update(f))

BotSpec == BotInit /\ [][BotNext]_botVars

-----------------------------------------------------------------------------
(* Properties *)

ByBot(i) == log[i].by = "bot"

\* The bot says everything once, and opens one backport issue for a release,
\* however old its view, and also when it repeats a task of which a call failed
\* or only seemed to, unless people changed the words in between: it knows what
\* it wrote by its text alone.  So a second issue for a release, a second answer
\* to the request or a second mention of a CL bears a newer title or subject,
\* and whatever contains neither is never repeated.
NothingTwice ==
    \A i, j \in 1 .. Len(log) :
        /\ i < j /\ ByBot(i) /\ ByBot(j)
        /\ log[i].do \in {"comment", "opened"}
        /\ log[j].do = log[i].do /\ log[j].what = log[i].what
        => /\ log[i].text < log[j].text
           /\ log[log[j].text].do \in {"retitled", "reworded"} /\ ~ByBot(log[j].text)

\* An issue that the bot closes has been told why, whichever calls failed.
ClosedWithReason ==
    \A i \in Entries(Len(log), "closed") :
        ByBot(i) => \E j \in 1 .. i - 1 : log[j].do = "comment" /\ ByBot(j)
                                          /\ log[j].what \in Reasons

\* What the bot does is said and explained, and not said again in the same words.
ExplainedOnce == NothingTwice /\ ClosedWithReason

\* The tasks do not keep each other busy: when people leave the issue alone the
\* bot does so too, from some point on.
Quiesces == <>[](todo = NoCalls)

LabelAsked(a, l) ==
    \E i \in Where(Len(log), a, l) :
        /\ CommandsOn(Len(log), l) = {i}
        /\ \A j \in i .. Len(log) : log[j].do \in {"labeled", "unlabeled"} => log[j].what # l

\* A command to add or to remove a label is obeyed, unless somebody changes the
\* label afterwards, gives another command about it or closes the issue.
CommandObeyed ==
    \A a \in Commands, l \in {"asked"} :
        LabelAsked(a, l) ~> \/ HasLabel(Len(log), l) <=> a = "add"
                            \/ IsClosed(Len(log))
                            \/ \E i \in Where(Len(log), a, l) : \E j \in i + 1 .. Len(log) :
                                ~ByBot(j) /\ log[j].what = l

\* The bot does what it was asked to do and then rests.
BotSettles == Quiesces /\ CommandObeyed

\* "If an issue has multiple "needs" labels, remove all but the most recent": one
\* is left when the corpus is up to date.
OneNeedRemains ==
    (\A f \in Feed : \A n \in seen[f] + 1 .. Len(log) : ~Brings(f, log[n].do)) =>
        \/ \A l \in Needs : ~Has(l)
        \/ \E l \in Needs : Has(l) /\ \A k \in 1 .. Len(UpdateNeeds) : UpdateNeeds[k].what # l
=============================================================================
