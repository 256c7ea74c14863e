---------------------------- MODULE MCGopherbot ----------------------------
EXTENDS Gopherbot

Act(do, what) == [do |-> do, what |-> what]

Commanding ==
    {Act("labeled", "asked"), Act("unlabeled", "asked"), Act("closed", "issue"),
     Act("add", "asked"), Act("remove", "asked")}
Topic ==        \* the title calls for a label and a milestone
    {Act("unlabeled", "topic"), Act("remove", "topic"), Act("demilestoned", "issue"),
     Act("milestoned", "another")}
Waiting ==
    {Act("labeled", "WaitingForInfo"), Act("comment", "op"), Act("month", "time"),
     Act("reopened", "issue"), Act("labeled", "CherryPickCandidate")}
Backports ==
    {Act("comment", "backport"), Act("labeled", "CherryPickCandidate"),
     Act("labeled", "CherryPickApproved"), Act("retitled", "issue")}
Mentions ==
    {Act("mailed", "cl"), Act("reworded", "cl"), Act("comment", "op"), Act("month", "time")}
Fixes ==        \* of a backport issue
    {Act("merged", "cl"), Act("reopened", "issue"), Act("month", "time")}
Decisions ==    \* on a proposal
    {Act("labeled", "NeedsDecision"), Act("labeled", "NeedsFix"), Act("add", "NeedsDecision")}
NeedsOnly ==
    {Act("labeled", l) : l \in Needs} \cup {Act("unlabeled", l) : l \in Needs}

All == {Commanding, Topic, Waiting, Backports, Mentions, Fixes, Decisions}
OneOfNeeds == {NeedsOnly}

Titles == [s \in All \cup OneOfNeeds |->
    CASE s = Topic -> "topic" [] s = Fixes -> "backport" [] s = Decisions -> "proposal"
      [] OTHER -> "other"]

Bounds == [s \in All \cup OneOfNeeds |->
    CASE s \in {Waiting, NeedsOnly} -> 4 [] s \in {Topic, Decisions} -> 2 [] OTHER -> 3]

TwoReleases == <<"r1", "r2">>
=============================================================================
