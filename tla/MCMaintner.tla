---------------------------- MODULE MCMaintner ----------------------------
(***************************************************************************)
(* maintner and the bot that reads it, on small instances.  A behaviour is *)
(* about one of two things, chosen by part: gopherbot at work on an issue, *)
(* or the mutation log that the corpus is read from.                       *)
(***************************************************************************)
EXTENDS MCGopherbot, MCMutationLog

VARIABLE part

allVars == <<part, botVars, mlVars>>

\* An issue to which nothing happens, where the log is the subject.
Init ==
    /\ BotInit /\ MLInit
    /\ \/ part = "bot"
       \/ part = "log" /\ scene = CHOOSE s \in Scenario : TitleOf[s] = "other"

Next ==
    /\ UNCHANGED part
    /\ \/ part = "bot" /\ BotNext /\ UNCHANGED mlVars
       \/ part = "log" /\ MLNext /\ UNCHANGED botVars

\* No fair action of a part that is not the chosen one is enabled: the bot has
\* nothing to do, the log is empty.  So its fairness is harmless.
Spec == Init /\ [][Next]_allVars /\ BotFairness /\ MLFairness
=============================================================================
