----------------------------- MODULE MCWorkflow -----------------------------
(* Instances of Workflow for TLC. *)
EXTENDS Workflow

\* Two expansions that do not wait for each other, as the minor release has one
\* for each of its two versions.  What publish adds waits for the value of plan,
\* which is that of the task that plan adds.
TwinName == {"plan", "publish", "x", "z"}
TwinInitial == {"plan", "publish"}
TwinDeps == [plan |-> {}, publish |-> {}, x |-> {}, z |-> {"plan"}]
TwinAdds == [plan |-> {"x"}, publish |-> {"z"}]
TwinResult == [plan |-> {"x"}, publish |-> {"z"}]

\* One task.
OneName == {"tag"}
OneDeps == [tag |-> {}]
NoExpansion == [e \in {} |-> {}]
=============================================================================
