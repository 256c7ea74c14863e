--------------------------- MODULE MCMutationLog ---------------------------
(* An instance of MutationLog for TLC: segments of two bytes. *)
EXTENDS MutationLog

\* b does not fit behind another mutation, which leaves a short segment.
SmallSize == [a |-> 1, b |-> 2, c |-> 1]
=============================================================================
