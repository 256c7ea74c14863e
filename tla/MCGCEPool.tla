----------------------------- MODULE MCGCEPool -----------------------------
(* Instances of GCEPool for TLC. *)
EXTENDS GCEPool

Both == {"inst", "cpu"}
Two == {"a", "b"}
TwoCost == [inst |-> [c \in Two |-> 1], cpu |-> [c \in Two |-> 2]]
TwoLess == {<<"a", "b">>}
TwoLimits == [inst |-> {2}, cpu |-> {3}]
=============================================================================
