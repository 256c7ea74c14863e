--------------------------- MODULE BuildletClient ---------------------------
(***************************************************************************)
(* buildlet.Client, src/buildlet/buildletclient.go: the coordinator's side *)
(* of a connection to one buildlet.  A heartbeat goroutine that starts     *)
(* with the first request, Close by any number of callers, and the mark    *)
(* of a client that is broken.  The function given to SetOnHeartbeatFailure*)
(* belongs to the pool that owns the client; NoticeDeath is its call.      *)
(***************************************************************************)
EXTENDS Integers, FiniteSets

CONSTANTS
    Machine,        \* one per connection of a buildlet
    MissedBeats     \* the failed heartbeats in a row that mean death

ASSUME ClientAssumption == MissedBeats \in Nat \ {0}

VARIABLES
    peer,       \* the buildlet: "up", "hung" (no answers) or "gone" (connection closed)
    failInARow,
    broken,     \* clients that are marked as broken
    dead,       \* clients whose peerDead is closed
    beats       \* the heartbeat goroutine: "off", "on", "failing", "ended"

clientVars == <<peer, failInARow, broken, dead, beats>>

ClientInit ==
    /\ peer = [b \in Machine |-> "up"]
    /\ failInARow = [b \in Machine |-> 0]
    /\ broken = {} /\ dead = {}
    /\ beats = [b \in Machine |-> "off"]

\* Whether a request that is sent now is answered, and whether it may fail.
Answers(b) == peer[b] = "up" /\ b \notin dead
MayFail(b) == peer[b] # "up" \/ b \in dead

\* do: the first request starts the heartbeats.
StartBeats(b) == beats' = [beats EXCEPT ![b] = IF @ = "off" THEN "on" ELSE @]

-----------------------------------------------------------------------------
(* The machine behind the connection.  Its answers matter until the client is *)
(* dead.                                                                      *)

Hang(b) ==
    /\ peer[b] = "up" /\ beats[b] # "off" /\ b \notin dead
    /\ peer' = [peer EXCEPT ![b] = "hung"]
    /\ UNCHANGED <<failInARow, broken, dead, beats>>

Recover(b) ==
    /\ peer[b] = "hung" /\ b \notin dead
    /\ peer' = [peer EXCEPT ![b] = "up"]
    /\ UNCHANGED <<failInARow, broken, dead, beats>>

Vanish(b) ==
    /\ peer[b] # "gone" /\ beats[b] # "off"
    /\ peer' = [peer EXCEPT ![b] = "gone"]
    /\ UNCHANGED <<failInARow, broken, dead, beats>>

-----------------------------------------------------------------------------
(* heartbeatLoop *)

SetPeerDead(b) == broken' = broken \cup {b} /\ dead' = dead \cup {b}

\* Status answers: a count of zero stays one.
BeatAnswered(b) ==
    /\ beats[b] = "on" /\ Answers(b)
    /\ failInARow[b] # 0
    /\ failInARow' = [failInARow EXCEPT ![b] = 0]
    /\ UNCHANGED <<peer, broken, dead, beats>>

\* Status fails.  Once the peer is dead the loop may still try a heartbeat before
\* it notices; that changes nothing any more.
BeatFails(b) ==
    /\ beats[b] = "on" /\ b \notin dead /\ MayFail(b)
    /\ failInARow' = [failInARow EXCEPT ![b] = @ + 1]
    /\ IF failInARow[b] + 1 = MissedBeats THEN SetPeerDead(b) ELSE UNCHANGED <<broken, dead>>
    /\ UNCHANGED <<peer, beats>>

\* case <-c.peerDead: c.heartbeatFailure() is entered.
NoticeDeath(b) ==
    /\ beats[b] = "on" /\ b \in dead
    /\ beats' = [beats EXCEPT ![b] = "failing"]
    /\ UNCHANGED <<peer, failInARow, broken, dead>>

\* heartbeatFailure returns, and so does the loop.
BeatsEnd(b) == beats[b] = "failing" /\ beats' = [beats EXCEPT ![b] = "ended"]

-----------------------------------------------------------------------------
(* Close, MarkBroken *)

\* Close: once, a request to /halt that is given two seconds, and setPeerDead;
\* later callers wait for the first.  A buildlet that gets the request goes away.
CloseClient(b) ==
    /\ peer' = [peer EXCEPT ![b] = IF @ = "up" THEN "gone" ELSE @]
    /\ StartBeats(b)
    /\ SetPeerDead(b)
    /\ UNCHANGED failInARow

MarkBroken(b) ==
    /\ broken' = broken \cup {b}
    /\ UNCHANGED <<peer, failInARow, dead, beats>>
=============================================================================
