---------------------------- MODULE MutationLog ----------------------------
(***************************************************************************)
(* maintner's replicated mutation log.  The leader keeps the log in        *)
(* segments, the last of them in memory and copied to a bucket from time   *)
(* to time (src/maintner/maintnerd/gcslog/gcslog.go).  A client downloads  *)
(* what is new into a directory of files and applies it to its corpus      *)
(* (src/maintner/netsource.go, maintner.go).  The leader may crash with    *)
(* mutations that it served and did not store; its history then splits.    *)
(*                                                                         *)
(* A segment is a sequence of bytes.  The bytes of a record all name its   *)
(* mutation and the offset at which it starts, which the record's header   *)
(* holds.  A checksum is the sequence it is taken of.                      *)
(***************************************************************************)
EXTENDS Integers, Sequences, SequencesExt, FiniteSets

CONSTANTS
    Mutations,
    Size,       \* bytes of a mutation's record
    Target,     \* targetObjectSize
    Slack,      \* how much smaller a segment may be that is not resumed
    MaxLogs,    \* bound on calls of Log
    MaxFaults   \* bound on crashes, failed requests and interrupted calls

ASSUME MutationLogAssumption ==
    /\ Target \in Nat /\ Size \in [Mutations -> 1..Target]
    /\ Slack \in 0..Target
    /\ MaxLogs \in Nat /\ MaxFaults \in Nat

VARIABLES
    bucket,     \* the objects <<number, content>>
    newest,     \* number -> content of the object that was created last
    up,         \* the leader runs
    seg,        \* gl.seg: number -> content
    curNum, logBuf,
    timer,      \* flushTimer # nil
    logs, faults,
    durable,    \* auxiliary: the segments at the last flush that succeeded
    past        \* auxiliary: the segments at the leader's crashes

leaderVars == <<bucket, newest, up, seg, curNum, logBuf, timer, logs, durable, past>>

VARIABLES
    phase,      \* of Update: "idle", "sync", or "split" once it returned ErrSplit
    last,       \* ns.last
    pending,       \* serverSegs that are not synced yet
    got,        \* fileSegs
    frozen,     \* files named by number and checksum
    growing,    \* number -> content of the growing file
    corpus,     \* what was applied, in order
    taint       \* auxiliary: "offline" where the corpus was read from files alone,
                \* "cut" where a call was interrupted, else "none"

clientVars == <<phase, last, pending, got, frozen, growing, corpus, taint>>
mlVars == <<leaderVars, faults, clientVars>>

NoFiles == [n \in {} |-> <<>>]
Put(f, n, data) == [k \in DOMAIN f \cup {n} |-> IF k = n THEN data ELSE f[k]]
Without(f, n) == [k \in DOMAIN f \ {n} |-> f[k]]

Content(segs) == FlattenSeq([i \in DOMAIN segs |-> segs[i].data])

Fault == faults < MaxFaults /\ faults' = faults + 1
NoFault == UNCHANGED faults

LeaderStarts(segs, num, buf) ==
    seg' = segs /\ curNum' = num /\ logBuf' = buf /\ timer' = FALSE

\* A leader has started with an empty bucket.
MLInit ==
    /\ bucket = {} /\ newest = NoFiles /\ up = TRUE
    /\ seg = NoFiles /\ curNum = 0 /\ logBuf = <<>> /\ timer = FALSE
    /\ logs = 0 /\ faults = 0
    /\ durable = <<>> /\ past = {}
    /\ phase = "idle" /\ last = <<>> /\ pending = <<>> /\ got = <<>>
    /\ frozen = {} /\ growing = NoFiles
    /\ corpus = <<>> /\ taint = "none"

-----------------------------------------------------------------------------
(* The leader *)

\* getJSONLogs: what is in the bucket for good, and the buffer.
JSONLogs ==
    [i \in 1..curNum |-> [num |-> i - 1, data |-> seg[i - 1], final |-> FALSE]]
    \o (IF logBuf = <<>> THEN <<>>
        ELSE <<[num |-> curNum, data |-> logBuf, final |-> TRUE]>>)

History == Content(JSONLogs)

\* A writer's Close makes a new version of the object.
Stored == bucket \cup {<<curNum, logBuf>>}
Created == Put(newest, curNum, logBuf)

Replaced == {<<n, seg[n]>> : n \in {curNum} \cap DOMAIN seg} \ {<<curNum, logBuf>>}

\* flushLocked without error.  The version that the object replaces is deleted;
\* that this fails is ignored.
FlushLocked ==
    /\ seg' = IF logBuf = <<>> THEN seg ELSE Put(seg, curNum, logBuf)
    /\ newest' = IF logBuf = <<>> THEN newest ELSE Created
    /\ durable' = JSONLogs
    /\ \/ bucket' = (IF logBuf = <<>> THEN bucket ELSE Stored \ Replaced) /\ NoFault
       \/ logBuf # <<>> /\ Replaced # {} /\ bucket' = Stored /\ Fault

\* A failed write may have stored the object.
FlushError ==
    /\ logBuf # <<>> /\ Fault
    /\ \/ UNCHANGED <<bucket, newest>>
       \/ bucket' = Stored /\ newest' = Created

Record(m, off) == [i \in 1..Size[m] |-> <<m, off>>]

Unlogged == {m \in Mutations : \A i \in DOMAIN History : History[i][1] # m}

PushesOver(m) == Len(logBuf) + Size[m] > Target

Down ==
    /\ up' = FALSE
    /\ LeaderStarts(NoFiles, 0, <<>>)
    /\ past' = past \cup {JSONLogs}
    /\ UNCHANGED durable

Log(m) ==
    /\ up /\ logs < MaxLogs /\ m \in Unlogged
    /\ logs' = logs + 1
    /\ IF PushesOver(m)
       THEN /\ FlushLocked
            /\ curNum' = curNum + 1
            /\ logBuf' = Record(m, 0)
       ELSE /\ logBuf' = logBuf \o Record(m, Len(logBuf))
            /\ UNCHANGED <<bucket, newest, seg, curNum, durable, faults>>
    /\ timer' = TRUE
    /\ UNCHANGED <<up, past, clientVars>>

\* addMutation ends the process when the mutation cannot be logged.
LogFails(m) ==
    /\ up /\ logs < MaxLogs /\ m \in Unlogged /\ PushesOver(m)
    /\ FlushError
    /\ Down
    /\ UNCHANGED <<logs, clientVars>>

\* onFlushTimer; a failed flush is tried again after a minute.
OnFlushTimer ==
    /\ up /\ timer
    /\ \/ FlushLocked /\ timer' = FALSE
       \/ FlushError /\ timer' = TRUE /\ UNCHANGED <<seg, durable>>
    /\ UNCHANGED <<up, curNum, logBuf, logs, past, clientVars>>

Crash == up /\ Fault /\ Down /\ UNCHANGED <<bucket, newest, logs, clientVars>>

Numbers == DOMAIN newest

\* Mutant: an older version wins.
Older(n) ==
    LET versions == {o[2] : o \in {x \in bucket : x[1] = n}}
    IN  CHOOSE d \in versions : d = newest[n] => versions = {d}

\* The object of a number that was created last.
Newest(n) == newest[n]

\* initLoad: an old version is deleted if it is listed before a newer one, and
\* the deletion succeeds.  A last segment that is big enough is left alone.
InitLoad ==
    /\ ~up
    /\ up' = TRUE
    /\ \/ bucket = {} /\ LeaderStarts(NoFiles, 0, <<>>)
       \/ \E max \in Numbers :
              LET segs == [n \in Numbers |-> Newest(n)]
              IN  /\ \A n \in Numbers : n <= max
                  /\ 0..max \subseteq Numbers
                  /\ IF Len(segs[max]) >= Target - Slack
                     THEN LeaderStarts(segs, max + 1, <<>>)
                     ELSE LeaderStarts(segs, max, segs[max])
    /\ \E D \in SUBSET {o \in bucket : o[2] # Newest(o[1])} : bucket' = bucket \ D
    /\ NoFault
    /\ UNCHANGED <<newest, logs, durable, past, clientVars>>

-----------------------------------------------------------------------------
(* The client: getNewSegments *)

UpdateEnds(to) == phase' = to /\ pending' = <<>> /\ got' = <<>>

\* getServerSegments, a poll that lasts until the sizes differ.
GetServerSegments ==
    /\ phase = "idle" /\ up /\ Len(History) # Len(Content(last))
    /\ phase' = "sync" /\ pending' = JSONLogs /\ got' = <<>>
    /\ NoFault
    /\ UNCHANGED <<leaderVars, last, frozen, growing, corpus, taint>>

CachedNumbers == {f[1] : f \in frozen}
Grown(n) == IF n \in DOMAIN growing THEN growing[n] ELSE <<>>

\* locallyCachedSegments: the frozen files without a gap, any one where there
\* are several, and the growing file that follows.
LocallyCached ==
    LET n == CHOOSE k \in 0..(MaxLogs + 1) :
                 0..(k - 1) \subseteq CachedNumbers /\ k \notin CachedNumbers
    IN {FlattenSeq([i \in 1..n |-> pick[i][2]])
            \o Grown(n) :
        pick \in {p \in [1..n -> frozen] : \A i \in 1..n : p[i][1] = i - 1}}

\* No internet at the start: what the files hold is applied, ns.last is not set.
StartOffline ==
    /\ phase = "idle" /\ last = <<>> /\ Fault
    /\ \E data \in LocallyCached :
           /\ data # <<>>
           /\ corpus' = corpus \o data
    /\ taint' = "offline"
    /\ UNCHANGED <<leaderVars, phase, last, pending, got, frozen, growing>>

\* What the server, or the bucket, has at a segment's URL.
Served(s) ==
    IF ~s.final THEN {s.data} \cap {o[2] : o \in {x \in bucket : x[1] = s.num}}
    ELSE IF ~up \/ s.num > curNum THEN {}
    ELSE IF s.num = curNum THEN {logBuf}
    ELSE {seg[s.num]} \cap {o[2] : o \in {x \in bucket : x[1] = s.num}}

\* newContents: the beginning of the growing file, or all of it and the range
\* that is missing.  Nothing where the range cannot be had.
NewContents(s) ==
    LET have == Grown(s.num) IN
    IF Len(have) >= Len(s.data) THEN {SubSeq(have, 1, Len(s.data))}
    ELSE {have \o SubSeq(d, Len(have) + 1, IF Len(d) < Len(s.data) THEN Len(d) ELSE Len(s.data)) :
          d \in {e \in Served(s) : Len(e) > Len(have)}}

Syncing(s) == phase = "sync" /\ pending # <<>> /\ s = Head(pending)

Synced(s) == got' = Append(got, s) /\ pending' = Tail(pending)

Missing(s) == <<s.num, s.data>> \notin frozen /\ Grown(s.num) # s.data

\* syncSeg finds the file.
SyncFrozen(s) ==
    /\ Syncing(s) /\ <<s.num, s.data>> \in frozen
    /\ Synced([s EXCEPT !.final = FALSE])
    /\ NoFault
    /\ UNCHANGED <<leaderVars, phase, last, frozen, growing, corpus, taint>>

\* It was growing here, and may have stopped to grow at the server.
SyncGrown(s) ==
    /\ Syncing(s) /\ <<s.num, s.data>> \notin frozen /\ Grown(s.num) = s.data
    /\ Synced(s)
    /\ IF s.final THEN UNCHANGED <<frozen, growing>>
       ELSE /\ frozen' = frozen \cup {<<s.num, s.data>>}
            /\ growing' = Without(growing, s.num)
    /\ NoFault
    /\ UNCHANGED <<leaderVars, phase, last, corpus, taint>>

Write(s) ==
    IF s.final THEN growing' = Put(growing, s.num, s.data) /\ UNCHANGED frozen
    ELSE frozen' = frozen \cup {<<s.num, s.data>>} /\ UNCHANGED growing

\* Mutant: what was downloaded is trusted when it has the right size.
SyncUnverified(s) ==
    /\ Syncing(s) /\ Missing(s)
    /\ \E data \in NewContents(s) :
           /\ Len(data) = Len(s.data)
           /\ Write([s EXCEPT !.data = data]) /\ Synced([s EXCEPT !.data = data])
    /\ NoFault
    /\ UNCHANGED <<leaderVars, phase, last, corpus, taint>>

SyncData(s) ==
    /\ Syncing(s) /\ Missing(s) /\ s.data \in NewContents(s)
    /\ Write(s) /\ Synced(s)
    /\ NoFault
    /\ UNCHANGED <<leaderVars, phase, last, corpus, taint>>

\* Mutant: the growing file stays.
SyncAgainWithIt(s) ==
    /\ Syncing(s) /\ Missing(s) /\ Grown(s.num) # <<>>
    /\ \E data \in NewContents(s) : data # s.data
    /\ NoFault
    /\ UNCHANGED <<leaderVars, clientVars>>

\* The checksum differs: once more without the growing file.
SyncAgain(s) ==
    /\ Syncing(s) /\ Missing(s) /\ Grown(s.num) # <<>>
    /\ \E data \in NewContents(s) : data # s.data
    /\ growing' = Without(growing, s.num)
    /\ NoFault
    /\ UNCHANGED <<leaderVars, phase, last, pending, got, frozen, corpus, taint>>

\* A corrupt download, an object that is gone, a range that is not there, or a
\* server that does not answer.
SyncFails(s) ==
    /\ Syncing(s) /\ Missing(s)
    /\ \/ NewContents(s) = {} /\ NoFault
       \/ Grown(s.num) = <<>> /\ (\E data \in NewContents(s) : data # s.data) /\ NoFault
       \/ Len(Grown(s.num)) < Len(s.data) /\ Fault
    /\ UpdateEnds("idle")
    /\ UNCHANGED <<leaderVars, last, frozen, growing, corpus, taint>>

\* filePrefixSum224, of the file as it is now.
FilePrefix(f, n) ==
    LET data == IF f.final THEN Grown(f.num) ELSE f.data
    IN IF n <= Len(data) THEN SubSeq(data, 1, n) ELSE <<>>

\* How many segments are the same at the beginning.
SameSegments(a, b) ==
    CHOOSE i \in 0..Len(a) :
        /\ i <= Len(b)
        /\ \A j \in 1..i : a[j].data = b[j].data
        /\ i < Len(a) /\ i < Len(b) => a[i + 1].data # b[i + 1].data

\* sumCommonPrefixSize: whole segments, then one that is a prefix of the other.
SumCommon(a, b) ==
    LET k == SameSegments(a, b)
        Common(x, y) ==
            Len(x.data) < Len(y.data) /\ FilePrefix(y, Len(x.data)) = x.data
    IN Len(Content(SubSeq(a, 1, k)))
       + (IF Len(a) = k \/ Len(b) = k THEN 0
          ELSE IF Common(a[k + 1], b[k + 1]) THEN Len(a[k + 1].data)
          ELSE IF Common(b[k + 1], a[k + 1]) THEN Len(b[k + 1].data) ELSE 0)

AllSynced == phase = "sync" /\ pending = <<>>
Known == SumCommon(got, last)
HasLast == Known = Len(Content(last))

Split ==
    /\ AllSynced /\ ~HasLast
    /\ phase' = "split"
    /\ NoFault
    /\ UNCHANGED <<leaderVars, last, pending, got, frozen, growing, corpus, taint>>

NewData == SubSeq(Content(got), Known + 1, Len(Content(got)))

\* ns.last is set, then fetchAndSendMutations sends what was trimmed of the
\* common part, and update applies it.
Deliver ==
    /\ AllSynced /\ HasLast /\ NewData # <<>>
    /\ last' = got
    /\ corpus' = corpus \o NewData
    /\ UpdateEnds("idle")
    /\ NoFault
    /\ UNCHANGED <<leaderVars, frozen, growing, taint>>

\* The same, and a file cannot be opened or the context ends on the way.
Interrupted ==
    /\ AllSynced /\ HasLast /\ NewData # <<>> /\ Fault
    /\ last' = got
    /\ \E k \in {i \in 0..(Len(NewData) - 1) : i > 0 => NewData[i] # NewData[i + 1]} :
           corpus' = corpus \o SubSeq(NewData, 1, k)
    /\ taint' = "cut"
    /\ UpdateEnds("idle")
    /\ UNCHANGED <<leaderVars, frozen, growing>>

\* After ErrSplit, or when the process starts again: a new corpus and source,
\* over the same files.
Initialize ==
    /\ \/ phase = "split" /\ NoFault
       \/ (last # <<>> \/ phase = "sync") /\ Fault
    /\ last' = <<>> /\ corpus' = <<>> /\ taint' = "none"
    /\ UpdateEnds("idle")
    /\ UNCHANGED <<leaderVars, frozen, growing>>

-----------------------------------------------------------------------------
SyncSeg ==
    \E s \in ToSet(pending) :
        \/ SyncFrozen(s) \/ SyncGrown(s) \/ SyncData(s) \/ SyncAgain(s) \/ SyncFails(s)

ClientStep == GetServerSegments \/ SyncSeg \/ Split \/ Deliver \/ Initialize

MLNext ==
    \/ \E m \in Mutations : Log(m) \/ LogFails(m)
    \/ OnFlushTimer \/ Crash \/ InitLoad
    \/ ClientStep \/ StartOffline \/ Interrupted

MLSpec == MLInit /\ [][MLNext]_mlVars

\* The leader is started again, its timers fire, and the client calls Update in
\* a loop.
MLFairness ==
    /\ WF_mlVars(InitLoad)
    /\ WF_mlVars(OnFlushTimer)
    /\ WF_mlVars(ClientStep)

MLFairSpec == MLSpec /\ MLFairness

-----------------------------------------------------------------------------
(* Properties *)

Histories == past \cup {JSONLogs}

IsAHistory(data) == \E h \in Histories : IsPrefix(data, Content(h))

\* However the leader crashes, resumes a segment or replaces an object while a
\* client downloads, and whatever old files the client has: the corpus is what
\* ns.last stands for, and a prefix of one history of the leader; two histories
\* are never mixed.  (Not for a corpus that was read offline or whose Update was
\* interrupted.)
OneHistory == taint = "none" => corpus = Content(last) /\ IsAHistory(corpus)

\* The same of a corpus that was read offline, and of one that Update brings up
\* to date afterwards.  It fails: ns.last is not set, so that Update applies the
\* whole log once more, or another history, without ErrSplit.
OfflineContinues == taint # "cut" => IsAHistory(corpus)

\* What was flushed is in every later history, though writes that are reported
\* as failed, and old versions that could not be deleted, lie in the bucket.
FlushedSurvives == up => IsPrefix(Content(durable), History)

\* ErrSplit is no false alarm: the log that was offered does not continue what
\* the client has, byte by byte, whatever the borders of the segments are.
SplitIsDeserved == phase = "split" => ~IsPrefix(Content(last), Content(got))

\* A client refuses to go on only where the histories differ, and catches up with
\* the leader when it rests: Update ends with the leader's log or waits at one of
\* the same size, and then no mutation is missing from the corpus, or there
\* twice.  The exceptions are a corpus whose Update was interrupted, which has
\* lost the mutations it was not sent while ns.last says that it has them, and
\* one that was read offline.
CatchesUp ==
    /\ []SplitIsDeserved
    /\ <>[]/\ phase = "idle"
           /\ Len(Content(last)) = Len(History)
           /\ taint = "none" => Len(corpus) = Len(History)
=============================================================================
