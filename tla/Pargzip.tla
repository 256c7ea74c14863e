------------------------------ MODULE Pargzip ------------------------------
(***************************************************************************)
(* pargzip.Writer, src/pargzip/pargzip.go: how a buildlet compresses the   *)
(* directory that it sends (handleGetTGZ).  Chunks are compressed by       *)
(* goroutines of their own, as many at a time as a semaphore allows, and   *)
(* written in order by one that gets them from a channel; the first failed *)
(* write ends it.  The model begins after the first Write's init().        *)
(* Chunk n is n.                                                           *)
(***************************************************************************)
EXTENDS Integers, Sequences, FiniteSets

CONSTANTS
    Parallel,
    MaxChunks   \* bound on the chunks of one stream

ASSUME PargzipAssumption == Parallel \in Nat \ {0}

VARIABLES
    zPhase,     \* the caller: "writing", "flushing", "flushed", "waiting", "closed"
    zBlock,     \* where it is in startChunk: "no", "sem", "send"
    zStarted,   \* how many chunks it has started
    zBusy,      \* chunks that are being compressed: the tokens in w.sem
    zDone,      \* chunks whose donec is closed
    chunkc, chunkcClosed,
    zWriter,    \* the writing goroutine: "range", "chunk", "failed", "ended"
    zChunk,     \* the chunk it has
    zErr,       \* w.err # nil
    wasWriteErr,
    zOut,       \* what was written
    zResult     \* what Close returned: "none", "nil", "error"

callVars == <<zPhase, zBlock, zStarted, zResult>>
workVars == <<zWriter, zChunk, zErr, wasWriteErr, zOut>>
gzipVars == <<callVars, zBusy, zDone, chunkc, chunkcClosed, workVars>>

GzipInit ==
    /\ zPhase = "writing" /\ zBlock = "no" /\ zStarted = 0 /\ zResult = "none"
    /\ zBusy = {} /\ zDone = {}
    /\ chunkc = <<>> /\ chunkcClosed = FALSE
    /\ zWriter = "range" /\ zChunk = 0 /\ zErr = FALSE /\ wasWriteErr = FALSE
    /\ zOut = <<>>

-----------------------------------------------------------------------------
(* Write and startChunk *)

\* A Write that fills the buffer.  It never learns of errors.
WriteFull ==
    /\ zPhase = "writing" /\ zBlock = "no" /\ zStarted < MaxChunks
    /\ zBlock' = "sem"
    /\ UNCHANGED <<zPhase, zStarted, zResult, zBusy, zDone, chunkc, chunkcClosed, workVars>>

StartChunk ==
    /\ zBlock = "sem" /\ Cardinality(zBusy) < Parallel
    /\ zBlock' = "send"
    /\ zStarted' = zStarted + 1
    /\ zBusy' = zBusy \cup {zStarted + 1}
    /\ UNCHANGED <<zPhase, zResult, zDone, chunkc, chunkcClosed, workVars>>

SendChunk ==
    /\ zBlock = "send" /\ Len(chunkc) < Parallel + 1
    /\ zBlock' = "no"
    /\ chunkc' = Append(chunkc, zStarted)
    /\ UNCHANGED <<zPhase, zStarted, zResult, zBusy, zDone, chunkcClosed, workVars>>

\* Mutant: the chunk is sent without the second case of the select.
DiscardNever == FALSE /\ UNCHANGED gzipVars

\* case <-w.wasWriteErr
DiscardChunk ==
    /\ zBlock = "send" /\ wasWriteErr
    /\ zBlock' = "no"
    /\ UNCHANGED <<zPhase, zStarted, zResult, zBusy, zDone, chunkc, chunkcClosed, workVars>>

\* compress: donec is closed, and the token taken out of w.sem.
Compress(c) ==
    /\ c \in zBusy
    /\ zBusy' = zBusy \ {c} /\ zDone' = zDone \cup {c}
    /\ UNCHANGED <<callVars, chunkc, chunkcClosed, workVars>>

-----------------------------------------------------------------------------
(* The writing goroutine *)

ReceiveChunk ==
    /\ zWriter = "range" /\ chunkc # <<>>
    /\ zWriter' = "chunk"
    /\ zChunk' = Head(chunkc) /\ chunkc' = Tail(chunkc)
    /\ UNCHANGED <<callVars, zBusy, zDone, chunkcClosed, zErr, wasWriteErr, zOut>>

\* <-c.donec, and the write.
WriteCompressedChunk ==
    /\ zWriter = "chunk" /\ zChunk \in zDone
    /\ zWriter' = "range"
    /\ zOut' = Append(zOut, zChunk)
    /\ UNCHANGED <<callVars, zBusy, zDone, chunkc, chunkcClosed, zChunk, zErr, wasWriteErr>>

WriteCompressedFails ==
    /\ zWriter = "chunk" /\ zChunk \in zDone
    /\ zWriter' = "failed" /\ zErr' = TRUE
    /\ UNCHANGED <<callVars, zBusy, zDone, chunkc, chunkcClosed, zChunk, wasWriteErr, zOut>>

\* close(w.wasWriteErr), close(w.allWritten)
StopWriting ==
    /\ zWriter = "failed"
    /\ zWriter' = "ended" /\ wasWriteErr' = TRUE
    /\ UNCHANGED <<callVars, zBusy, zDone, chunkc, chunkcClosed, zChunk, zErr, zOut>>

RangeEnds ==
    /\ zWriter = "range" /\ chunkc = <<>> /\ chunkcClosed
    /\ zWriter' = "ended"
    /\ UNCHANGED <<callVars, zBusy, zDone, chunkc, chunkcClosed, zChunk, zErr, wasWriteErr, zOut>>

-----------------------------------------------------------------------------
(* Close *)

\* An error that is known by now is returned, and the rest of the buffer dropped.
\* The first Close after a Write: its only caller, handleGetTGZ, does not call it
\* twice, and gets a nil if it did.
CloseBegins ==
    /\ zPhase = "writing" /\ zBlock = "no"
    /\ IF zErr THEN zPhase' = "closed" /\ zResult' = "error"
               ELSE zPhase' = "flushing" /\ UNCHANGED zResult
    /\ UNCHANGED <<zBlock, zStarted, zBusy, zDone, chunkc, chunkcClosed, workVars>>

\* w.bw.Flush(), when something is left in the buffer.
FlushRest ==
    /\ zPhase = "flushing" /\ zStarted < MaxChunks
    /\ zPhase' = "flushed" /\ zBlock' = "sem"
    /\ UNCHANGED <<zStarted, zResult, zBusy, zDone, chunkc, chunkcClosed, workVars>>

CloseChunkc ==
    /\ zPhase \in {"flushing", "flushed"} /\ zBlock = "no"
    /\ zPhase' = "waiting" /\ chunkcClosed' = TRUE
    /\ UNCHANGED <<zBlock, zStarted, zResult, zBusy, zDone, chunkc, workVars>>

\* <-w.allWritten
CloseCompletes ==
    /\ zPhase = "waiting" /\ zWriter = "ended"
    /\ zPhase' = "closed" /\ zResult' = IF zErr THEN "error" ELSE "nil"
    /\ UNCHANGED <<zBlock, zStarted, zBusy, zDone, chunkc, chunkcClosed, workVars>>

-----------------------------------------------------------------------------
CallStep ==
    \/ StartChunk \/ SendChunk \/ DiscardChunk
    \/ FlushRest \/ CloseChunkc \/ CloseCompletes

WriterStep ==
    \/ ReceiveChunk \/ WriteCompressedChunk \/ WriteCompressedFails
    \/ StopWriting \/ RangeEnds

CompressStep == \E c \in 1..MaxChunks : Compress(c)

GzipNext ==
    \/ WriteFull \/ CloseBegins \/ CallStep \/ WriterStep
    \/ CompressStep

\* Goroutines are scheduled, and writes to the connection return.
GzipFairness ==
    /\ WF_gzipVars(CallStep) /\ WF_gzipVars(WriterStep) /\ WF_gzipVars(CompressStep)

-----------------------------------------------------------------------------
(* Properties *)

\* Close returns no error only if every chunk was written, in order, although
\* chunks are ready in any order, those after a failed one are thrown away, and
\* the write may fail before Close, during its flush or while it waits.
NilMeansWritten == zResult = "nil" => zOut = [i \in 1..zStarted |-> i]

\* Write and Close return, even though nobody receives from the channel any more
\* after a failed write.
GzipCallsReturn ==
    zBlock # "no" \/ zPhase \notin {"writing", "closed"}
        ~> zBlock = "no" /\ zPhase \in {"writing", "closed"}

\* Close always returns, and not with a failure hidden.
GzipEnds == GzipCallsReturn /\ []NilMeansWritten
=============================================================================
