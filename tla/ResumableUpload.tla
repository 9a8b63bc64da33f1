--------------------------- MODULE ResumableUpload ---------------------------
(***************************************************************************)
(* The browser's side of a resumable upload (web/src/lib/                  *)
(* resumableUpload.ts): chunks are sent from a local offset, and after an  *)
(* error the store is asked how much of the file it holds.                 *)
(*                                                                         *)
(* The store is external.  It commits the file from its start, without     *)
(* gaps and possibly less than a chunk; it may go on committing a chunk    *)
(* whose answer the browser did not get; and it answers 200 exactly when   *)
(* the file is whole, else 308 with the range it holds.  The range header  *)
(* is missing when the store holds nothing.                                *)
(***************************************************************************)
EXTENDS Integers

CONSTANTS
    Size,        \* bytes of the file
    ChunkSize,   \* RESUMABLE_CHUNK_SIZE_BYTES
    MaxRetries   \* options.maxRetries

\* resumableUpload.ts:141-143 and 164-166.
ASSUME UploadAssumption == {Size, ChunkSize, MaxRetries} \subseteq Nat \ {0}

VARIABLES
    phase,      \* where uploadFileResumable stands
    offset,     \* the first byte it has yet to send
    retries,    \* retriesWithoutProgress; while recovering, attempt
    committed,  \* bytes the store holds
    reach,      \* the end of the chunks the store has received
    misread     \* history: a missing range was taken for the whole chunk

clientVars == <<phase, offset, retries, misread>>
storeVars  == <<committed, reach>>
uploadVars == <<clientVars, storeVars>>

Ended == {"sent", "failed", "closed"}
Whole == committed = Size

UploadTypeOK ==
    /\ phase \in {"none", "ready", "waiting", "recovering"} \cup Ended
    /\ offset \in 0..Size
    /\ retries \in 0..MaxRetries
    /\ committed \in 0..Size
    /\ reach \in committed..Size
    /\ misread \in BOOLEAN

UploadInit ==
    /\ phase = "none"
    /\ offset = 0 /\ retries = 0
    /\ committed = 0 /\ reach = 0
    /\ misread = FALSE

ChunkEnd == IF offset + ChunkSize < Size THEN offset + ChunkSize ELSE Size

Open ==
    /\ phase = "none"
    /\ phase' = "ready"
    /\ UNCHANGED <<offset, retries, misread, storeVars>>

\* A chunk that begins after the committed bytes is of no use to the store.
Put ==
    /\ phase = "ready"
    /\ phase' = "waiting"
    /\ reach' = IF offset <= committed /\ ChunkEnd > reach THEN ChunkEnd ELSE reach
    /\ UNCHANGED <<offset, retries, misread, committed>>

Commit ==
    /\ committed' \in (committed + 1)..reach
    /\ UNCHANGED <<clientVars, reach>>

Finish(p) == phase' = p /\ UNCHANGED <<offset, retries, misread, storeVars>>

\* The loop goes on while bytes are left.
Resume(next, tries) ==
    /\ offset' = next
    /\ retries' = tries
    /\ phase' = IF next = Size THEN "sent" ELSE "ready"
    /\ UNCHANGED storeVars

Accepted ==
    /\ phase = "waiting" /\ Whole
    /\ Resume(Size, retries)
    /\ UNCHANGED misread

\* Faulty variant: the range of the answer is not looked at.
WholeChunk == ChunkEnd

\* committedOffset with the end of the chunk as its fallback.
PutOffset == IF committed = 0 THEN ChunkEnd ELSE committed

Continue ==
    /\ phase = "waiting" /\ ~Whole
    /\ IF PutOffset <= offset
       THEN Finish("failed")
       ELSE /\ Resume(PutOffset, 0)
            /\ misread' = (misread \/ committed = 0)

\* No answer, or one with a retryable status.
Interrupted == phase = "waiting" /\ Finish("recovering")

\* Faulty variant: every answer of the store starts the count again.
RecoverAfresh ==
    /\ phase = "recovering" /\ retries < MaxRetries
    /\ IF committed < offset
       THEN Finish("failed")
       ELSE Resume(committed, 0) /\ UNCHANGED misread

\* recoverCommittedOffset: the fallback of committedOffset is 0 here.
Recover ==
    /\ phase = "recovering" /\ retries < MaxRetries
    /\ IF committed < offset
       THEN Finish("failed")
       ELSE /\ Resume(committed, IF committed > offset THEN 0 ELSE retries + 1)
            /\ UNCHANGED misread

RecoveryInterrupted ==
    /\ phase = "recovering" /\ retries < MaxRetries
    /\ retries' = retries + 1
    /\ UNCHANGED <<phase, offset, misread, storeVars>>

RecoveryExhausted ==
    phase = "recovering" /\ retries = MaxRetries /\ Finish("failed")

\* An answer whose status is not retryable.
Rejected ==
    /\ \/ phase = "waiting"
       \/ phase = "recovering" /\ retries < MaxRetries
    /\ Finish("failed")

\* The tab is closed.
Close == phase \notin Ended \cup {"none"} /\ Finish("closed")

Step ==
    \/ Put \/ Accepted \/ Continue \/ Interrupted \/ Recover
    \/ RecoveryInterrupted \/ RecoveryExhausted \/ Rejected

UploadNext == Open \/ Step \/ Commit \/ Close

(***************************************************************************)
(* The browser never takes a byte for stored that the store does not hold, *)
(* so that no byte is skipped, with one exception that the code does have: *)
(* an answer without a range means nothing is stored, but after a chunk it *)
(* is read as the whole chunk (resumableUpload.ts:52-58, 84 and 210).  The *)
(* offset then runs ahead, but only of a store that has received no more   *)
(* than the first chunk: once a second chunk is in, no byte is skipped.    *)
(***************************************************************************)
NoByteIsSkipped == offset > committed => misread /\ reach <= ChunkSize

=============================================================================
