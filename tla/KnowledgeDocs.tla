----------------------------- MODULE KnowledgeDocs -----------------------------
(***************************************************************************)
(* One document of the knowledge base, its chunks in the vector index and  *)
(* the staff requests about it: creation, upload, store sync, update,      *)
(* reprocessing and deletion, with the embedding job they start.           *)
(*                                                                         *)
(* An update commits the new content and deletes the old chunks in two     *)
(* transactions; a job reads the content once, embeds it for minutes and   *)
(* adds its chunks to whatever the index holds then.  Jobs of one document *)
(* may overlap, and arq executes an interrupted job again.                 *)
(*                                                                         *)
(* A content is named by the request that brought it.  Titles, splitting   *)
(* and vectors are left out: a content has one set of chunks, counted.     *)
(***************************************************************************)
EXTENDS Naturals

CONSTANTS Requests,   \* staff requests, each with the job it may start
          NoContent,  \* before the document is created
          MaxTries,   \* executions arq grants a job (WorkerSettings.max_tries)
          Faults      \* what may go wrong: see FaultKinds

FaultKinds == {"redis",     \* an enqueue fails
               "database",  \* the transaction that stores the chunks fails
               "timeout",   \* the job exceeds job_timeout
               "crash",     \* a worker, or the API process, dies
               "nopool"}    \* the process has no arq pool

ASSUME KnowledgeDocsAssumption == /\ NoContent \notin Requests
                                  /\ MaxTries \in Nat \ {0}
                                  /\ Faults \subseteq FaultKinds

VARIABLES row,       \* is there a row: "absent", "present", "deleted"
          source,    \* who wrote the document first
          content,   \* the row's content
          status,    \* the row's embedding_status
          chunks,    \* copies of each content's chunks in the index
          pc,        \* where each request, then its job, is
          seen,      \* embedding_status as the session knows it
          text,      \* content as the job has loaded it
          tries,     \* executions the job has left
          hit,       \* history: requests, and jobs, that a fault has ended
          replaced,  \* history: jobs whose content was replaced since they loaded it
          overlap    \* history: did two requests ever overlap?

rowVars == <<row, source, content, status>>
jobVars == <<seen, text, tries>>
vars == <<rowVars, chunks, pc, jobVars, hit, replaced, overlap>>

NoChunks == [v \in Requests |-> 0]

Init == /\ row = "absent"
        /\ source = "none"
        /\ content = NoContent
        /\ status = "pending"
        /\ chunks = NoChunks
        /\ pc = [r \in Requests |-> "idle"]
        /\ seen = [r \in Requests |-> "pending"]
        /\ text = [r \in Requests |-> NoContent]
        /\ tries = [r \in Requests |-> 0]
        /\ hit = {}
        /\ replaced = {}
        /\ overlap = FALSE

Running == {"loaded", "marked", "embedded", "failing", "stored"}

-------------------------------------------------------------------------------

At(r, from, to) == /\ pc[r] \in from
                   /\ pc' = [pc EXCEPT ![r] = to]

\* A request arrives.
Enter(r, to) == /\ At(r, {"idle"}, to)
                /\ overlap' = (overlap \/ \E q \in Requests : pc[q] \notin {"idle", "done"})
                /\ UNCHANGED <<chunks, text, tries, hit, replaced>>

Continue == UNCHANGED <<hit, overlap>>

\* A flush writes a column only if its value differs from the one loaded.
Flushed(new, loaded, current) == IF new = loaded THEN current ELSE new

(* The requests *)

Insert(r, from, to) == /\ row = "absent"
                       /\ row' = "present"
                       /\ source' = from
                       /\ content' = r
                       /\ status' = "pending"
                       /\ Enter(r, to)
                       /\ UNCHANGED seen

\* A typed document waits for the process endpoint, the others start their job.
CreateDocument(r) == Insert(r, "typed", "done")
UploadDocument(r) == Insert(r, "uploaded", "asked")
SyncNewDocument(r) == Insert(r, "store", "asked")

Read(r, to) == /\ row = "present"
               /\ seen' = [seen EXCEPT ![r] = status]
               /\ Enter(r, to)
               /\ UNCHANGED rowVars

UpdateRead(r) == Read(r, "updating")
SyncRead(r) == source = "store" /\ Read(r, "syncing")
ProcessRead(r) == Read(r, "asked")
DeleteRead(r) == Read(r, "deleting")

\* The row's content becomes the request's; an UPDATE of a deleted row raises.
Replace(r, from, to) ==
    /\ At(r, {from}, IF row = "present" THEN to ELSE "done")
    /\ IF row = "present"
       THEN /\ content' = r
            /\ status' = Flushed("pending", seen[r], status)
            /\ replaced' = replaced \cup {q \in Requests : pc[q] \in Running}
            /\ UNCHANGED <<row, source>>
       ELSE UNCHANGED <<rowVars, replaced>>
    /\ UNCHANGED <<chunks, jobVars>>
    /\ Continue

\* Mutation: the update leaves the status alone.
UpdateCommitKeepsStatus(r) ==
    /\ pc[r] = "updating"
    /\ row = "present"
    /\ pc' = [pc EXCEPT ![r] = "clearing"]
    /\ content' = r
    /\ replaced' = replaced \cup {q \in Requests : pc[q] \in Running}
    /\ UNCHANGED <<row, source, status, chunks, jobVars>>
    /\ Continue

UpdateCommit(r) == Replace(r, "updating", "clearing")

UpdateClear(r) == /\ At(r, {"clearing"}, "done")
                  /\ chunks' = NoChunks
                  /\ UNCHANGED <<rowVars, jobVars, replaced>>
                  /\ Continue

\* The sync leaves the old chunks in the index.
SyncCommit(r) == Replace(r, "syncing", "asked")

\* The ORM and the foreign key delete the chunks with the row.
DeleteCommit(r) == /\ At(r, {"deleting"}, "done")
                   /\ row' = "deleted"
                   /\ chunks' = NoChunks
                   /\ UNCHANGED <<source, content, status, jobVars, replaced>>
                   /\ Continue

\* Without a pool the same run starts in the API process, once.
Enqueue(r) == /\ At(r, {"asked"}, "queued")
              /\ \E n \in {MaxTries} \cup (IF "nopool" \in Faults THEN {1} ELSE {}) :
                    tries' = [tries EXCEPT ![r] = n]
              /\ UNCHANGED <<rowVars, chunks, seen, text, replaced>>
              /\ Continue

\* Request or job r ends early, or starts over, with nothing written.
Interrupted(r, from, to) == /\ At(r, from, to)
                            /\ hit' = IF to = "done" THEN hit \cup {r} ELSE hit
                            /\ UNCHANGED <<rowVars, chunks, jobVars, replaced, overlap>>

EnqueueFails(r) == "redis" \in Faults /\ Interrupted(r, {"asked"}, "done")

HandlerDies(r) ==
    /\ "crash" \in Faults
    /\ Interrupted(r, {"updating", "clearing", "syncing", "deleting", "asked"}, "done")

(* The job: process_document *)

\* Mutation: a retried job embeds the text its first execution had loaded.
LoadOnce(r) ==
    /\ At(r, {"queued"}, IF row = "present" THEN "loaded" ELSE "done")
    /\ tries' = [tries EXCEPT ![r] = @ - 1]
    /\ text' = [text EXCEPT ![r] = IF @ = NoContent THEN content ELSE @]
    /\ seen' = [seen EXCEPT ![r] = status]
    /\ replaced' = replaced \ {r}
    /\ UNCHANGED <<rowVars, chunks>>
    /\ Continue

Load(r) == /\ At(r, {"queued"}, IF row = "present" THEN "loaded" ELSE "done")
           /\ tries' = [tries EXCEPT ![r] = @ - 1]
           /\ text' = [text EXCEPT ![r] = content]
           /\ seen' = [seen EXCEPT ![r] = status]
           /\ replaced' = replaced \ {r}
           /\ UNCHANGED <<rowVars, chunks>>
           /\ Continue

\* A step of the job that touches no chunk.
JobStep(r, from, to) == /\ At(r, {from}, to)
                        /\ UNCHANGED <<row, source, content, chunks, text, tries, replaced>>
                        /\ Continue

\* With nothing to flush, a deleted row goes unnoticed; else the UPDATE raises,
\* and so does the commit of the error handler on the same session.
MarkProcessing(r) ==
    IF row # "present" /\ seen[r] # "processing"
    THEN JobStep(r, "loaded", "done") /\ UNCHANGED <<status, seen>>
    ELSE /\ JobStep(r, "loaded", "marked")
         /\ status' = Flushed("processing", seen[r], status)
         /\ seen' = [seen EXCEPT ![r] = "processing"]

Embed(r) == JobStep(r, "marked", "embedded") /\ UNCHANGED <<status, seen>>

\* Mutation: an embedding error ends the job without its error handler.
EmbedFailsUnhandled(r) == JobStep(r, "marked", "done") /\ UNCHANGED <<status, seen>>

EmbedFails(r) == JobStep(r, "marked", "failing") /\ UNCHANGED <<status, seen>>

\* Mutation: the chunks of a deleted document are accepted.
StoreNoForeignKey(r) ==
    /\ At(r, {"embedded"}, "stored")
    /\ chunks' = [chunks EXCEPT ![text[r]] = @ + 1]
    /\ status' = "completed"
    /\ UNCHANGED <<row, source, content, jobVars, replaced>>
    /\ Continue

\* Chunks and status in one transaction; the foreign key refuses the chunks of
\* a deleted document, and the error handler cannot commit either.
Store(r) == /\ At(r, {"embedded"}, "stored")
            /\ IF row = "present"
               THEN /\ chunks' = [chunks EXCEPT ![text[r]] = @ + 1]
                    /\ status' = "completed"
               ELSE UNCHANGED <<chunks, status>>
            /\ UNCHANGED <<row, source, content, jobVars, replaced>>
            /\ Continue

\* After a failed flush the error handler's commit fails as well.
StoreFails(r) == "database" \in Faults /\ Interrupted(r, {"embedded"}, "done")

MarkFailed(r) == /\ JobStep(r, "failing", "done")
                 /\ status' = IF row = "present" THEN "failed" ELSE status
                 /\ UNCHANGED seen

Acknowledge(r) == JobStep(r, "stored", "done") /\ UNCHANGED <<status, seen>>

\* Cancelled by arq, or with its loop when it runs in the API process: not an
\* Exception, so the error handler does not run.
JobTimesOut(r) == "timeout" \in Faults /\ Interrupted(r, Running, "done")

\* Mutation: retries are not limited by max_tries.
JobDiesUnlimited(r) == "crash" \in Faults /\ Interrupted(r, Running, "queued")

JobDies(r) == /\ "crash" \in Faults
              /\ Interrupted(r, Running, IF tries[r] > 0 THEN "queued" ELSE "done")

-------------------------------------------------------------------------------

Arrive(r) == \/ CreateDocument(r) \/ UploadDocument(r) \/ SyncNewDocument(r)
             \/ UpdateRead(r) \/ SyncRead(r) \/ ProcessRead(r) \/ DeleteRead(r)

Progress(r) == \/ UpdateCommit(r) \/ UpdateClear(r) \/ SyncCommit(r) \/ DeleteCommit(r)
               \/ Enqueue(r) \/ EnqueueFails(r) \/ HandlerDies(r)
               \/ Load(r) \/ MarkProcessing(r) \/ Embed(r) \/ EmbedFails(r)
               \/ Store(r) \/ StoreFails(r) \/ MarkFailed(r) \/ Acknowledge(r)
               \/ JobTimesOut(r) \/ JobDies(r)

Next == \E r \in Requests : Arrive(r) \/ Progress(r)

Spec == Init /\ [][Next]_vars

-------------------------------------------------------------------------------
(* Properties *)

Statuses == {"pending", "processing", "completed", "failed"}

\* Type of the row, the index and the requests.
TypeOK ==
    /\ row \in {"absent", "present", "deleted"}
    /\ source \in {"none", "typed", "uploaded", "store"}
    /\ content \in Requests \cup {NoContent}
    /\ status \in Statuses
    /\ chunks \in [Requests -> Nat]
    /\ pc \in [Requests -> {"idle", "updating", "clearing", "syncing", "deleting",
                            "asked", "queued", "done"} \cup Running]
    /\ seen \in [Requests -> Statuses]
    /\ text \in [Requests -> Requests \cup {NoContent}]
    /\ tries \in [Requests -> 0..MaxTries]
    /\ hit \subseteq Requests
    /\ replaced \subseteq Requests
    /\ overlap \in BOOLEAN

\* Searches never find chunks of a document that is gone, however its deletion
\* interleaves with jobs that are embedding it.
NoOrphanChunks == row # "present" => chunks = NoChunks

\* A job that has read the document, and works on it or is to run again.
Working(r) == /\ text[r] # NoContent
              /\ pc[r] \in {"queued", "loaded", "marked", "embedded", "failing"}

\* A document stays in "processing" only while a job works on it, or after a fault
\* has ended such a job for good: overlapping jobs, updates that reset the status,
\* embedding errors and crashes with an execution left all lead to another status,
\* and no fault of a request or of an enqueue leaves a document in it.
ProcessingIsWorkedOn ==
    row = "present" /\ status = "processing" =>
        \E r \in Requests : Working(r) \/ (r \in hit /\ text[r] # NoContent)

Outdated == row = "present" /\ \E v \in Requests : v # content /\ chunks[v] > 0

OutdatedOnlyBy == ~Outdated /\ Outdated' =>
                      \/ content' # content
                      \/ \E r \in replaced : pc[r] = "embedded" /\ pc'[r] = "stored"

\* The index comes to hold chunks of a content the row no longer has in three
\* ways only: the first half of an update, a store sync (which never clears), and
\* a job storing a content that was replaced after this execution loaded it.
OutdatedHasCause == [][OutdatedOnlyBy]_vars

Quiet == \A r \in Requests : pc[r] \in {"idle", "done"}

\* Requests made one after the other, none of them ended by a fault, leave the index
\* as the status says, also when jobs were executed again: a completed document can be
\* found by its content, one that waits for processing has nothing in the index, and
\* only store documents keep chunks of older contents.
SequentialUseIndexes ==
    ~overlap /\ hit = {} /\ Quiet /\ row = "present" =>
        /\ status = "completed" => chunks[content] > 0
        /\ status = "pending" => chunks = NoChunks
        /\ Outdated => source = "store"

\* What the update endpoint's description promises, "resets embedding status to
\* pending ... requiring reprocessing": when everything has ended, and nothing by a
\* fault, a completed document can be found by its content.
CompletedIsIndexed ==
    hit = {} /\ Quiet /\ row = "present" /\ status = "completed" => chunks[content] > 0
===============================================================================
