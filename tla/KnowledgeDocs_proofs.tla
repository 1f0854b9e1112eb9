------------------------- MODULE KnowledgeDocs_proofs -------------------------
(***************************************************************************)
(* What holds of a document for any number of requests and executions, and *)
(* for any choice of faults.                                               *)
(*                                                                         *)
(* TypeOK is not inductive: that a job's executions do not run below zero  *)
(* needs Granted.  ProcessingIsWorkedOn needs Loaded: a running job has    *)
(* read a content.  OutdatedHasCause needs Marked: a running job whose text *)
(* is not the row's has had its content replaced.                          *)
(*                                                                         *)
(* Requests made one after the other are followed through their stages:    *)
(* at most one is under way, and the index is what the row says but for    *)
(* what that one is about to change (Sequential).                          *)
(***************************************************************************)
EXTENDS KnowledgeDocs, TLAPS

-------------------------------------------------------------------------------
(* The inductive invariant *)

\* A queued job has an execution left.
Granted == \A r \in Requests : pc[r] = "queued" => tries[r] > 0

TypeInv == TypeOK /\ Granted

\* A running job embeds the row's content, or that content was replaced since.
Marked == /\ row = "absent" => content = NoContent /\ \A r \in Requests : pc[r] \notin Running
          /\ \A r \in Requests :
                pc[r] \in Running => text[r] = content \/ r \in replaced

\* A document that is there has a content, and a running job has read one.
Loaded == /\ row = "present" => content \in Requests
          /\ \A r \in Requests : pc[r] \in Running => text[r] \in Requests

Inv == TypeInv /\ NoOrphanChunks /\ ProcessingIsWorkedOn /\ Marked /\ Loaded

LEMMA InitInv == Init => Inv
  <1> SUFFICES ASSUME Init
               PROVE  Inv
    OBVIOUS
  <1>1. chunks \in [Requests -> Nat] /\ tries \in [Requests -> 0..MaxTries]
    BY KnowledgeDocsAssumption DEF Init, NoChunks
  <1>2. TypeInv
    BY <1>1 DEF Init, TypeInv, TypeOK, Granted, Running, Statuses
  <1>3. NoOrphanChunks /\ ProcessingIsWorkedOn /\ Marked /\ Loaded
    BY DEF Init, NoOrphanChunks, ProcessingIsWorkedOn, Marked, Loaded, Running
  <1> QED
    BY <1>2, <1>3 DEF Inv

-------------------------------------------------------------------------------
(* Types and executions *)

LEMMA ArriveTypeInv ==
  ASSUME TypeInv, NEW r \in Requests, Arrive(r)
  PROVE  TypeInv'
  <1>1. ASSUME NEW from \in {"typed", "uploaded", "store"}, NEW to \in {"asked", "done"},
               Insert(r, from, to)
        PROVE  TypeInv'
    BY <1>1 DEF TypeInv, TypeOK, Granted, Insert, Enter, At, Running, Statuses
  <1>2. ASSUME NEW to \in {"updating", "syncing", "asked", "deleting"}, Read(r, to)
        PROVE  TypeInv'
    BY <1>2 DEF TypeInv, TypeOK, Granted, Read, Enter, At, Running, rowVars, Statuses
  <1> QED
    BY <1>1, <1>2 DEF Arrive, CreateDocument, UploadDocument, SyncNewDocument,
                      UpdateRead, SyncRead, ProcessRead, DeleteRead

LEMMA ProgressTypeInv ==
  ASSUME TypeInv, NEW r \in Requests, Progress(r)
  PROVE  TypeInv'
  <1> USE KnowledgeDocsAssumption DEF TypeInv, TypeOK, Granted, At, Continue, Running, jobVars
  <1>1. ASSUME NEW from, NEW to \in {"clearing", "asked"}, Replace(r, from, to)
        PROVE  TypeInv'
    BY <1>1 DEF Replace, Flushed, rowVars, Statuses
  <1>2. CASE UpdateClear(r)
    BY <1>2 DEF UpdateClear, rowVars, NoChunks
  <1>3. CASE DeleteCommit(r)
    BY <1>3 DEF DeleteCommit, NoChunks
  <1>4. CASE Enqueue(r)
    BY <1>4 DEF Enqueue, rowVars
  <1>5. ASSUME NEW from, NEW to \in {"done", "queued"}, Interrupted(r, from, to),
               to = "queued" => tries[r] > 0
        PROVE  TypeInv'
    BY <1>5 DEF Interrupted, rowVars
  <1>6. CASE Load(r)
    BY <1>6 DEF Load, rowVars, Statuses
  <1>7. ASSUME NEW from, NEW to \in {"marked", "embedded", "failing", "done"},
               JobStep(r, from, to), status' \in Statuses,
               seen' \in [Requests -> Statuses]
        PROVE  TypeInv'
    BY <1>7 DEF JobStep
  <1>8. CASE MarkProcessing(r)
    BY <1>7, <1>8 DEF MarkProcessing, Flushed, Statuses
  <1>9. CASE Store(r)
    BY <1>9 DEF Store, Statuses
  <1>10. CASE Embed(r) \/ EmbedFails(r) \/ MarkFailed(r) \/ Acknowledge(r)
    BY <1>7, <1>10 DEF Embed, EmbedFails, MarkFailed, Acknowledge, Statuses
  <1>11. CASE EnqueueFails(r) \/ HandlerDies(r) \/ StoreFails(r) \/ JobTimesOut(r) \/ JobDies(r)
    BY <1>5, <1>11 DEF EnqueueFails, HandlerDies, StoreFails, JobTimesOut, JobDies
  <1>12. CASE UpdateCommit(r) \/ SyncCommit(r)
    BY <1>1, <1>12 DEF UpdateCommit, SyncCommit
  <1> QED
    BY <1>2, <1>3, <1>4, <1>6, <1>8, <1>9, <1>10, <1>11, <1>12 DEF Progress

-------------------------------------------------------------------------------
(* The step *)

LEMMA NextTypeInv == TypeInv /\ [Next]_vars => TypeInv'
  <1>1. ASSUME TypeInv, UNCHANGED vars
        PROVE  TypeInv'
    BY <1>1 DEF TypeInv, TypeOK, Granted, vars, rowVars, jobVars
  <1> QED
    BY <1>1, ArriveTypeInv, ProgressTypeInv DEF Next

\* Chunks enter the index of a present row only, and leave with it.
LEMMA NextNoOrphans == TypeInv /\ NoOrphanChunks /\ [Next]_vars => NoOrphanChunks'
  <1> SUFFICES ASSUME TypeInv, NoOrphanChunks, [Next]_vars
               PROVE  NoOrphanChunks'
    OBVIOUS
  <1> USE DEF NoOrphanChunks, NoChunks
  <1>1. CASE UNCHANGED vars
    BY <1>1 DEF vars, rowVars
  <1>2. ASSUME NEW r \in Requests, Arrive(r)
        PROVE  NoOrphanChunks'
    BY <1>2 DEF Arrive, CreateDocument, UploadDocument, SyncNewDocument, Insert,
                UpdateRead, SyncRead, ProcessRead, DeleteRead, Read, Enter, rowVars
  <1>3. ASSUME NEW r \in Requests, Progress(r)
        PROVE  NoOrphanChunks'
    <2>1. CASE UpdateCommit(r) \/ SyncCommit(r)
      BY <2>1 DEF UpdateCommit, SyncCommit, Replace, rowVars
    <2>2. CASE UpdateClear(r) \/ DeleteCommit(r)
      BY <2>2 DEF UpdateClear, DeleteCommit
    <2>3. CASE Store(r)
      BY <2>3 DEF Store
    <2>4. CASE \/ Enqueue(r) \/ Load(r) \/ MarkProcessing(r) \/ Embed(r)
               \/ EmbedFails(r) \/ MarkFailed(r) \/ Acknowledge(r)
      BY <2>4 DEF Enqueue, Load, MarkProcessing, Embed, EmbedFails, MarkFailed,
                  Acknowledge, JobStep, rowVars
    <2>5. CASE \/ EnqueueFails(r) \/ HandlerDies(r) \/ StoreFails(r)
               \/ JobTimesOut(r) \/ JobDies(r)
      BY <2>5 DEF EnqueueFails, HandlerDies, StoreFails, JobTimesOut, JobDies,
                  Interrupted, rowVars
    <2> QED
      BY <1>3, <2>1, <2>2, <2>3, <2>4, <2>5 DEF Progress
  <1> QED
    BY <1>1, <1>2, <1>3 DEF Next

LEMMA NextLoaded == TypeInv /\ Loaded /\ [Next]_vars => Loaded'
  <1> SUFFICES ASSUME TypeInv, Loaded, [Next]_vars
               PROVE  Loaded'
    OBVIOUS
  <1> USE DEF Loaded
  <1>a. /\ pc \in [Requests -> {"idle", "updating", "clearing", "syncing", "deleting",
                                "asked", "queued", "done"} \cup Running]
        /\ text \in [Requests -> Requests \cup {NoContent}]
    BY DEF TypeInv, TypeOK
  <1>1. CASE UNCHANGED vars
    BY <1>1 DEF vars, rowVars, jobVars
  <1>2. ASSUME NEW r \in Requests, Arrive(r)
        PROVE  Loaded'
    <2>1. ASSUME NEW from, NEW to \in {"done", "asked"}, Insert(r, from, to)
          PROVE  Loaded'
      BY <1>a, <2>1 DEF Insert, Enter, At, Running
    <2>2. ASSUME NEW to \in {"updating", "syncing", "asked", "deleting"}, Read(r, to)
          PROVE  Loaded'
      BY <1>a, <2>2 DEF Read, Enter, At, rowVars, Running
    <2> QED
      BY <1>2, <2>1, <2>2 DEF Arrive, CreateDocument, UploadDocument, SyncNewDocument,
                              UpdateRead, SyncRead, ProcessRead, DeleteRead
  <1>3. ASSUME NEW r \in Requests, Progress(r)
        PROVE  Loaded'
    <2>1. ASSUME NEW from, NEW to \in {"clearing", "asked"}, Replace(r, from, to)
          PROVE  Loaded'
      BY <1>a, <2>1 DEF Replace, At, rowVars, jobVars, Running
    <2>2. CASE UpdateClear(r) \/ Enqueue(r)
      BY <1>a, <2>2 DEF UpdateClear, Enqueue, At, rowVars, jobVars, Running
    <2>3. CASE DeleteCommit(r)
      BY <1>a, <2>3 DEF DeleteCommit, At, jobVars, Running
    <2>4. CASE Load(r)
      BY <1>a, <2>4 DEF Load, At, rowVars, Running
    <2>5. CASE MarkProcessing(r) \/ Embed(r) \/ EmbedFails(r) \/ MarkFailed(r) \/ Acknowledge(r)
      BY <1>a, <2>5 DEF MarkProcessing, Embed, EmbedFails, MarkFailed, Acknowledge,
                        JobStep, At, Running
    <2>6. CASE Store(r)
      BY <1>a, <2>6 DEF Store, At, jobVars, Running
    <2>7. CASE \/ EnqueueFails(r) \/ HandlerDies(r) \/ StoreFails(r)
               \/ JobTimesOut(r) \/ JobDies(r)
      BY <1>a, <2>7 DEF EnqueueFails, HandlerDies, StoreFails, JobTimesOut, JobDies,
                        Interrupted, At, rowVars, jobVars, Running
    <2> QED
      BY <1>3, <2>1, <2>2, <2>3, <2>4, <2>5, <2>6, <2>7 DEF Progress, UpdateCommit, SyncCommit
  <1> QED
    BY <1>1, <1>2, <1>3 DEF Next

\* A job that leaves its work for good, and is not ended by a fault, writes another
\* status; no other step writes "processing" or takes a job off its work.
LEMMA NextProcessing ==
  TypeInv /\ Loaded /\ ProcessingIsWorkedOn /\ [Next]_vars => ProcessingIsWorkedOn'
  <1> DEFINE Kept(q) == Working(q) \/ (q \in hit /\ text[q] # NoContent)
  <1> SUFFICES ASSUME TypeInv, Loaded, ProcessingIsWorkedOn, [Next]_vars,
                      row' = "present", status' = "processing"
               PROVE  \E q \in Requests : Kept(q)'
    BY DEF ProcessingIsWorkedOn
  <1>0. ASSUME row = "present", status = "processing"
        PROVE  \E q \in Requests : Kept(q)
    BY <1>0 DEF ProcessingIsWorkedOn
  <1>a. /\ pc \in [Requests -> {"idle", "updating", "clearing", "syncing", "deleting",
                                "asked", "queued", "done"} \cup Running]
        /\ text \in [Requests -> Requests \cup {NoContent}]
        /\ NoContent \notin Requests
        /\ \A q \in Requests : pc[q] \in Running => text[q] # NoContent
    BY KnowledgeDocsAssumption DEF TypeInv, TypeOK, Loaded
  <1>1. CASE UNCHANGED vars
    BY <1>0, <1>1 DEF vars, rowVars, jobVars, Working
  \* A step of r that keeps row, status and texts, and keeps r at work if it was.
  <1>b. ASSUME row = "present", status = "processing", NEW r \in Requests, NEW to,
               pc' = [pc EXCEPT ![r] = to], UNCHANGED text, hit \subseteq hit',
               Working(r) => Kept(r)'
        PROVE  \E q \in Requests : Kept(q)'
    <2>1. PICK q \in Requests : Kept(q)
      BY <1>0, <1>b
    <2>2. CASE q = r
      BY <1>b, <2>1, <2>2
    <2>3. CASE q # r
      <3>1. pc'[q] = pc[q] /\ text'[q] = text[q] /\ (q \in hit => q \in hit')
        BY <1>a, <1>b, <2>3
      <3>2. Kept(q)'
        BY <2>1, <3>1, Zenon DEF Working
      <3> QED
        BY <3>2
    <2> QED
      BY <2>2, <2>3
  <1>2. ASSUME NEW r \in Requests, Arrive(r)
        PROVE  \E q \in Requests : Kept(q)'
    <2>1. ASSUME NEW from, NEW to, Insert(r, from, to)
          PROVE  FALSE
      BY <2>1 DEF Insert
    <2>2. ASSUME NEW to, Read(r, to)
          PROVE  \E q \in Requests : Kept(q)'
      <3>1. /\ row = "present" /\ status = "processing" /\ ~Working(r)
            /\ pc' = [pc EXCEPT ![r] = to] /\ UNCHANGED <<text, hit>>
        BY <2>2 DEF Read, Enter, At, rowVars, Working
      <3> QED
        BY <1>b, <3>1
    <2> QED
      BY <1>2, <2>1, <2>2 DEF Arrive, CreateDocument, UploadDocument, SyncNewDocument,
                              UpdateRead, SyncRead, ProcessRead, DeleteRead
  <1>3. ASSUME NEW r \in Requests, Progress(r)
        PROVE  \E q \in Requests : Kept(q)'
    \* A step of r that does not end r's work.
    <2>0. ASSUME row = "present", status = "processing", NEW to,
                 pc' = [pc EXCEPT ![r] = to], UNCHANGED <<text, hit>>,
                 Working(r) => to \in {"queued", "loaded", "marked", "embedded", "failing"}
          PROVE  \E q \in Requests : Kept(q)'
      <3>1. pc'[r] = to
        BY <1>a, <2>0
      <3> QED
        BY <1>b, <2>0, <3>1 DEF Working
    <2>1. CASE UpdateCommit(r) \/ SyncCommit(r)
      BY <2>0, <2>1 DEF UpdateCommit, SyncCommit, Replace, At, Flushed, Continue, rowVars,
                        jobVars, Working
    <2>2. CASE UpdateClear(r)
      BY <2>0, <2>2 DEF UpdateClear, At, Continue, rowVars, jobVars, Working
    <2>3. CASE DeleteCommit(r)
      BY <2>3 DEF DeleteCommit
    <2>4. CASE Enqueue(r)
      BY <2>0, <2>4 DEF Enqueue, At, Continue, rowVars
    <2>5. CASE Load(r)
      <3>1. row = "present" /\ status = "processing" /\ pc'[r] = "loaded" /\ text'[r] = content
        BY <1>a, <2>5 DEF Load, At, rowVars
      <3>2. content # NoContent
        BY <1>a, <3>1 DEF Loaded
      <3> QED
        BY <3>1, <3>2 DEF Working
    <2>6. CASE MarkProcessing(r)
      <3>1. pc[r] \in Running /\ pc'[r] = "marked" /\ text'[r] = text[r]
        BY <1>a, <2>6 DEF MarkProcessing, JobStep, At, Running
      <3> QED
        BY <1>a, <3>1 DEF Working
    <2>7. CASE Embed(r) \/ EmbedFails(r)
      BY <2>0, <2>7 DEF Embed, EmbedFails, JobStep, At, Continue
    <2>8. CASE Acknowledge(r)
      BY <2>0, <2>8 DEF Acknowledge, JobStep, At, Continue, Working
    <2>9. CASE Store(r) \/ MarkFailed(r)
      BY <2>9 DEF Store, MarkFailed, JobStep
    <2>10. ASSUME NEW from, NEW to, Interrupted(r, from, to), to \in {"done", "queued"}
           PROVE  \E q \in Requests : Kept(q)'
      <3>1. /\ row = "present" /\ status = "processing"
            /\ pc' = [pc EXCEPT ![r] = to] /\ pc'[r] = to
            /\ UNCHANGED text /\ hit \subseteq hit'
            /\ to = "done" => r \in hit'
        BY <1>a, <2>10 DEF Interrupted, At, rowVars, jobVars
      <3> QED
        BY <1>b, <2>10, <3>1 DEF Working
    <2>11. CASE \/ EnqueueFails(r) \/ HandlerDies(r) \/ StoreFails(r)
                \/ JobTimesOut(r) \/ JobDies(r)
      BY <2>10, <2>11 DEF EnqueueFails, HandlerDies, StoreFails, JobTimesOut, JobDies
    <2> QED
      BY <1>3, <2>1, <2>2, <2>3, <2>4, <2>5, <2>6, <2>7, <2>8, <2>9, <2>11 DEF Progress
  <1> QED
    BY <1>1, <1>2, <1>3 DEF Next

LEMMA NextMarked == TypeInv /\ Marked /\ [Next]_vars => Marked'
  <1> SUFFICES ASSUME TypeInv, Marked, [Next]_vars
               PROVE  Marked'
    OBVIOUS
  <1> USE DEF Marked
  <1>a. /\ pc \in [Requests -> {"idle", "updating", "clearing", "syncing", "deleting",
                                "asked", "queued", "done"} \cup Running]
        /\ text \in [Requests -> Requests \cup {NoContent}]
    BY DEF TypeInv, TypeOK
  <1>1. CASE UNCHANGED vars
    BY <1>1 DEF vars, rowVars, jobVars
  <1>2. ASSUME NEW r \in Requests, Arrive(r)
        PROVE  Marked'
    <2>1. ASSUME NEW from, NEW to \in {"done", "asked"}, Insert(r, from, to)
          PROVE  Marked'
      BY <1>a, <2>1 DEF Insert, Enter, At, Running
    <2>2. ASSUME NEW to \in {"updating", "syncing", "asked", "deleting"}, Read(r, to)
          PROVE  Marked'
      BY <1>a, <2>2 DEF Read, Enter, At, rowVars, Running
    <2> QED
      BY <1>2, <2>1, <2>2 DEF Arrive, CreateDocument, UploadDocument, SyncNewDocument,
                              UpdateRead, SyncRead, ProcessRead, DeleteRead
  <1>3. ASSUME NEW r \in Requests, Progress(r)
        PROVE  Marked'
    <2>1. ASSUME NEW from, NEW to \in {"clearing", "asked"}, Replace(r, from, to)
          PROVE  Marked'
      BY <1>a, <2>1 DEF Replace, At, rowVars, jobVars, Running
    <2>2. CASE UpdateClear(r) \/ DeleteCommit(r) \/ Enqueue(r)
      BY <1>a, <2>2 DEF UpdateClear, DeleteCommit, Enqueue, At, rowVars, jobVars, Running
    <2>3. CASE Load(r)
      BY <1>a, <2>3 DEF Load, At, rowVars, Running
    <2>4. CASE MarkProcessing(r) \/ Embed(r) \/ EmbedFails(r) \/ MarkFailed(r) \/ Acknowledge(r)
      BY <1>a, <2>4 DEF MarkProcessing, Embed, EmbedFails, MarkFailed, Acknowledge,
                        JobStep, At, Running
    <2>5. CASE Store(r)
      BY <1>a, <2>5 DEF Store, At, jobVars, Running
    <2>6. CASE \/ EnqueueFails(r) \/ HandlerDies(r) \/ StoreFails(r)
               \/ JobTimesOut(r) \/ JobDies(r)
      BY <1>a, <2>6 DEF EnqueueFails, HandlerDies, StoreFails, JobTimesOut, JobDies,
                        Interrupted, At, rowVars, jobVars, Running
    <2> QED
      BY <1>3, <2>1, <2>2, <2>3, <2>4, <2>5, <2>6 DEF Progress, UpdateCommit, SyncCommit
  <1> QED
    BY <1>1, <1>2, <1>3 DEF Next

LEMMA NextInv == Inv /\ [Next]_vars => Inv'
  BY NextTypeInv, NextNoOrphans, NextProcessing, NextMarked, NextLoaded DEF Inv

LEMMA SpecInv == Spec => []Inv
  BY InitInv, NextInv, PTL DEF Spec

-------------------------------------------------------------------------------
(* The theorems *)

\* The row, the index and the requests keep their types: no job is executed more
\* often than arq grants.
THEOREM Typing == Spec => []TypeOK
  <1>1. Inv => TypeOK
    BY DEF Inv, TypeInv
  <1> QED
    BY <1>1, SpecInv, PTL

\* The index never holds chunks of a document that is gone.
THEOREM Orphans == Spec => []NoOrphanChunks
  <1>1. Inv => NoOrphanChunks
    BY DEF Inv
  <1> QED
    BY <1>1, SpecInv, PTL

\* A document in "processing" has a job at work, or one that is to run again, unless
\* a fault has ended for good a job that had read it.
THEOREM Processing == Spec => []ProcessingIsWorkedOn
  <1>1. Inv => ProcessingIsWorkedOn
    BY DEF Inv
  <1> QED
    BY <1>1, SpecInv, PTL

\* Every way in which the index comes to hold chunks of an older content.
LEMMA OutdatedStep ==
  ASSUME Inv, Next, ~Outdated, Outdated', content' = content
  PROVE  \E r \in replaced : pc[r] = "embedded" /\ pc'[r] = "stored"
  <1>a. /\ pc \in [Requests -> {"idle", "updating", "clearing", "syncing", "deleting",
                                "asked", "queued", "done"} \cup Running]
        /\ chunks \in [Requests -> Nat]
        /\ TypeInv
        /\ Marked
        /\ NoOrphanChunks
    BY DEF Inv, TypeInv, TypeOK
  <1>1. PICK v \in Requests : row' = "present" /\ v # content /\ chunks'[v] > 0
    BY DEF Outdated
  <1>2. ~(chunks[v] > 0)
    <2>1. CASE row = "present"
      BY <2>1, <1>1 DEF Outdated
    <2>2. CASE row # "present"
      BY <2>2, <1>a DEF NoOrphanChunks, NoChunks
    <2> QED
      BY <2>1, <2>2
  <1>3. chunks'[v] # chunks[v]
    BY <1>1, <1>2
  <1>4. ASSUME NEW r \in Requests, Arrive(r)
        PROVE  FALSE
    BY <1>3, <1>4 DEF Arrive, CreateDocument, UploadDocument, SyncNewDocument, Insert,
                      UpdateRead, SyncRead, ProcessRead, DeleteRead, Read, Enter
  <1>5. ASSUME NEW r \in Requests, Progress(r)
        PROVE  \E q \in replaced : pc[q] = "embedded" /\ pc'[q] = "stored"
    <2>1. CASE Store(r)
      <3>1. row = "present" /\ chunks' = [chunks EXCEPT ![text[r]] = @ + 1]
        BY <1>3, <2>1 DEF Store
      <3>2. text[r] = v
        BY <1>a, <1>3, <3>1
      <3>3. pc[r] = "embedded" /\ pc'[r] = "stored"
        BY <1>a, <2>1 DEF Store, At
      <3>4. r \in replaced
        BY <1>a, <1>1, <3>2, <3>3 DEF Marked, Running
      <3> QED
        BY <3>3, <3>4
    <2>2. CASE UpdateCommit(r) \/ SyncCommit(r)
      BY <1>3, <2>2 DEF UpdateCommit, SyncCommit, Replace
    <2>3. CASE UpdateClear(r) \/ DeleteCommit(r)
      BY <1>1, <2>3 DEF UpdateClear, DeleteCommit, NoChunks
    <2>4. CASE \/ Enqueue(r) \/ Load(r) \/ MarkProcessing(r) \/ Embed(r)
               \/ EmbedFails(r) \/ MarkFailed(r) \/ Acknowledge(r)
      BY <1>3, <2>4 DEF Enqueue, Load, MarkProcessing, Embed, EmbedFails, MarkFailed,
                        Acknowledge, JobStep
    <2>5. CASE \/ EnqueueFails(r) \/ HandlerDies(r) \/ StoreFails(r)
               \/ JobTimesOut(r) \/ JobDies(r)
      BY <1>3, <2>5 DEF EnqueueFails, HandlerDies, StoreFails, JobTimesOut, JobDies, Interrupted
    <2> QED
      BY <1>5, <2>1, <2>2, <2>3, <2>4, <2>5 DEF Progress
  <1> QED
    BY <1>4, <1>5 DEF Next

\* The index comes to hold chunks of an older content through an update's first
\* half, a store sync or a job whose text was replaced, and in no other way.
THEOREM OutdatedCauses == Spec => OutdatedHasCause
  <1>1. Inv /\ [Next]_vars => OutdatedOnlyBy
    <2>1. UNCHANGED vars => (Outdated' <=> Outdated)
      BY DEF vars, rowVars, Outdated
    <2> QED
      BY <2>1, OutdatedStep DEF OutdatedOnlyBy
  <1> QED
    BY <1>1, SpecInv, PTL DEF Spec, OutdatedHasCause

-------------------------------------------------------------------------------
(* Requests made one after the other *)

Busy(r) == pc[r] \notin {"idle", "done"}

\* At most one request is under way.
Alone == \A q, r \in Requests : Busy(q) /\ Busy(r) => q = r

\* What the request under way knows of the row, and has made of it.
Stage(r) == /\ Busy(r) => row = "present"
            /\ pc[r] \in {"updating", "syncing", "loaded"} => seen[r] = status
            /\ pc[r] = "syncing" => source = "store"
            /\ pc[r] = "clearing" => status = "pending"
            /\ pc[r] \in {"marked", "embedded", "failing"} => status = "processing"
            /\ pc[r] = "stored" => status = "completed"
            /\ pc[r] \in Running => text[r] = content

\* The index fits the row: what is still missing, the request under way will do.
Index == /\ content \in Requests
         /\ status = "completed" => chunks[content] > 0
         /\ status = "pending" =>
               \/ chunks = NoChunks
               \/ \E r \in Requests : pc[r] \in {"clearing", "asked", "queued", "loaded"}
         /\ Outdated => source = "store" \/ \E r \in Requests : pc[r] = "clearing"

Sequential == ~overlap /\ hit = {} =>
                 /\ Alone
                 /\ \A r \in Requests : Stage(r)
                 /\ row = "present" => Index

\* A step of the only request under way is right if it is for that request.
LEMMA OneMoves ==
  ASSUME TypeInv, NEW r \in Requests, NEW to, pc' = [pc EXCEPT ![r] = to],
         \A q \in Requests : q # r => ~Busy(q),
         Stage(r)'
  PROVE  Alone' /\ \A q \in Requests : Stage(q)'
  <1>1. pc'[r] = to /\ \A q \in Requests : q # r => pc'[q] = pc[q]
    BY DEF TypeInv, TypeOK
  <1>2. \A q \in Requests : q # r => ~(Busy(q)')
    BY <1>1 DEF Busy
  <1>3. Alone'
    BY <1>2 DEF Alone
  <1>4. ASSUME NEW q \in Requests, q # r
        PROVE  Stage(q)'
    BY <1>2, <1>4 DEF Stage, Busy, Running
  <1> QED
    BY <1>3, <1>4

LEMMA ArriveSequential ==
  ASSUME TypeInv, NoOrphanChunks, Sequential, NEW r \in Requests, Arrive(r)
  PROVE  Sequential'
  <1> SUFFICES ASSUME ~overlap', hit' = {}
               PROVE  Alone' /\ (\A q \in Requests : Stage(q)') /\ (row' = "present" => Index')
    BY DEF Sequential
  <1>1. ASSUME NEW to, Enter(r, to)
        PROVE  /\ pc' = [pc EXCEPT ![r] = to] /\ pc'[r] = to
               /\ \A q \in Requests : ~Busy(q)
               /\ ~overlap /\ hit = {}
               /\ UNCHANGED <<chunks, text>>
    BY <1>1 DEF Enter, At, Busy, TypeInv, TypeOK
  <1>2. ASSUME NEW from, NEW to \in {"done", "asked"}, Insert(r, from, to)
        PROVE  Alone' /\ (\A q \in Requests : Stage(q)') /\ (row' = "present" => Index')
    <2>1. /\ row = "absent" /\ row' = "present" /\ content' = r /\ status' = "pending"
          /\ Enter(r, to)
      BY <1>2 DEF Insert
    <2>2. Stage(r)'
      BY <1>1, <2>1 DEF Stage, Busy, Running
    <2>3. chunks' = NoChunks
      BY <1>1, <2>1 DEF NoOrphanChunks
    <2>4. Index'
      BY <2>1, <2>3 DEF Index, Outdated, NoChunks
    <2> QED
      BY <1>1, <2>1, <2>2, <2>4, OneMoves
  <1>3. ASSUME NEW to \in {"updating", "syncing", "asked", "deleting"}, Read(r, to),
               to = "syncing" => source = "store"
        PROVE  Alone' /\ (\A q \in Requests : Stage(q)') /\ (row' = "present" => Index')
    <2>1. /\ row = "present" /\ UNCHANGED <<row, source, content, status>>
          /\ Enter(r, to) /\ seen'[r] = status
      BY <1>3 DEF Read, rowVars, TypeInv, TypeOK
    <2>2. Stage(r)'
      BY <1>1, <1>3, <2>1 DEF Stage, Busy, Running
    <2>3. Index
      BY <1>1, <2>1 DEF Sequential
    <2>4. \A q \in Requests : pc[q] \notin {"clearing", "asked", "queued", "loaded"}
      BY <1>1, <2>1 DEF Busy
    <2>5. Index'
      BY <1>1, <2>1, <2>3, <2>4 DEF Index, Outdated
    <2> QED
      BY <1>1, <2>1, <2>2, <2>5, OneMoves
  <1> QED
    BY <1>2, <1>3 DEF Arrive, CreateDocument, UploadDocument, SyncNewDocument,
                      UpdateRead, SyncRead, ProcessRead, DeleteRead

LEMMA ProgressSequential ==
  ASSUME TypeInv, Sequential, NEW r \in Requests, Progress(r)
  PROVE  Sequential'
  <1> SUFFICES ASSUME ~overlap', hit' = {}
               PROVE  Alone' /\ (\A q \in Requests : Stage(q)') /\ (row' = "present" => Index')
    BY DEF Sequential
  <1> USE DEF At
  <1>1. /\ pc \in [Requests -> {"idle", "updating", "clearing", "syncing", "deleting",
                                "asked", "queued", "done"} \cup Running]
        /\ chunks \in [Requests -> Nat] /\ text \in [Requests -> Requests \cup {NoContent}]
        /\ seen \in [Requests -> Statuses]
    BY DEF TypeInv, TypeOK
  <1>2. ASSUME NEW from, Interrupted(r, from, "done")
        PROVE  FALSE
    BY <1>2 DEF Interrupted
  <1>3. /\ ~(EnqueueFails(r) \/ HandlerDies(r) \/ StoreFails(r) \/ JobTimesOut(r))
        /\ JobDies(r) => Interrupted(r, Running, "queued")
    BY <1>2 DEF EnqueueFails, HandlerDies, StoreFails, JobTimesOut, JobDies
  <1>4. Busy(r) /\ ~overlap /\ hit = {}
    BY <1>3 DEF Progress, Interrupted, Running, UpdateCommit, SyncCommit, Replace, UpdateClear, DeleteCommit, Enqueue,
                Load, MarkProcessing, Embed, EmbedFails, Store, MarkFailed, Acknowledge,
                JobStep, Continue, Busy
  <1>5. /\ Alone /\ Stage(r) /\ row = "present" /\ Index
        /\ \A q \in Requests : q # r => ~Busy(q)
    BY <1>4 DEF Sequential, Alone, Stage
  <1>6. \A q \in Requests : q # r => pc[q] \notin {"clearing", "asked", "queued", "loaded"}
    BY <1>5 DEF Busy
  \* What remains to be shown of a step that takes r to its next control point.
  <1>7. ASSUME NEW to, pc' = [pc EXCEPT ![r] = to], Stage(r)', row' = "present" => Index'
        PROVE  Alone' /\ (\A q \in Requests : Stage(q)') /\ (row' = "present" => Index')
    BY <1>5, <1>7, OneMoves
  <1>8. ASSUME NEW from \in {"updating", "syncing"}, NEW to \in {"clearing", "asked"},
               Replace(r, from, to), from = "updating" => to = "clearing",
               from = "syncing" => to = "asked"
        PROVE  Alone' /\ (\A q \in Requests : Stage(q)') /\ (row' = "present" => Index')
    <2>1. /\ pc[r] = from /\ pc' = [pc EXCEPT ![r] = to] /\ pc'[r] = to
          /\ content' = r /\ UNCHANGED <<row, source, chunks>>
          /\ status' = Flushed("pending", seen[r], status)
      BY <1>1, <1>5, <1>8 DEF Replace
    <2>2. status' = "pending"
      BY <1>5, <1>8, <2>1 DEF Stage, Flushed
    <2>3. Stage(r)'
      BY <1>5, <1>8, <2>1, <2>2 DEF Stage, Busy, Running
    <2>4. Index'
      BY <1>5, <1>8, <2>1, <2>2 DEF Index, Stage
    <2> QED
      BY <1>7, <2>1, <2>3, <2>4
  <1>9. CASE UpdateClear(r)
    <2>1. /\ pc[r] = "clearing" /\ pc' = [pc EXCEPT ![r] = "done"] /\ pc'[r] = "done"
          /\ chunks' = NoChunks /\ UNCHANGED <<row, source, content, status>>
      BY <1>1, <1>9 DEF UpdateClear, rowVars
    <2>2. Stage(r)'
      BY <2>1 DEF Stage, Busy, Running
    <2>3. Index'
      BY <1>5, <2>1 DEF Index, Stage, Outdated, NoChunks
    <2> QED
      BY <1>7, <2>1, <2>2, <2>3
  <1>10. CASE DeleteCommit(r)
    <2>1. pc' = [pc EXCEPT ![r] = "done"] /\ pc'[r] = "done" /\ row' = "deleted"
      BY <1>1, <1>10 DEF DeleteCommit
    <2>2. Stage(r)'
      BY <2>1 DEF Stage, Busy, Running
    <2> QED
      BY <1>7, <2>1, <2>2
  <1>11. CASE Enqueue(r)
    <2>1. /\ pc[r] = "asked" /\ pc' = [pc EXCEPT ![r] = "queued"] /\ pc'[r] = "queued"
          /\ UNCHANGED <<row, source, content, status, chunks>>
      BY <1>1, <1>11 DEF Enqueue, rowVars
    <2>2. Stage(r)'
      BY <1>5, <2>1 DEF Stage, Busy, Running
    <2>3. Index'
      BY <1>5, <1>6, <2>1 DEF Index, Outdated
    <2> QED
      BY <1>7, <2>1, <2>2, <2>3
  <1>12. CASE Load(r)
    <2>1. /\ pc[r] = "queued" /\ pc' = [pc EXCEPT ![r] = "loaded"] /\ pc'[r] = "loaded"
          /\ text'[r] = content /\ seen'[r] = status
          /\ UNCHANGED <<row, source, content, status, chunks>>
      BY <1>1, <1>5, <1>12 DEF Load, rowVars
    <2>2. Stage(r)'
      BY <1>5, <2>1 DEF Stage, Busy, Running
    <2>3. Index'
      BY <1>5, <1>6, <2>1 DEF Index, Outdated
    <2> QED
      BY <1>7, <2>1, <2>2, <2>3
  <1>13. CASE MarkProcessing(r)
    <2>1. /\ pc[r] = "loaded" /\ pc' = [pc EXCEPT ![r] = "marked"] /\ pc'[r] = "marked"
          /\ UNCHANGED <<row, source, content, chunks, text>>
          /\ status' = Flushed("processing", seen[r], status)
      BY <1>1, <1>5, <1>13 DEF MarkProcessing, JobStep
    <2>2. status' = "processing"
      BY <1>5, <2>1 DEF Stage, Flushed
    <2>3. Stage(r)'
      BY <1>5, <2>1, <2>2 DEF Stage, Busy, Running
    <2>4. Index'
      BY <1>5, <1>6, <2>1, <2>2 DEF Index, Outdated
    <2> QED
      BY <1>7, <2>1, <2>3, <2>4
  <1>14. CASE Embed(r) \/ EmbedFails(r)
    <2>1. PICK to \in {"embedded", "failing"} :
             /\ pc[r] = "marked" /\ pc' = [pc EXCEPT ![r] = to] /\ pc'[r] = to
             /\ UNCHANGED <<row, source, content, status, chunks, text>>
      BY <1>1, <1>14 DEF Embed, EmbedFails, JobStep
    <2>2. Stage(r)'
      BY <1>5, <2>1 DEF Stage, Busy, Running
    <2>3. Index'
      BY <1>5, <1>6, <2>1 DEF Index, Outdated, Stage
    <2> QED
      BY <1>7, <2>1, <2>2, <2>3
  <1>15. CASE Store(r)
    <2>1. /\ pc[r] = "embedded" /\ pc' = [pc EXCEPT ![r] = "stored"] /\ pc'[r] = "stored"
          /\ text[r] = content /\ status' = "completed"
          /\ chunks' = [chunks EXCEPT ![content] = @ + 1]
          /\ UNCHANGED <<row, source, content, text>>
      BY <1>1, <1>5, <1>15 DEF Store, jobVars, Stage, Running
    <2>2. Stage(r)'
      BY <1>5, <2>1 DEF Stage, Busy, Running
    <2>3. content \in Requests
      BY <1>5 DEF Index
    <2>4. chunks'[content] > 0
      BY <1>1, <2>1, <2>3
    <2>5. Outdated' => Outdated
      BY <1>1, <2>1, <2>3 DEF Outdated
    <2>6. Index'
      BY <1>5, <1>6, <2>1, <2>3, <2>4, <2>5 DEF Index
    <2> QED
      BY <1>7, <2>1, <2>2, <2>6
  <1>16. CASE MarkFailed(r)
    <2>1. /\ pc[r] = "failing" /\ pc' = [pc EXCEPT ![r] = "done"] /\ pc'[r] = "done"
          /\ status' = "failed" /\ UNCHANGED <<row, source, content, chunks>>
      BY <1>1, <1>5, <1>16 DEF MarkFailed, JobStep
    <2>2. Stage(r)'
      BY <2>1 DEF Stage, Busy, Running
    <2>3. Index'
      BY <1>5, <1>6, <2>1 DEF Index, Outdated
    <2> QED
      BY <1>7, <2>1, <2>2, <2>3
  <1>17. CASE Acknowledge(r)
    <2>1. /\ pc[r] = "stored" /\ pc' = [pc EXCEPT ![r] = "done"] /\ pc'[r] = "done"
          /\ UNCHANGED <<row, source, content, status, chunks>>
      BY <1>1, <1>17 DEF Acknowledge, JobStep
    <2>2. Stage(r)'
      BY <2>1 DEF Stage, Busy, Running
    <2>3. Index'
      BY <1>5, <1>6, <2>1 DEF Index, Outdated, Stage
    <2> QED
      BY <1>7, <2>1, <2>2, <2>3
  \* The index lacks or holds what it did before the execution that died.
  <1>18. CASE JobDies(r)
    <2>1. /\ pc[r] \in Running /\ pc' = [pc EXCEPT ![r] = "queued"] /\ pc'[r] = "queued"
          /\ UNCHANGED <<row, source, content, status, chunks>>
      BY <1>1, <1>3, <1>18 DEF Interrupted, rowVars
    <2>2. Stage(r)'
      BY <1>5, <2>1 DEF Stage, Busy, Running
    <2>3. Index'
      BY <1>5, <1>6, <2>1 DEF Index, Outdated, Running
    <2> QED
      BY <1>7, <2>1, <2>2, <2>3
  <1> QED
    BY <1>3, <1>8, <1>9, <1>10, <1>11, <1>12, <1>13, <1>14, <1>15, <1>16, <1>17, <1>18
    DEF Progress, UpdateCommit, SyncCommit

LEMMA NextSequential ==
  TypeInv /\ NoOrphanChunks /\ Sequential /\ [Next]_vars => Sequential'
  <1>1. ASSUME Sequential, UNCHANGED vars
        PROVE  Sequential'
    BY <1>1 DEF vars, rowVars, jobVars, Sequential, Alone, Stage, Busy, Index, Outdated
  <1> QED
    BY <1>1, ArriveSequential, ProgressSequential DEF Next

\* Requests made one after the other, none ended by a fault, leave an index that fits the
\* row: the status of a document means what the staff read in it, and old chunks stay
\* only where a store sync left them (knowledge_service.py, process_document; kb.py).
THEOREM SequentialUse == Spec => []SequentialUseIndexes
  <1>1. Init => Sequential
    BY DEF Init, Sequential, Alone, Stage, Busy, Running
  <1>2. Sequential => SequentialUseIndexes
    <2> SUFFICES ASSUME Sequential, ~overlap, hit = {}, Quiet, row = "present"
                 PROVE  /\ status = "completed" => chunks[content] > 0
                        /\ status = "pending" => chunks = NoChunks
                        /\ Outdated => source = "store"
      BY DEF SequentialUseIndexes
    <2>1. \A r \in Requests : pc[r] \notin {"clearing", "asked", "queued", "loaded"}
      BY DEF Quiet
    <2> QED
      BY <2>1 DEF Sequential, Index
  <1>3. Inv => TypeInv /\ NoOrphanChunks
    BY DEF Inv
  <1> QED
    BY <1>1, <1>2, <1>3, NextSequential, SpecInv, PTL DEF Spec
===============================================================================
