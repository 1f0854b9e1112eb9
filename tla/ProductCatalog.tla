----------------------------- MODULE ProductCatalog -----------------------------
(***************************************************************************)
(* The local copy of the store's products: webhooks, the staff's full sync *)
(* and deletion, and the embedding tasks that run in the API process after *)
(* the response.                                                           *)
(*                                                                         *)
(* Shopify delivers webhooks in any order, more than once, or never: one   *)
(* that is refused too often just stays on its way in the model.           *)
(* A handler reads the row, compares hashes and commits in a later step;   *)
(* the ORM writes only the columns that differ from what it loaded.  The   *)
(* tasks of one request run one after the other, and one that raises takes *)
(* the rest with it.                                                       *)
(*                                                                         *)
(* A product's data is its version in the store; of its columns the model  *)
(* keeps the title and the hash.  Text and vectors are named by version.   *)
(***************************************************************************)
EXTENDS Naturals, FiniteSets

CONSTANTS Products,
          Imageless,   \* the products without an image
          Requests,    \* webhook deliveries, syncs and deletions, with their tasks
          NoProduct,
          Earlier,     \* whoever stored the vectors there are at the start
          MaxVersion,  \* bound: changes of one product in the store
          MaxHooks,    \* bound: webhooks on their way
          Faults       \* what may go wrong: see FaultKinds

FaultKinds == {"duplicate",  \* a webhook is delivered again
               "embedding",  \* the embedding model fails
               "database",   \* the transaction that stores the vectors fails
               "crash"}      \* the API process dies

ASSUME ProductCatalogAssumption == /\ Imageless \subseteq Products
                                   /\ NoProduct \notin Products
                                   /\ Earlier \notin Requests
                                   /\ MaxVersion \in Nat \ {0}
                                   /\ MaxHooks \in Nat
                                   /\ Faults \subseteq FaultKinds

Gone == MaxVersion + 1   \* the version of a product deleted from the store

VARIABLES store,    \* each product's version in the store, 0 before it exists
          hooks,    \* webhooks on their way, <<product, version>>
          hash,     \* static_hash of each row: see Digest
          title,    \* title of each row
          status,   \* embedding_status of each row
          vectors,  \* each product's vectors in the index, <<who stored them, version>>
          pc,       \* where each request, then its tasks, is
          source,   \* who makes it
          batch,    \* versions it brings, 0 for none
          seen,     \* the rows as its session has loaded them
          todo,     \* products it still has to embed
          current,  \* the product it embeds
          doomed,   \* the vectors its DELETE has found
          applied,  \* history: newest version applied to each row
          strayed,  \* history: products deleted by staff, or written with an older
                    \* version after a newer one
          mixed,    \* history: products written over a change since the row was loaded
          dropped,  \* history: products with a task that failed, or died before it ran
          raced     \* history: products that changed, or had a task start, under a task

rowVars == <<hash, title, status>>
workVars == <<source, batch, seen>>
taskVars == <<todo, current, doomed>>
causeVars == <<strayed, mixed, dropped, raced>>
vars == <<store, hooks, rowVars, vectors, pc, workVars, taskVars, applied, causeVars>>

-------------------------------------------------------------------------------

\* What compute_static_hash tells apart: without an image the sync hashes None,
\* the webhook the empty string.
Digest(p, v, by) == <<v, IF p \in Imageless THEN by ELSE "image">>

NoRow == [hash |-> <<0, "image">>, title |-> 0, status |-> "pending"]

Title(v) == v % 2   \* a title may come back

Row(p) == [hash |-> hash[p], title |-> title[p], status |-> status[p]]
Version(p) == hash[p][1]
Present(p) == Version(p) # 0
Versions(p) == {v[2] : v \in vectors[p]}

NoBatch == [p \in Products |-> 0]

\* Some products are in the store, with their rows and vectors.
Init == /\ store \in [Products -> {0, 1}]
        /\ hooks = {}
        /\ \E by \in {"hook", "sync"} :
              hash = [p \in Products |-> IF store[p] = 1 THEN Digest(p, 1, by) ELSE NoRow.hash]
        /\ title = [p \in Products |-> Title(store[p])]
        /\ status = [p \in Products |-> IF store[p] = 1 THEN "completed" ELSE NoRow.status]
        /\ vectors = [p \in Products |-> IF store[p] = 1 THEN {<<Earlier, 1>>} ELSE {}]
        /\ pc = [r \in Requests |-> "idle"]
        /\ source = [r \in Requests |-> "none"]
        /\ batch = [r \in Requests |-> NoBatch]
        /\ seen = [r \in Requests |-> [p \in Products |-> NoRow]]
        /\ todo = [r \in Requests |-> {}]
        /\ current = [r \in Requests |-> NoProduct]
        /\ doomed = [r \in Requests |-> {}]
        /\ applied = store
        /\ strayed = {}
        /\ mixed = {}
        /\ dropped = {}
        /\ raced = {}

At(r, from, to) == /\ pc[r] \in from
                   /\ pc' = [pc EXCEPT ![r] = to]

Embedding == {"loaded", "marked", "cleared", "failing"}   \* a task between load and commit

\* The request is over: its session and its tasks are gone.
Release(r) == /\ source' = [source EXCEPT ![r] = "none"]
              /\ batch' = [batch EXCEPT ![r] = NoBatch]
              /\ seen' = [seen EXCEPT ![r] = [p \in Products |-> NoRow]]
              /\ todo' = [todo EXCEPT ![r] = {}]
              /\ current' = [current EXCEPT ![r] = NoProduct]
              /\ doomed' = [doomed EXCEPT ![r] = {}]

(* The store *)

\* Bound: the store rests once no request is left to come.
Open == \E r \in Requests : pc[r] = "idle"

StoreChanges(p) == /\ store[p] < MaxVersion
                   /\ Open /\ Cardinality(hooks) < MaxHooks
                   /\ store' = [store EXCEPT ![p] = @ + 1]
                   /\ hooks' = hooks \cup {<<p, store[p] + 1>>}
                   /\ UNCHANGED <<rowVars, vectors, pc, workVars, taskVars, applied, causeVars>>

StoreDeletes(p) == /\ store[p] \in 1..MaxVersion
                   /\ Open /\ Cardinality(hooks) < MaxHooks
                   /\ store' = [store EXCEPT ![p] = Gone]
                   /\ hooks' = hooks \cup {<<p, Gone>>}
                   /\ UNCHANGED <<rowVars, vectors, pc, workVars, taskVars, applied, causeVars>>

(* Webhooks, sync and deletion: reading *)

\* A request that brings versions b and has selected the rows it is about.
Selected(r, from, b) ==
    /\ source' = [source EXCEPT ![r] = from]
    /\ batch' = [batch EXCEPT ![r] = b]
    /\ seen' = [seen EXCEPT ![r] = [p \in Products |-> IF b[p] # 0 THEN Row(p) ELSE NoRow]]
    /\ UNCHANGED <<rowVars, vectors, taskVars>>

Only(p, v) == [NoBatch EXCEPT ![p] = v]

Taken(m) == hooks' \in {hooks \ {m}} \cup (IF "duplicate" \in Faults THEN {hooks} ELSE {})

\* Mutation: every topic of products/ is written as an update, also a deletion.
HookUpsertAnyTopic(r, m) == /\ At(r, {"idle"}, "writing")
                            /\ Taken(m)
                            /\ Selected(r, "hook", Only(m[1], m[2]))
                            /\ UNCHANGED <<store, applied, causeVars>>

HookUpsert(r, m) == /\ m[2] # Gone
                    /\ At(r, {"idle"}, "writing")
                    /\ Taken(m)
                    /\ Selected(r, "hook", Only(m[1], m[2]))
                    /\ UNCHANGED <<store, applied, causeVars>>

HookDelete(r, m) == /\ m[2] = Gone
                    /\ Present(m[1])
                    /\ At(r, {"idle"}, "deleting")
                    /\ Taken(m)
                    /\ Selected(r, "hook", Only(m[1], Gone))
                    /\ UNCHANGED <<store, applied, causeVars>>

HookDeleteNothing(r, m) == /\ m[2] = Gone
                           /\ ~Present(m[1])
                           /\ At(r, {"idle"}, "done")
                           /\ Taken(m)
                           /\ applied' = [applied EXCEPT ![m[1]] = Gone]
                           /\ UNCHANGED <<store, rowVars, vectors, workVars, taskVars, causeVars>>

StaffDelete(r, p) == /\ Present(p)
                     /\ At(r, {"idle"}, "deleting")
                     /\ Selected(r, "staff", Only(p, Gone))
                     /\ UNCHANGED <<store, hooks, applied, causeVars>>

\* get_all_products
SyncFetch(r) == /\ At(r, {"idle"}, "fetched")
                /\ source' = [source EXCEPT ![r] = "sync"]
                /\ batch' = [batch EXCEPT ![r] = [p \in Products |->
                                IF store[p] = Gone THEN 0 ELSE store[p]]]
                /\ UNCHANGED <<store, hooks, rowVars, vectors, seen, taskVars, applied, causeVars>>

SyncSelect(r) == /\ At(r, {"fetched"}, "writing")
                 /\ Selected(r, "sync", batch[r])
                 /\ UNCHANGED <<store, hooks, applied, causeVars>>

\* The sync selects its rows one by one: any of them maybe later than the rest.
SyncSelectLater(r, p) == /\ source[r] = "sync" /\ batch[r][p] # 0
                         /\ At(r, {"writing"}, "writing")
                         /\ seen' = [seen EXCEPT ![r][p] = Row(p)]
                         /\ UNCHANGED <<store, hooks, rowVars, vectors, source, batch, taskVars,
                                         applied, causeVars>>

(* Webhooks, sync and deletion: writing *)

Brought(r, p) == Digest(p, batch[r][p], source[r])

\* What the request takes for new or changed.
Changed(r) == {p \in Products : batch[r][p] # 0 /\ seen[r][p].hash # Brought(r, p)}

\* The row was inserted, or deleted, by someone else: the flush raises.
Conflict(r) == \E p \in Changed(r) : Present(p) # (seen[r][p].hash # NoRow.hash)

Embeds(r, p) == pc[r] \in Embedding /\ current[r] = p

\* A flush writes a column only if its value differs from the one loaded.
Flushed(new, loaded, now) == IF new = loaded THEN now ELSE new

\* Mutation: the title is not assigned.
TitleKept(r, p) == title[p]

NewTitle(r, p) == IF Present(p) THEN Flushed(Title(batch[r][p]), seen[r][p].title, title[p])
                                ELSE Title(batch[r][p])

NewStatus(r, p) == IF Present(p) THEN Flushed("pending", seen[r][p].status, status[p]) ELSE "pending"

\* Mutation: only new products are embedded.
OnlyNew(r) == {p \in Changed(r) : ~Present(p)}

ToEmbed(r) == Changed(r)

Upsert(r) ==
    LET S == Changed(r) IN
    /\ ~Conflict(r)
    /\ At(r, {"writing"}, "tasks")
    /\ hash' = [p \in Products |-> IF p \in S THEN Brought(r, p) ELSE hash[p]]
    /\ title' = [p \in Products |-> IF p \in S THEN NewTitle(r, p) ELSE title[p]]
    /\ status' = [p \in Products |-> IF p \in S THEN NewStatus(r, p) ELSE status[p]]
    /\ applied' = [p \in Products |->
          IF p \in S /\ batch[r][p] > applied[p] THEN batch[r][p] ELSE applied[p]]
    /\ strayed' = strayed \cup {p \in S : batch[r][p] < applied[p]}
    /\ mixed' = mixed \cup {p \in S : hash[p] # seen[r][p].hash}
    /\ raced' = raced \cup {p \in S : \E x \in Requests : Embeds(x, p)}
    /\ source' = [source EXCEPT ![r] = "none"]
    /\ batch' = [batch EXCEPT ![r] = NoBatch]
    /\ seen' = [seen EXCEPT ![r] = [p \in Products |-> NoRow]]
    /\ todo' = [todo EXCEPT ![r] = ToEmbed(r)]
    /\ UNCHANGED <<store, hooks, vectors, current, doomed, dropped>>

\* Mutation: the webhook is acknowledged all the same.
Acknowledged(r) == UNCHANGED hooks

\* Shopify delivers a webhook again that ended in an error; for a sync the
\* whole transaction is lost.
GivenBack(r) == hooks' = hooks \cup
    (IF source[r] = "hook" THEN {m \in Products \X (1..Gone) : batch[r][m[1]] = m[2]} ELSE {})

UpsertFails(r) == /\ Conflict(r)
                  /\ At(r, {"writing"}, "done")
                  /\ GivenBack(r)
                  /\ Release(r)
                  /\ UNCHANGED <<store, rowVars, vectors, applied, causeVars>>

\* The ORM and the foreign key delete the vectors with the row.
DeleteCommit(r) ==
    LET S == {p \in Products : batch[r][p] = Gone} IN
    /\ At(r, {"deleting"}, "done")
    /\ hash' = [p \in Products |-> IF p \in S THEN NoRow.hash ELSE hash[p]]
    /\ title' = [p \in Products |-> IF p \in S THEN NoRow.title ELSE title[p]]
    /\ status' = [p \in Products |-> IF p \in S THEN NoRow.status ELSE status[p]]
    /\ vectors' = [p \in Products |-> IF p \in S THEN {} ELSE vectors[p]]
    /\ IF source[r] = "hook"
       THEN /\ applied' = [p \in Products |-> IF p \in S THEN Gone ELSE applied[p]]
            /\ UNCHANGED strayed
       ELSE strayed' = strayed \cup S /\ UNCHANGED applied
    /\ Release(r)
    /\ UNCHANGED <<store, hooks, mixed, dropped, raced>>

(* The tasks: process_product_embedding *)

TasksDone(r) == /\ todo[r] = {}
                /\ At(r, {"tasks"}, "done")
                /\ Release(r)
                /\ UNCHANGED <<store, hooks, rowVars, vectors, applied, causeVars>>

TaskSkips(r, p) == /\ p \in todo[r]
                   /\ ~Present(p)
                   /\ At(r, {"tasks"}, "tasks")
                   /\ todo' = [todo EXCEPT ![r] = @ \ {p}]
                   /\ UNCHANGED <<store, hooks, rowVars, vectors, workVars, current, doomed,
                                   applied, causeVars>>

Load(r, p) == /\ p \in todo[r]
              /\ Present(p)
              /\ At(r, {"tasks"}, "loaded")
              /\ current' = [current EXCEPT ![r] = p]
              /\ seen' = [seen EXCEPT ![r] = [q \in Products |-> IF q = p THEN Row(p) ELSE NoRow]]
              /\ raced' = raced \cup {q \in {p} : \E x \in Requests : Embeds(x, q)}
              /\ UNCHANGED <<store, hooks, rowVars, vectors, source, batch, todo, doomed,
                              applied, strayed, mixed, dropped>>

\* A step of the running task that leaves rows' data and vectors alone.
TaskStep(r, from, to) == /\ At(r, {from}, to)
                         /\ UNCHANGED <<store, hooks, hash, title, vectors, source, batch,
                                         todo, current, applied, causeVars>>

Known(r) == seen[r][current[r]].status

MarkProcessing(r) ==
    LET p == current[r] IN
    /\ TaskStep(r, "loaded", "marked")
    /\ Present(p) \/ Known(r) = "processing"
    /\ status' = [status EXCEPT ![p] = IF Present(p) THEN Flushed("processing", Known(r), @) ELSE @]
    /\ UNCHANGED <<seen, doomed>>

\* Mutation: the old vectors are deleted in a transaction of their own.
EmbedAndCommitDelete(r) ==
    /\ At(r, {"marked"}, "cleared")
    /\ vectors' = [vectors EXCEPT ![current[r]] = {}]
    /\ UNCHANGED <<store, hooks, rowVars, workVars, taskVars, applied, causeVars>>

\* The vectors are computed, and those in the index deleted, uncommitted.
EmbedAndDelete(r) ==
    /\ TaskStep(r, "marked", "cleared")
    /\ doomed' = [doomed EXCEPT ![r] = vectors[current[r]]]
    /\ UNCHANGED <<status, seen>>

\* A DELETE that waited for this commit does not see the rows it inserted.
Store(r) ==
    LET p == current[r] IN
    /\ At(r, {"cleared"}, "tasks")
    /\ Present(p)
    /\ vectors' = [vectors EXCEPT ![p] = (@ \ doomed[r]) \cup {<<r, seen[r][p].hash[1]>>}]
    /\ status' = [status EXCEPT ![p] = "completed"]
    /\ todo' = [todo EXCEPT ![r] = @ \ {p}]
    /\ current' = [current EXCEPT ![r] = NoProduct]
    /\ doomed' = [doomed EXCEPT ![r] = {}]
    /\ seen' = [seen EXCEPT ![r] = [q \in Products |-> NoRow]]
    /\ UNCHANGED <<store, hooks, hash, title, source, batch, applied, causeVars>>

EmbedFails(r) == /\ "embedding" \in Faults
                 /\ TaskStep(r, "marked", "failing")
                 /\ UNCHANGED <<status, seen, doomed>>

\* The exception leaves the task: the request's other tasks never run.
Raise(r, from) == /\ At(r, from, "done")
                  /\ dropped' = dropped \cup todo[r]
                  /\ Release(r)
                  /\ UNCHANGED <<store, hash, title, vectors, applied, strayed, mixed, raced>>

MarkFailed(r) == /\ Raise(r, {"failing"})
                 /\ status' = [status EXCEPT ![current[r]] = IF Present(current[r]) THEN "failed" ELSE @]
                 /\ UNCHANGED hooks

\* After a failed flush the error handler cannot commit either.
FlushFails(r) == /\ \/ /\ Raise(r, {"loaded", "cleared"})
                       /\ ~Present(current[r])
                       /\ pc[r] = "loaded" => Known(r) # "processing"
                    \/ "database" \in Faults /\ Raise(r, {"cleared"})
                 /\ UNCHANGED <<hooks, status>>

\* With the process die the request and all its tasks.
Crash(r) == /\ "crash" \in Faults
            /\ pc[r] \notin {"idle", "done"}
            /\ Raise(r, {pc[r]})
            /\ IF pc[r] \in {"writing", "deleting"} THEN GivenBack(r) ELSE UNCHANGED hooks
            /\ UNCHANGED status

-------------------------------------------------------------------------------

Shopify == \E p \in Products : StoreChanges(p) \/ StoreDeletes(p)

Request(r) == \/ \E m \in hooks : HookUpsert(r, m) \/ HookDelete(r, m) \/ HookDeleteNothing(r, m)
              \/ \E p \in Products : StaffDelete(r, p) \/ SyncSelectLater(r, p)
              \/ SyncFetch(r) \/ SyncSelect(r)
              \/ Upsert(r) \/ UpsertFails(r) \/ DeleteCommit(r)

Task(r) == \/ TasksDone(r) \/ \E p \in todo[r] : TaskSkips(r, p) \/ Load(r, p)
           \/ MarkProcessing(r) \/ EmbedAndDelete(r) \/ Store(r)
           \/ EmbedFails(r) \/ MarkFailed(r) \/ FlushFails(r)

Next == Shopify \/ \E r \in Requests : Request(r) \/ Task(r) \/ Crash(r)

Spec == Init /\ [][Next]_vars

-------------------------------------------------------------------------------
(* Properties *)

Statuses == {"pending", "processing", "completed", "failed"}
Digests == (0..MaxVersion) \X {"image", "hook", "sync"}
Rows == [hash : Digests, title : {0, 1}, status : Statuses]

\* Type of the store, the rows, the index and the requests.
TypeOK ==
    /\ store \in [Products -> 0..Gone]
    /\ hooks \subseteq Products \X (1..Gone)
    /\ hash \in [Products -> Digests]
    /\ title \in [Products -> {0, 1}]
    /\ status \in [Products -> Statuses]
    /\ vectors \in [Products -> SUBSET ((Requests \cup {Earlier}) \X (0..MaxVersion))]
    /\ pc \in [Requests -> {"idle", "fetched", "writing", "deleting", "tasks", "done"} \cup Embedding]
    /\ source \in [Requests -> {"none", "hook", "sync", "staff"}]
    /\ batch \in [Requests -> [Products -> 0..Gone]]
    /\ seen \in [Requests -> [Products -> Rows]]
    /\ todo \in [Requests -> SUBSET Products]
    /\ current \in [Requests -> Products \cup {NoProduct}]
    /\ doomed \in [Requests -> SUBSET ((Requests \cup {Earlier}) \X (0..MaxVersion))]
    /\ applied \in [Products -> 0..Gone]
    /\ strayed \subseteq Products
    /\ mixed \subseteq Products
    /\ dropped \subseteq Products
    /\ raced \subseteq Products

Delivered(p) == (\A m \in hooks : m[1] # p) /\ \A r \in Requests : batch[r][p] = 0

InStep(p) == IF store[p] = Gone THEN ~Present(p) ELSE Version(p) = store[p]

\* Once everything about a product is delivered, its row is the store's, unless
\* staff deleted the row or an older version was written after a newer one.
StaleRowHasCause ==
    \A p \in Products : Delivered(p) /\ ~InStep(p) =>
        p \in strayed

\* A row's columns are those of the version its hash names, unless two requests
\* wrote the row over each other: later syncs compare hashes and never repair it.
TornRowHasCause ==
    \A p \in Products : title[p] # Title(Version(p)) => p \in mixed

\* A product shown as completed can be found, whatever webhooks, syncs, deletions
\* and other tasks do meanwhile.
CompletedIsFindable ==
    \A p \in Products : Present(p) /\ status[p] = "completed" => Versions(p) # {}

Indexed(p) == status[p] = "completed" /\ Versions(p) = {Version(p)}

\* A row whose own text is not what searches find is still to be embedded, unless
\* a task failed, died or was never run after another's failure, or the row
\* changed while a task held an older text.
ForgottenHasCause ==
    \A p \in Products : Present(p) /\ ~Indexed(p) =>
        \/ \E r \in Requests : p \in todo[r]
        \/ p \in dropped \cup raced
===============================================================================
