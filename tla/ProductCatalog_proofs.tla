------------------------- MODULE ProductCatalog_proofs -------------------------
(***************************************************************************)
(* What holds of the catalogue for any number of products, requests and    *)
(* changes in the store, whatever is delivered when and whatever fails.    *)
(*                                                                         *)
(* None of the properties but CompletedIsFindable is inductive.  A stale   *)
(* row needs to know where the store's version is on its way (OnItsWay)    *)
(* and which version a row has (InOrder); a torn one, that the loaded rows *)
(* are whole (WholeRows); a forgotten one, what a running task holds       *)
(* (Held).  Phases and Bounded are what the four rest on.                  *)
(***************************************************************************)
EXTENDS ProductCatalog, TLAPS

-------------------------------------------------------------------------------
(* The inductive invariant *)

\* Where a request is tells who makes it, and whether it brings and embeds anything.
Phases ==
    \A r \in Requests :
        /\ pc[r] = "fetched" => source[r] = "sync"
        /\ pc[r] = "writing" => source[r] \in {"hook", "sync"}
        /\ pc[r] = "deleting" => /\ source[r] \in {"hook", "staff"}
                                 /\ \A p \in Products : batch[r][p] \in {0, Gone}
        /\ pc[r] \in {"fetched", "writing"} => \A p \in Products : batch[r][p] # Gone
        /\ pc[r] \notin {"fetched", "writing", "deleting"} =>
              source[r] = "none" /\ \A p \in Products : batch[r][p] = 0
        /\ pc[r] \notin {"tasks"} \cup Embedding => todo[r] = {}
        /\ pc[r] \in Embedding => current[r] \in todo[r]

TypeInv == TypeOK /\ Phases

\* No webhook, request or row is ahead of the store, or of what was applied.
Bounded ==
    /\ \A m \in hooks : m[2] <= store[m[1]]
    /\ \A r \in Requests : source[r] # "staff" =>
          \A p \in Products : batch[r][p] <= store[p]
    /\ \A p \in Products : applied[p] <= store[p] /\ Version(p) <= applied[p]
    /\ \A r \in Requests : \A p \in Products : seen[r][p].hash[1] <= applied[p]

\* The store's version of a product is on its way, or has been applied.
OnItsWay ==
    \A p \in Products :
        \/ store[p] = 0
        \/ <<p, store[p]>> \in hooks
        \/ \E r \in Requests : source[r] = "hook" /\ batch[r][p] = store[p]
        \/ p \in strayed
        \/ applied[p] = store[p]

\* A row is of the newest version applied, or that was its deletion.
InOrder ==
    \A p \in Products : p \in strayed \/ Version(p) = applied[p]
                        \/ (applied[p] = Gone /\ ~Present(p))

\* The rows, and the rows that sessions have loaded, are of one version each.
WholeRows ==
    \A p \in Products : p \in mixed \/
        /\ title[p] = Title(Version(p))
        /\ \A r \in Requests : seen[r][p].title = Title(seen[r][p].hash[1])

\* A running task has its product to itself: the row it has loaded, and every vector
\* there is once it has selected those it deletes.
Held ==
    \A r \in Requests : LET p == current[r] IN pc[r] \in Embedding => p \in raced \/
        /\ \A x \in Requests : Embeds(x, p) => x = r
        /\ Present(p) => seen[r][p].hash = hash[p]
        /\ pc[r] = "cleared" => vectors[p] \subseteq doomed[r]

LEMMA Constants == Gone \in Nat /\ Gone = MaxVersion + 1 /\ MaxVersion < Gone /\ 0 < Gone /\ MaxVersion \in Nat
  BY ProductCatalogAssumption DEF Gone

LEMMA InitTypeInv == Init => TypeInv
  <1> SUFFICES ASSUME Init
               PROVE  TypeInv
    OBVIOUS
  <1> USE Constants, ProductCatalogAssumption
  <1>1. store \in [Products -> 0..Gone] /\ applied \in [Products -> 0..Gone]
    <2>1. {0, 1} \subseteq 0..Gone
      OBVIOUS
    <2> QED
      BY <2>1 DEF Init
  <1>2. NoRow \in Rows /\ NoRow.hash \in Digests /\ NoRow.status \in Statuses
    BY DEF NoRow, Rows, Digests, Statuses
  <1>3. hash \in [Products -> Digests]
    <2>1. \A p \in Products : \A by \in {"hook", "sync"} : Digest(p, 1, by) \in Digests
      BY DEF Digest, Digests
    <2> QED
      BY <1>2, <2>1 DEF Init
  <1>4. title \in [Products -> {0, 1}]
    BY DEF Init, Title
  <1>5. status \in [Products -> Statuses]
    BY <1>2 DEF Init, Statuses
  <1>6. vectors \in [Products -> SUBSET ((Requests \cup {Earlier}) \X (0..MaxVersion))]
    BY DEF Init
  <1>7. batch \in [Requests -> [Products -> 0..Gone]] /\ seen \in [Requests -> [Products -> Rows]]
    BY <1>2 DEF Init, NoBatch
  <1>8. TypeOK
    BY <1>1, <1>3, <1>4, <1>5, <1>6, <1>7 DEF Init, TypeOK
  <1>9. Phases
    BY DEF Init, Phases, Embedding, NoBatch
  <1> QED
    BY <1>8, <1>9 DEF TypeInv

-------------------------------------------------------------------------------
(* Types *)

LEMMA RowType ==
  ASSUME TypeOK
  PROVE  /\ \A p \in Products : Row(p) \in Rows /\ Version(p) \in 0..MaxVersion
         /\ NoRow \in Rows /\ NoRow.hash \in Digests /\ NoRow.status \in Statuses /\ NoRow.title \in {0, 1}
         /\ \A r \in Requests, p \in Products :
               /\ seen[r][p].hash \in Digests /\ seen[r][p].hash[1] \in 0..MaxVersion
               /\ seen[r][p].title \in {0, 1} /\ seen[r][p].status \in Statuses
  BY Constants DEF TypeOK, Row, Rows, NoRow, Digests, Statuses, Version

LEMMA ReleaseType ==
  ASSUME TypeOK, NEW r \in Requests, Release(r)
  PROVE  /\ source' \in [Requests -> {"none", "hook", "sync", "staff"}]
         /\ batch' \in [Requests -> [Products -> 0..Gone]]
         /\ seen' \in [Requests -> [Products -> Rows]]
         /\ todo' \in [Requests -> SUBSET Products]
         /\ current' \in [Requests -> Products \cup {NoProduct}]
         /\ doomed' \in [Requests -> SUBSET ((Requests \cup {Earlier}) \X (0..MaxVersion))]
  BY RowType, Constants DEF TypeOK, Release, NoBatch

LEMMA SelectedType ==
  ASSUME TypeOK, NEW r \in Requests, NEW from \in {"hook", "sync", "staff"},
         NEW b \in [Products -> 0..Gone], Selected(r, from, b)
  PROVE  /\ source' \in [Requests -> {"none", "hook", "sync", "staff"}]
         /\ batch' \in [Requests -> [Products -> 0..Gone]]
         /\ seen' \in [Requests -> [Products -> Rows]]
  BY RowType DEF TypeOK, Selected

LEMMA ShopifyTypeInv ==
  ASSUME TypeInv, Shopify
  PROVE  TypeInv'
  <1>1. PICK p \in Products : StoreChanges(p) \/ StoreDeletes(p)
    BY DEF Shopify
  <1>2. UNCHANGED <<hash, title, status, vectors, pc, source, batch, seen, todo, current, doomed,
                    applied, strayed, mixed, dropped, raced>>
    BY <1>1 DEF StoreChanges, StoreDeletes, rowVars, workVars, taskVars, causeVars
  <1>3. PICK v \in 1..Gone : store' = [store EXCEPT ![p] = v] /\ hooks' = hooks \cup {<<p, v>>}
    <2>1. CASE StoreChanges(p)
      <3>1. store[p] + 1 \in 1..Gone
        BY <2>1, Constants DEF StoreChanges, TypeInv, TypeOK
      <3> QED
        BY <2>1, <3>1 DEF StoreChanges
    <2>2. CASE StoreDeletes(p)
      <3>1. Gone \in 1..Gone
        BY Constants
      <3> QED
        BY <2>2, <3>1 DEF StoreDeletes
    <2> QED
      BY <1>1, <2>1, <2>2
  <1>4. v \in 0..Gone
    BY Constants
  <1> QED
    BY <1>2, <1>3, <1>4 DEF TypeInv, TypeOK, Phases

LEMMA ReadTypeInv ==
  ASSUME TypeInv, NEW r \in Requests,
         \/ \E m \in hooks : HookUpsert(r, m) \/ HookDelete(r, m) \/ HookDeleteNothing(r, m)
         \/ \E p \in Products : StaffDelete(r, p) \/ SyncSelectLater(r, p)
         \/ SyncFetch(r) \/ SyncSelect(r)
  PROVE  TypeInv'
  <1> USE DEF At, rowVars, workVars, taskVars, causeVars
  <1>1. ASSUME NEW from \in {"hook", "sync", "staff"}, NEW b \in [Products -> 0..Gone],
               NEW at \in {"writing", "deleting"},
               Selected(r, from, b), pc[r] \in {"idle", "fetched"}, pc' = [pc EXCEPT ![r] = at],
               hooks' \subseteq Products \X (1..Gone), UNCHANGED <<store, applied, causeVars>>,
               from = "hook" \/ (at = "writing" /\ from = "sync") \/ (at = "deleting" /\ from = "staff"),
               at = "writing" => \A p \in Products : b[p] # Gone,
               at = "deleting" => \A p \in Products : b[p] \in {0, Gone}
        PROVE  TypeInv'
    <2>1. TypeOK'
      BY <1>1, SelectedType DEF TypeInv, TypeOK, Selected
    <2> QED
      BY <1>1, <2>1 DEF TypeInv, TypeOK, Phases, Selected, Embedding
  <1>2. \A p \in Products, v \in 0..Gone :
           /\ Only(p, v) \in [Products -> 0..Gone]
           /\ v # Gone => \A q \in Products : Only(p, v)[q] # Gone
           /\ v = Gone => \A q \in Products : Only(p, v)[q] \in {0, Gone}
    BY Constants DEF Only, NoBatch
  <1>3. ASSUME NEW m \in hooks, HookUpsert(r, m) \/ HookDelete(r, m)
        PROVE  TypeInv'
    <2>1. m[1] \in Products /\ m[2] \in 0..Gone /\ hooks' \subseteq Products \X (1..Gone)
      BY <1>3, Constants DEF TypeInv, TypeOK, HookUpsert, HookDelete, Taken
    <2>2. Only(m[1], m[2]) \in [Products -> 0..Gone] /\ UNCHANGED <<store, applied, causeVars>>
      BY <1>2, <1>3, <2>1 DEF HookUpsert, HookDelete
    <2>3. Selected(r, "hook", Only(m[1], m[2])) /\ pc[r] = "idle"
      BY <1>3 DEF HookUpsert, HookDelete
    <2>4. PICK at \in {"writing", "deleting"} : pc' = [pc EXCEPT ![r] = at]
      BY <1>3 DEF HookUpsert, HookDelete
    <2>5. "hook" \in {"hook", "sync", "staff"}
      OBVIOUS
    <2>6. /\ at = "writing" => \A p \in Products : Only(m[1], m[2])[p] # Gone
          /\ at = "deleting" => \A p \in Products : Only(m[1], m[2])[p] \in {0, Gone}
      <3>1. /\ at = "writing" => m[2] # Gone
            /\ at = "deleting" => m[2] = Gone
        BY <1>3, <2>4 DEF HookUpsert, HookDelete, TypeInv, TypeOK
      <3> QED
        BY <1>2, <2>1, <3>1
    <2> HIDE DEF At, causeVars
    <2> QED
      BY <1>1, <2>1, <2>2, <2>3, <2>4, <2>5, <2>6
  <1>4. ASSUME NEW m \in hooks, HookDeleteNothing(r, m)
        PROVE  TypeInv'
    <2>1. hooks' \subseteq Products \X (1..Gone) /\ Gone \in 0..Gone
      BY <1>4, Constants DEF TypeInv, TypeOK, HookDeleteNothing, Taken
    <2>2. TypeOK'
      BY <1>4, <2>1 DEF TypeInv, TypeOK, HookDeleteNothing
    <2> QED
      BY <1>4, <2>2 DEF TypeInv, TypeOK, Phases, HookDeleteNothing, Embedding
  <1>5. ASSUME NEW p \in Products, StaffDelete(r, p)
        PROVE  TypeInv'
    <2>1. Gone \in 0..Gone /\ hooks \subseteq Products \X (1..Gone)
      BY Constants DEF TypeInv, TypeOK
    <2>2. /\ Only(p, Gone) \in [Products -> 0..Gone] /\ UNCHANGED <<store, applied, causeVars>>
          /\ hooks' \subseteq Products \X (1..Gone)
      BY <1>2, <1>5, <2>1 DEF StaffDelete
    <2>3. Selected(r, "staff", Only(p, Gone)) /\ pc[r] = "idle" /\ pc' = [pc EXCEPT ![r] = "deleting"]
      BY <1>5 DEF StaffDelete
    <2>4. \A q \in Products : Only(p, Gone)[q] \in {0, Gone}
      BY <1>2, <2>1
    <2> HIDE DEF At, causeVars
    <2> QED
      BY <1>1, <2>2, <2>3, <2>4
  <1>6. CASE SyncFetch(r)
    <2>1. [p \in Products |-> IF store[p] = Gone THEN 0 ELSE store[p]] \in [Products -> 0..Gone]
      BY Constants DEF TypeInv, TypeOK
    <2>2. TypeOK'
      BY <1>6, <2>1 DEF TypeInv, TypeOK, SyncFetch
    <2>3. \A p \in Products : batch'[r][p] # Gone
      BY <1>6, Constants DEF TypeInv, TypeOK, SyncFetch
    <2> QED
      BY <1>6, <2>2, <2>3 DEF TypeInv, TypeOK, Phases, SyncFetch, Embedding
  <1>7. CASE SyncSelect(r)
    BY <1>1, <1>7 DEF SyncSelect, TypeInv, TypeOK, Phases
  <1>8. ASSUME NEW p \in Products, SyncSelectLater(r, p)
        PROVE  TypeInv'
    <2>1. TypeOK'
      BY <1>8, RowType DEF TypeInv, TypeOK, SyncSelectLater
    <2> QED
      BY <1>8, <2>1 DEF TypeInv, TypeOK, Phases, SyncSelectLater, Embedding
  <1> QED
    BY <1>3, <1>4, <1>5, <1>6, <1>7, <1>8

\* A request that writes brings no deletion.
LEMMA ChangedBrought ==
  ASSUME TypeInv, NEW r \in Requests, pc[r] = "writing"
  PROVE  /\ source[r] \in {"hook", "sync"}
         /\ \A p \in Changed(r) : p \in Products /\ batch[r][p] \in 1..MaxVersion
  <1>1. source[r] \in {"hook", "sync"} /\ \A p \in Products : batch[r][p] \in 0..Gone /\ batch[r][p] # Gone
    BY DEF TypeInv, TypeOK, Phases
  <1>2. \A n \in 0..Gone : n # Gone /\ n # 0 => n \in 1..MaxVersion
    BY Constants
  <1> QED
    BY <1>1, <1>2 DEF Changed

LEMMA WriteTypeInv ==
  ASSUME TypeInv, NEW r \in Requests, Upsert(r) \/ UpsertFails(r) \/ DeleteCommit(r)
  PROVE  TypeInv'
  <1> USE DEF At, rowVars, workVars, taskVars, causeVars
  <1>1. CASE Upsert(r)
    <2>1. Changed(r) \subseteq Products /\ \A p \in Changed(r) : Brought(r, p) \in Digests
      BY <1>1, ChangedBrought DEF Upsert, Changed, Brought, Digest, Digests
    <2>2. \A p \in Products : NewTitle(r, p) \in {0, 1} /\ NewStatus(r, p) \in Statuses
      <3>1. \A p \in Products : Title(batch[r][p]) \in {0, 1}
        <4>1. \A n \in Nat : Title(n) \in {0, 1}
          BY DEF Title
        <4>2. \A p \in Products : batch[r][p] \in Nat
          BY Constants DEF TypeInv, TypeOK
        <4> QED
          BY <4>1, <4>2
      <3>2. \A p \in Products : status[p] \in Statuses /\ title[p] \in {0, 1}
        BY DEF TypeInv, TypeOK
      <3> QED
        BY <3>1, <3>2 DEF NewTitle, NewStatus, Flushed, Statuses
    <2>3. /\ hash' \in [Products -> Digests]
          /\ title' \in [Products -> {0, 1}]
          /\ status' \in [Products -> Statuses]
          /\ applied' \in [Products -> 0..Gone]
      BY <1>1, <2>1, <2>2 DEF Upsert, TypeInv, TypeOK
    <2>4. /\ source' = [source EXCEPT ![r] = "none"]
          /\ batch' = [batch EXCEPT ![r] = NoBatch]
          /\ seen' = [seen EXCEPT ![r] = [p \in Products |-> NoRow]]
          /\ todo' = [todo EXCEPT ![r] = Changed(r)]
          /\ pc' = [pc EXCEPT ![r] = "tasks"] /\ pc[r] = "writing"
      BY <1>1 DEF Upsert, ToEmbed
    <2>5. UNCHANGED <<store, hooks, vectors, current, doomed, dropped>>
      BY <1>1 DEF Upsert
    <2>6. strayed' \subseteq Products /\ mixed' \subseteq Products /\ raced' \subseteq Products
      BY <1>1, <2>1 DEF Upsert, TypeInv, TypeOK
    <2>7. NoBatch \in [Products -> 0..Gone] /\ [p \in Products |-> NoRow] \in [Products -> Rows]
      BY RowType, Constants DEF NoBatch, TypeInv
    <2>8. TypeOK'
      BY <2>1, <2>3, <2>4, <2>5, <2>6, <2>7 DEF TypeInv, TypeOK
    <2> QED
      BY <2>4, <2>5, <2>8 DEF TypeInv, TypeOK, Phases, Embedding, NoBatch
  <1>2. ASSUME Release(r), pc' = [pc EXCEPT ![r] = "done"], TypeOK'
        PROVE  TypeInv'
    BY <1>2 DEF Release, TypeInv, TypeOK, Phases, Embedding, NoBatch
  <1>3. CASE UpsertFails(r)
    <2>1. hooks' \subseteq Products \X (1..Gone)
      BY <1>3 DEF UpsertFails, GivenBack, TypeInv, TypeOK
    <2>2. TypeOK'
      BY <1>3, <2>1, ReleaseType DEF UpsertFails, TypeInv, TypeOK
    <2> QED
      BY <1>2, <1>3, <2>2 DEF UpsertFails
  <1>4. CASE DeleteCommit(r)
    <2>1. /\ hash' \in [Products -> Digests]
          /\ title' \in [Products -> {0, 1}]
          /\ status' \in [Products -> Statuses]
          /\ vectors' \in [Products -> SUBSET ((Requests \cup {Earlier}) \X (0..MaxVersion))]
      BY <1>4, RowType DEF DeleteCommit, TypeInv, TypeOK
    <2>2. applied' \in [Products -> 0..Gone] /\ strayed' \subseteq Products
      BY <1>4, Constants DEF DeleteCommit, TypeInv, TypeOK
    <2>3. TypeOK'
      BY <1>4, <2>1, <2>2, ReleaseType DEF DeleteCommit, TypeInv, TypeOK
    <2> QED
      BY <1>2, <1>4, <2>3 DEF DeleteCommit
  <1> QED
    BY <1>1, <1>3, <1>4

LEMMA TaskTypeInv ==
  ASSUME TypeInv, NEW r \in Requests, Task(r) \/ Crash(r)
  PROVE  TypeInv'
  <1> USE DEF At, rowVars, workVars, taskVars, causeVars
  <1>1. ASSUME Release(r), pc' = [pc EXCEPT ![r] = "done"], TypeOK'
        PROVE  TypeInv'
    BY <1>1 DEF Release, TypeInv, TypeOK, Phases, Embedding, NoBatch
  <1>2. CASE TasksDone(r)
    <2>1. TypeOK'
      BY <1>2, ReleaseType DEF TasksDone, TypeInv, TypeOK
    <2> QED
      BY <1>1, <1>2, <2>1 DEF TasksDone
  <1>3. ASSUME NEW p \in todo[r], TaskSkips(r, p)
        PROVE  TypeInv'
    BY <1>3 DEF TaskSkips, TypeInv, TypeOK, Phases, Embedding
  <1>4. ASSUME NEW p \in todo[r], Load(r, p)
        PROVE  TypeInv'
    <2>1. p \in Products /\ [q \in Products |-> IF q = p THEN Row(p) ELSE NoRow] \in [Products -> Rows]
      BY RowType DEF TypeInv, TypeOK
    <2>2. /\ current' = [current EXCEPT ![r] = p]
          /\ seen' \in [Requests -> [Products -> Rows]]
          /\ raced' \subseteq Products
      BY <1>4, <2>1 DEF Load, TypeInv, TypeOK
    <2>3. pc' = [pc EXCEPT ![r] = "loaded"]
      BY <1>4 DEF Load
    <2>4. UNCHANGED <<store, hooks, hash, title, status, vectors, source, batch, todo, doomed,
                      applied, strayed, mixed, dropped>>
      BY <1>4 DEF Load
    <2>5. TypeOK'
      BY <2>1, <2>2, <2>3, <2>4 DEF TypeInv, TypeOK, Embedding
    <2> QED
      BY <1>4, <2>1, <2>5 DEF Load, TypeInv, TypeOK, Phases, Embedding
  <1>5. CASE MarkProcessing(r)
    <2>1. current[r] \in Products /\ \A s \in Statuses : Flushed("processing", Known(r), s) \in Statuses
      BY <1>5 DEF MarkProcessing, TaskStep, Flushed, Statuses, TypeInv, TypeOK, Phases, Embedding
    <2>2. status' \in [Products -> Statuses]
      BY <1>5, <2>1 DEF MarkProcessing, TypeInv, TypeOK
    <2>3. TypeOK'
      BY <1>5, <2>2 DEF MarkProcessing, TaskStep, TypeInv, TypeOK, Embedding
    <2> QED
      BY <1>5, <2>3 DEF MarkProcessing, TaskStep, TypeInv, TypeOK, Phases, Embedding
  <1>6. CASE EmbedAndDelete(r) \/ EmbedFails(r)
    <2>1. current[r] \in Products
      BY <1>6 DEF EmbedAndDelete, EmbedFails, TaskStep, TypeInv, TypeOK, Phases, Embedding
    <2>2. doomed' \in [Requests -> SUBSET ((Requests \cup {Earlier}) \X (0..MaxVersion))]
      BY <1>6, <2>1 DEF EmbedAndDelete, EmbedFails, TypeInv, TypeOK
    <2>3. PICK at \in {"cleared", "failing"} : pc' = [pc EXCEPT ![r] = at]
      BY <1>6 DEF EmbedAndDelete, EmbedFails, TaskStep
    <2>4. UNCHANGED <<store, hooks, hash, title, status, vectors, source, batch, seen, todo, current,
                      applied, strayed, mixed, dropped, raced>>
      BY <1>6 DEF EmbedAndDelete, EmbedFails, TaskStep
    <2>5. TypeOK'
      BY <2>2, <2>3, <2>4 DEF TypeInv, TypeOK, Embedding
    <2> QED
      <3>1. pc[r] = "marked"
        BY <1>6 DEF EmbedAndDelete, EmbedFails, TaskStep
      <3> QED
        BY <2>3, <2>4, <2>5, <3>1 DEF TypeInv, TypeOK, Phases, Embedding
  <1>7. CASE Store(r)
    <2> DEFINE p == current[r]
    <2>1. p \in Products /\ pc[r] = "cleared" /\ seen[r][p].hash[1] \in 0..MaxVersion
      BY <1>7, RowType DEF Store, TypeInv, TypeOK, Phases, Embedding
    <2>2. vectors' \in [Products -> SUBSET ((Requests \cup {Earlier}) \X (0..MaxVersion))]
      BY <1>7, <2>1 DEF Store, TypeInv, TypeOK
    <2>3. status' \in [Products -> Statuses]
      BY <1>7 DEF Store, TypeInv, TypeOK, Statuses
    <2>4. [q \in Products |-> NoRow] \in [Products -> Rows]
      BY RowType DEF TypeInv
    <2> HIDE DEF p
    <2>5. /\ pc' = [pc EXCEPT ![r] = "tasks"]
          /\ todo' \in [Requests -> SUBSET Products]
          /\ current' = [current EXCEPT ![r] = NoProduct]
          /\ doomed' = [doomed EXCEPT ![r] = {}]
          /\ seen' = [seen EXCEPT ![r] = [q \in Products |-> NoRow]]
          /\ UNCHANGED <<store, hooks, hash, title, source, batch, applied, causeVars>>
      BY <1>7 DEF Store, TypeInv, TypeOK
    <2>6. TypeOK'
      BY <2>2, <2>3, <2>4, <2>5 DEF TypeInv, TypeOK
    <2> QED
      BY <1>7, <2>6 DEF Store, TypeInv, TypeOK, Phases, Embedding
  <1>8. CASE MarkFailed(r) \/ FlushFails(r) \/ Crash(r)
    <2>1. PICK from : Raise(r, from)
      BY <1>8 DEF MarkFailed, FlushFails, Crash
    <2>2. hooks' \subseteq Products \X (1..Gone)
      BY <1>8 DEF MarkFailed, FlushFails, Crash, GivenBack, TypeInv, TypeOK
    <2>3. status' \in [Products -> Statuses]
      BY <1>8 DEF MarkFailed, FlushFails, Crash, TypeInv, TypeOK, Statuses
    <2>4. pc' = [pc EXCEPT ![r] = "done"] /\ Release(r) /\ dropped' \subseteq Products
          /\ UNCHANGED <<store, hash, title, vectors, applied, strayed, mixed, raced>>
      BY <2>1 DEF Raise, TypeInv, TypeOK
    <2>5. TypeOK'
      BY <2>2, <2>3, <2>4, ReleaseType DEF TypeInv, TypeOK
    <2> QED
      BY <1>1, <2>4, <2>5
  <1> QED
    BY <1>2, <1>3, <1>4, <1>5, <1>6, <1>7, <1>8 DEF Task

LEMMA NextTypeInv ==
  ASSUME TypeInv, [Next]_vars
  PROVE  TypeInv'
  <1>1. CASE UNCHANGED vars
    BY <1>1 DEF TypeInv, TypeOK, Phases, vars, rowVars, workVars, taskVars, causeVars
  <1> QED
    BY <1>1, ShopifyTypeInv, ReadTypeInv, WriteTypeInv, TaskTypeInv DEF Next, Request

-------------------------------------------------------------------------------
(* Versions *)

\* The versions as numbers, which the prover needs to compare them.
LEMMA Numbers ==
  ASSUME TypeInv
  PROVE  /\ \A p \in Products : store[p] \in Nat /\ applied[p] \in Nat /\ Version(p) \in Nat
                                /\ store[p] <= Gone /\ applied[p] <= Gone /\ Version(p) < Gone
         /\ \A r \in Requests, p \in Products :
               batch[r][p] \in Nat /\ batch[r][p] <= Gone /\ seen[r][p].hash[1] \in Nat
         /\ \A m \in hooks : m[1] \in Products /\ m[2] \in Nat /\ m[2] # 0 /\ m[2] <= Gone
                             /\ m = <<m[1], m[2]>>
         /\ NoRow.hash[1] = 0 /\ NoRow.title = 0
  <1>1. \A p \in Products : Version(p) \in 0..MaxVersion
    BY RowType DEF TypeInv
  <1>2. \A r \in Requests, p \in Products : seen[r][p].hash[1] \in 0..MaxVersion
    BY RowType DEF TypeInv
  <1>3. \A m \in hooks : m[1] \in Products /\ m[2] \in 1..Gone /\ m = <<m[1], m[2]>>
    BY DEF TypeInv, TypeOK
  <1>4. \A p \in Products : store[p] \in 0..Gone /\ applied[p] \in 0..Gone
    BY DEF TypeInv, TypeOK
  <1>5. \A r \in Requests, p \in Products : batch[r][p] \in 0..Gone
    BY DEF TypeInv, TypeOK
  <1>6. NoRow.hash[1] = 0 /\ NoRow.title = 0
    BY DEF NoRow
  <1> QED
    BY <1>1, <1>2, <1>3, <1>4, <1>5, <1>6, Constants

\* What a request is when it is over, or its transaction committed.
LEMMA Released ==
  ASSUME TypeInv, NEW r \in Requests, Release(r)
  PROVE  /\ \A x \in Requests : x # r =>
               /\ source'[x] = source[x] /\ batch'[x] = batch[x] /\ seen'[x] = seen[x]
               /\ todo'[x] = todo[x] /\ current'[x] = current[x] /\ doomed'[x] = doomed[x]
         /\ source'[r] = "none" /\ todo'[r] = {}
         /\ \A p \in Products : batch'[r][p] = 0 /\ seen'[r][p] = NoRow
  BY DEF Release, NoBatch, TypeInv, TypeOK

Ahead == Bounded /\ OnItsWay /\ InOrder

LEMMA ShopifyAhead ==
  ASSUME TypeInv, Ahead, Shopify
  PROVE  Ahead'
  <1>1. PICK p \in Products : StoreChanges(p) \/ StoreDeletes(p)
    BY DEF Shopify
  <1>2. UNCHANGED <<hash, pc, source, batch, seen, applied, strayed>>
    BY <1>1 DEF StoreChanges, StoreDeletes, rowVars, workVars, causeVars
  <1>3. /\ \A q \in Products : q # p => store'[q] = store[q]
        /\ store[p] <= store'[p] /\ store'[p] \in Nat
        /\ hooks' = hooks \cup {<<p, store'[p]>>}
    BY <1>1, Numbers, Constants DEF StoreChanges, StoreDeletes, TypeInv, TypeOK
  <1>4. Bounded'
    BY <1>2, <1>3, Numbers DEF Ahead, Bounded, Version
  <1>5. OnItsWay'
    BY <1>2, <1>3 DEF Ahead, OnItsWay
  <1>6. InOrder'
    BY <1>2 DEF Ahead, InOrder, Present, Version
  <1> QED
    BY <1>4, <1>5, <1>6 DEF Ahead

LEMMA SelectedAhead ==
  ASSUME TypeInv, Ahead, NEW r \in Requests, NEW from \in {"hook", "sync", "staff"},
         NEW b \in [Products -> Nat], Selected(r, from, b), source[r] # "hook",
         from # "staff" => \A p \in Products : b[p] <= store[p],
         UNCHANGED <<store, applied, strayed>>,
         \/ hooks' = hooks
         \/ \E m \in hooks : /\ hooks' \in {hooks, hooks \ {m}}
                             /\ from = "hook" /\ b[m[1]] = m[2]
         \* or every webhook stays, or this request holds it
  PROVE  Ahead'
  <1>1. /\ \A x \in Requests : x # r => source'[x] = source[x] /\ batch'[x] = batch[x] /\ seen'[x] = seen[x]
        /\ source'[r] = from /\ batch'[r] = b
        /\ \A p \in Products : seen'[r][p] = Row(p) \/ seen'[r][p] = NoRow
    BY DEF Selected, TypeInv, TypeOK
  <1>2. hash' = hash
    BY DEF Selected, rowVars
  <1>3. hooks' \subseteq hooks
    OBVIOUS
  <1>4. \A p \in Products : Row(p).hash[1] = Version(p)
    BY DEF Row, Version
  <1>5. Bounded'
    BY <1>1, <1>2, <1>3, <1>4, Numbers DEF Ahead, Bounded, Version
  <1>6. OnItsWay'
    <2> SUFFICES ASSUME NEW p \in Products, <<p, store[p]>> \in hooks, <<p, store[p]>> \notin hooks'
                 PROVE  \E x \in Requests : source'[x] = "hook" /\ batch'[x][p] = store[p]
      BY <1>1 DEF Ahead, OnItsWay
    <2>1. from = "hook" /\ b[p] = store[p]
      OBVIOUS
    <2> QED
      BY <1>1, <2>1
  <1>7. InOrder'
    BY <1>2 DEF Ahead, InOrder, Present, Version
  <1> QED
    BY <1>5, <1>6, <1>7 DEF Ahead

LEMMA ReadAhead ==
  ASSUME TypeInv, Ahead, NEW r \in Requests,
         \/ \E m \in hooks : HookUpsert(r, m) \/ HookDelete(r, m) \/ HookDeleteNothing(r, m)
         \/ \E p \in Products : StaffDelete(r, p) \/ SyncSelectLater(r, p)
         \/ SyncFetch(r) \/ SyncSelect(r)
  PROVE  Ahead'
  <1>1. source[r] # "hook"
    BY DEF HookUpsert, HookDelete, HookDeleteNothing, StaffDelete, SyncFetch, SyncSelect,
       SyncSelectLater, At, TypeInv, Phases
  <1>2. \A p \in Products, v \in Nat : /\ Only(p, v) \in [Products -> Nat]
                                       /\ \A q \in Products : Only(p, v)[q] = IF q = p THEN v ELSE 0
    BY DEF Only, NoBatch
  <1>3. ASSUME NEW m \in hooks, HookUpsert(r, m) \/ HookDelete(r, m)
        PROVE  Ahead'
    <2> DEFINE b == Only(m[1], m[2])
    <2>1. Selected(r, "hook", b) /\ hooks' \in {hooks, hooks \ {m}}
          /\ UNCHANGED <<store, applied, strayed>>
      BY <1>3 DEF HookUpsert, HookDelete, Taken, causeVars
    <2>2. b \in [Products -> Nat] /\ b[m[1]] = m[2] /\ \A p \in Products : b[p] <= store[p]
      <3>1. m[1] \in Products /\ m[2] \in Nat /\ m[2] <= store[m[1]]
        BY Numbers DEF Ahead, Bounded
      <3>2. b \in [Products -> Nat] /\ \A q \in Products : b[q] = IF q = m[1] THEN m[2] ELSE 0
        BY <1>2, <3>1
      <3>3. \A p \in Products : store[p] \in Nat
        BY Numbers
      <3> HIDE DEF b
      <3> QED
        BY <3>1, <3>2, <3>3
    <2> HIDE DEF b
    <2> QED
      BY <1>1, <2>1, <2>2, SelectedAhead
  <1>4. ASSUME NEW p \in Products, StaffDelete(r, p)
        PROVE  Ahead'
    <2>1. Selected(r, "staff", Only(p, Gone)) /\ Only(p, Gone) \in [Products -> Nat]
          /\ UNCHANGED <<store, hooks, applied, strayed>>
      BY <1>2, <1>4, Constants DEF StaffDelete, causeVars
    <2> QED
      BY <1>1, <2>1, SelectedAhead
  <1>5. CASE SyncSelect(r)
    <2>1. Selected(r, "sync", batch[r]) /\ batch[r] \in [Products -> Nat] /\ source[r] = "sync"
          /\ UNCHANGED <<store, hooks, applied, strayed>>
      <3>1. batch[r] \in [Products -> 0..Gone] /\ 0..Gone \subseteq Nat
        BY Constants DEF TypeInv, TypeOK
      <3>2. source[r] = "sync"
        BY <1>5 DEF SyncSelect, At, TypeInv, Phases
      <3>3. Selected(r, "sync", batch[r]) /\ UNCHANGED <<store, hooks, applied, strayed>>
        BY <1>5 DEF SyncSelect, causeVars
      <3> QED
        BY <3>1, <3>2, <3>3
    <2>2. \A p \in Products : batch[r][p] <= store[p]
      BY <2>1 DEF Ahead, Bounded
    <2> QED
      BY <1>1, <2>1, <2>2, SelectedAhead
  <1>6. CASE SyncFetch(r)
    <2>1. /\ \A x \in Requests : x # r => source'[x] = source[x] /\ batch'[x] = batch[x]
          /\ source'[r] = "sync"
          /\ \A p \in Products : batch'[r][p] = IF store[p] = Gone THEN 0 ELSE store[p]
          /\ UNCHANGED <<store, hooks, hash, seen, applied, strayed>>
      BY <1>6 DEF SyncFetch, rowVars, causeVars, TypeInv, TypeOK
    <2>2. Bounded'
      BY <2>1, Numbers DEF Ahead, Bounded, Version
    <2>3. OnItsWay' /\ InOrder'
      BY <1>1, <2>1 DEF Ahead, OnItsWay, InOrder, Present, Version
    <2> QED
      BY <2>2, <2>3 DEF Ahead
  <1>7. ASSUME NEW m \in hooks, HookDeleteNothing(r, m)
        PROVE  Ahead'
    <2>1. /\ m[1] \in Products /\ m = <<m[1], Gone>> /\ store[m[1]] = Gone /\ ~Present(m[1])
          /\ \A q \in Products : applied'[q] = IF q = m[1] THEN Gone ELSE applied[q]
          /\ hooks' \in {hooks, hooks \ {m}}
          /\ UNCHANGED <<store, hash, source, batch, seen, strayed>>
      <3>1. m[1] \in Products /\ m = <<m[1], Gone>> /\ store[m[1]] >= Gone /\ store[m[1]] <= Gone
        BY <1>7, Numbers DEF HookDeleteNothing, Ahead, Bounded
      <3>2. store[m[1]] = Gone
        BY <3>1, Numbers, Constants
      <3> QED
        BY <1>7, <3>1, <3>2 DEF HookDeleteNothing, Taken, rowVars, workVars, causeVars, TypeInv, TypeOK
    <2>2. Bounded'
      BY <2>1, Numbers, Constants DEF Ahead, Bounded, Version, Present
    <2>3. OnItsWay'
      BY <2>1 DEF Ahead, OnItsWay
    <2>4. InOrder'
      BY <2>1 DEF Ahead, InOrder, Present, Version
    <2> QED
      BY <2>2, <2>3, <2>4 DEF Ahead
  <1>8. ASSUME NEW p \in Products, SyncSelectLater(r, p)
        PROVE  Ahead'
    <2>1. /\ \A x \in Requests, q \in Products : seen'[x][q] \in {seen[x][q], Row(q)}
          /\ UNCHANGED <<store, hooks, hash, source, batch, applied, strayed>>
      BY <1>8 DEF SyncSelectLater, rowVars, causeVars, TypeInv, TypeOK
    <2>2. \A q \in Products : Row(q).hash[1] = Version(q)
      BY DEF Row, Version
    <2>3. Bounded'
      BY <2>1, <2>2, Numbers DEF Ahead, Bounded, Version
    <2>4. OnItsWay' /\ InOrder'
      BY <2>1 DEF Ahead, OnItsWay, InOrder, Present, Version
    <2> QED
      BY <2>3, <2>4 DEF Ahead
  <1> QED
    BY <1>3, <1>4, <1>5, <1>6, <1>7, <1>8

LEMMA UpsertAhead ==
  ASSUME TypeInv, Ahead, NEW r \in Requests, Upsert(r)
  PROVE  Ahead'
  <1> DEFINE S == Changed(r)
  <1>1. /\ source[r] \in {"hook", "sync"}
        /\ \A p \in Products : batch[r][p] <= store[p]
        /\ \A p \in S : batch[r][p] \in 1..MaxVersion /\ p \in Products
    BY ChangedBrought DEF Upsert, At, Ahead, Bounded, TypeInv, Phases
  <1>2. /\ \A x \in Requests : x # r => source'[x] = source[x] /\ batch'[x] = batch[x] /\ seen'[x] = seen[x]
        /\ source'[r] = "none"
        /\ \A p \in Products : batch'[r][p] = 0 /\ seen'[r][p] = NoRow
    BY DEF Upsert, NoBatch, TypeInv, TypeOK
  <1>3. /\ UNCHANGED <<store, hooks>>
        /\ \A p \in Products : applied'[p] = IF p \in S /\ batch[r][p] > applied[p] THEN batch[r][p]
                                                                              ELSE applied[p]
        /\ \A p \in Products : Version(p)' = IF p \in S THEN batch[r][p] ELSE Version(p)
        /\ strayed' = strayed \cup {p \in S : batch[r][p] < applied[p]}
    BY DEF Upsert, Brought, Digest, Version
  <1>4. \A p \in Products : p \notin S => batch[r][p] = 0 \/ batch[r][p] = Gone
                                          \/ seen[r][p].hash[1] = batch[r][p]
    <2>1. \A p \in Products : batch[r][p] \in 0..Gone
      BY DEF TypeInv, TypeOK
    <2>2. \A p \in Products : batch[r][p] \in 1..MaxVersion \/ batch[r][p] = 0 \/ batch[r][p] = Gone
      BY <2>1, Constants
    <2> QED
      BY <2>2 DEF Changed, Brought, Digest
  <1>5. \A p \in Products : batch[r][p] # Gone
    BY DEF Upsert, At, TypeInv, Phases
  <1>6. Bounded'
    <2>1. \A p \in Products : /\ applied[p] <= applied'[p] /\ applied'[p] <= store[p]
                             /\ Version(p)' <= applied'[p] /\ applied'[p] \in Nat
      <3> SUFFICES ASSUME NEW p \in Products
                   PROVE  /\ applied[p] <= applied'[p] /\ applied'[p] <= store[p]
                          /\ Version(p)' <= applied'[p] /\ applied'[p] \in Nat
        OBVIOUS
      <3>1. /\ applied[p] \in Nat /\ batch[r][p] \in Nat /\ store[p] \in Nat /\ Version(p) \in Nat
            /\ applied[p] <= store[p] /\ Version(p) <= applied[p] /\ batch[r][p] <= store[p]
        BY <1>1, Numbers DEF Ahead, Bounded
      <3>2. CASE p \in S /\ batch[r][p] > applied[p]
        BY <1>3, <3>1, <3>2
      <3>3. CASE p \in S /\ ~(batch[r][p] > applied[p])
        BY <1>3, <3>1, <3>3
      <3>4. CASE p \notin S
        BY <1>3, <3>1, <3>4
      <3> QED
        BY <3>2, <3>3, <3>4
    <2>2. \A x \in Requests, p \in Products : seen'[x][p].hash[1] \in Nat /\ seen'[x][p].hash[1] <= applied[p]
      BY <1>2, Numbers DEF Ahead, Bounded
    <2>3. \A x \in Requests, p \in Products : seen'[x][p].hash[1] <= applied'[p]
      BY <2>1, <2>2, Numbers
    <2>4. \A x \in Requests : source'[x] # "staff" => \A p \in Products : batch'[x][p] <= store[p]
      BY <1>2, Numbers DEF Ahead, Bounded
    <2> QED
      BY <1>3, <2>1, <2>3, <2>4 DEF Ahead, Bounded
  <1>7. OnItsWay'
    <2> SUFFICES ASSUME NEW p \in Products, store[p] # 0, source[r] = "hook", batch[r][p] = store[p]
                 PROVE  p \in strayed' \/ applied'[p] = store[p]
      <3>1. \A p \in Products : applied[p] = store[p] => applied'[p] = store[p]
        <4>1. \A p \in Products : ~(batch[r][p] > store[p])
          BY <1>1, Numbers
        <4> QED
          BY <1>3, <4>1
      <3>2. \A x \in Requests : x # r => source'[x] = source[x] /\ batch'[x] = batch[x]
        BY <1>2
      <3>3. strayed \subseteq strayed' /\ store' = store /\ hooks' = hooks
        BY <1>3
      <3> QED
        BY <3>1, <3>2, <3>3 DEF Ahead, OnItsWay
    <2>1. CASE p \in S
      BY <1>3, <2>1, Numbers DEF Ahead, Bounded
    <2>2. CASE p \notin S
      <3>1. seen[r][p].hash[1] = store[p]
        BY <1>4, <1>5, <2>2
      <3>2. applied[p] = store[p]
        BY <3>1, Numbers DEF Ahead, Bounded
      <3> QED
        BY <1>3, <2>2, <3>2
    <2> QED
      BY <2>1, <2>2
  <1>8. InOrder'
    <2> SUFFICES ASSUME NEW p \in Products, p \notin strayed'
                 PROVE  Version(p)' = applied'[p] \/ (applied'[p] = Gone /\ ~Present(p)')
      BY DEF InOrder
    <2>1. CASE p \in S
      <3>1. ~(batch[r][p] < applied[p]) /\ batch[r][p] \in Nat /\ applied[p] \in Nat
        BY <1>3, <2>1, Numbers
      <3> QED
        BY <1>3, <2>1, <3>1
    <2>2. CASE p \notin S
      BY <1>3, <2>2 DEF Ahead, InOrder, Present
    <2> QED
      BY <2>1, <2>2
  <1> QED
    BY <1>6, <1>7, <1>8 DEF Ahead

\* The transaction of a webhook that is given back was for what the webhook says.
LEMMA GivenBackAhead ==
  ASSUME TypeInv, Ahead, NEW r \in Requests, Release(r),
         GivenBack(r) \/ (hooks' = hooks /\ source[r] # "hook"),
         UNCHANGED <<store, hash, applied, strayed>>
  PROVE  Ahead'
  <1>1. /\ \A x \in Requests : x # r => source'[x] = source[x] /\ batch'[x] = batch[x] /\ seen'[x] = seen[x]
        /\ source'[r] = "none"
        /\ \A p \in Products : batch'[r][p] = 0 /\ seen'[r][p] = NoRow
    BY Released
  <1>2. \A m \in hooks' : m \in hooks \/ (source[r] = "hook" /\ m[1] \in Products /\ batch[r][m[1]] = m[2])
    BY DEF GivenBack
  <1>3. hooks \subseteq hooks'
    BY DEF GivenBack
  <1>4. Bounded'
    <2>1. \A m \in hooks' : m[2] <= store[m[1]]
      BY <1>2 DEF Ahead, Bounded
    <2>2. \A x \in Requests : source'[x] # "staff" => \A p \in Products : batch'[x][p] <= store[p]
      BY <1>1, Numbers DEF Ahead, Bounded
    <2>3. \A x \in Requests : \A p \in Products : seen'[x][p].hash[1] <= applied[p]
      BY <1>1, Numbers DEF Ahead, Bounded
    <2> QED
      BY <2>1, <2>2, <2>3 DEF Ahead, Bounded, Version
  <1>5. OnItsWay'
    <2>1. \A p \in Products : source[r] = "hook" /\ batch[r][p] = store[p] /\ store[p] # 0
                              => <<p, store[p]>> \in hooks'
      <3> SUFFICES ASSUME NEW p \in Products, source[r] = "hook", batch[r][p] = store[p], store[p] # 0
                   PROVE  <<p, store[p]>> \in hooks'
        OBVIOUS
      <3>1. store[p] \in 1..Gone
        BY Numbers, Constants
      <3>2. <<p, store[p]>> \in Products \X (1..Gone)
        BY <3>1
      <3> QED
        BY <3>2 DEF GivenBack
    <2> QED
      BY <1>1, <1>3, <2>1 DEF Ahead, OnItsWay
  <1>6. InOrder'
    BY DEF Ahead, InOrder, Version, Present
  <1> QED
    BY <1>4, <1>5, <1>6 DEF Ahead

LEMMA DeleteAhead ==
  ASSUME TypeInv, Ahead, NEW r \in Requests, DeleteCommit(r)
  PROVE  Ahead'
  <1> DEFINE S == {p \in Products : batch[r][p] = Gone}
  <1>1. /\ \A x \in Requests : x # r => source'[x] = source[x] /\ batch'[x] = batch[x] /\ seen'[x] = seen[x]
        /\ source'[r] = "none"
        /\ \A p \in Products : batch'[r][p] = 0 /\ seen'[r][p] = NoRow
    BY Released DEF DeleteCommit
  <1>2. /\ store' = store /\ hooks' = hooks
        /\ \A p \in Products : Version(p)' = IF p \in S THEN 0 ELSE Version(p)
    BY Numbers DEF DeleteCommit, Version
  <1>3. /\ source[r] = "hook" => /\ strayed' = strayed
                                 /\ \A p \in Products : applied'[p] = IF p \in S THEN Gone ELSE applied[p]
        /\ source[r] # "hook" => strayed' = strayed \cup S /\ applied' = applied
    BY DEF DeleteCommit
  <1>4. source[r] = "hook" => \A p \in S : store[p] = Gone
    <2>1. source[r] = "hook" => \A p \in S : store[p] >= Gone /\ store[p] <= Gone /\ store[p] \in Nat
      BY Numbers DEF Ahead, Bounded
    <2> QED
      BY <2>1, Constants
  <1>5. \A p \in Products : /\ applied[p] <= applied'[p] /\ applied'[p] <= store[p]
                            /\ Version(p)' <= applied'[p] /\ applied'[p] \in Nat
    <2> SUFFICES ASSUME NEW p \in Products
                 PROVE  /\ applied[p] <= applied'[p] /\ applied'[p] <= store[p]
                        /\ Version(p)' <= applied'[p] /\ applied'[p] \in Nat
      OBVIOUS
    <2>1. /\ applied[p] \in Nat /\ store[p] \in Nat /\ Version(p) \in Nat /\ applied[p] <= Gone
          /\ applied[p] <= store[p] /\ Version(p) <= applied[p]
      BY Numbers DEF Ahead, Bounded
    <2>2. CASE source[r] = "hook" /\ p \in S
      BY <1>2, <1>3, <1>4, <2>1, <2>2, Constants
    <2>3. CASE ~(source[r] = "hook" /\ p \in S)
      <3>1. applied'[p] = applied[p] /\ (Version(p)' = Version(p) \/ Version(p)' = 0)
        BY <1>2, <1>3, <2>3
      <3> QED
        BY <2>1, <3>1
    <2> QED
      BY <2>2, <2>3
  <1>6. Bounded'
    <2>1. \A x \in Requests, p \in Products : seen'[x][p].hash[1] \in Nat /\ seen'[x][p].hash[1] <= applied[p]
      BY <1>1, Numbers DEF Ahead, Bounded
    <2>2. \A x \in Requests, p \in Products : seen'[x][p].hash[1] <= applied'[p]
      BY <1>5, <2>1, Numbers
    <2>3. \A x \in Requests : source'[x] # "staff" => \A p \in Products : batch'[x][p] <= store[p]
      BY <1>1, Numbers DEF Ahead, Bounded
    <2> QED
      BY <1>2, <1>5, <2>2, <2>3 DEF Ahead, Bounded
  <1>7. OnItsWay'
    <2>1. \A p \in Products : applied[p] = store[p] => applied'[p] = store[p]
      BY <1>3, <1>4
    <2>2. \A p \in Products : source[r] = "hook" /\ batch[r][p] = store[p] /\ store[p] # 0 =>
                              applied'[p] = store[p]
      <3> SUFFICES ASSUME NEW p \in Products, source[r] = "hook", batch[r][p] = store[p], store[p] # 0
                   PROVE  applied'[p] = store[p]
        OBVIOUS
      <3>1. batch[r][p] = Gone
        BY DEF DeleteCommit, At, TypeInv, Phases
      <3> QED
        BY <1>3, <1>4, <3>1
    <2> QED
      BY <1>1, <1>2, <1>3, <2>1, <2>2 DEF Ahead, OnItsWay
  <1>8. InOrder'
    BY <1>2, <1>3 DEF Ahead, InOrder, Present
  <1> QED
    BY <1>6, <1>7, <1>8 DEF Ahead

LEMMA TaskAhead ==
  ASSUME TypeInv, Ahead, NEW r \in Requests, UpsertFails(r) \/ Task(r) \/ Crash(r)
  PROVE  Ahead'
  <1> USE DEF At, rowVars, workVars, taskVars, causeVars
  <1>1. CASE UpsertFails(r)
    BY <1>1, GivenBackAhead DEF UpsertFails
  <1>2. CASE TasksDone(r)
    BY <1>2, GivenBackAhead DEF TasksDone, TypeInv, Phases
  <1>3. CASE MarkFailed(r) \/ FlushFails(r) \/ Crash(r)
    <2>1. Release(r) /\ UNCHANGED <<store, hash, applied, strayed>>
      BY <1>3 DEF MarkFailed, FlushFails, Crash, Raise
    <2>2. GivenBack(r) \/ (hooks' = hooks /\ source[r] # "hook")
      BY <1>3 DEF MarkFailed, FlushFails, Crash, Raise, TypeInv, Phases
    <2> QED
      BY <2>1, <2>2, GivenBackAhead
  <1>4. ASSUME UNCHANGED <<store, hooks, hash, source, batch, applied, strayed>>,
               \A x \in Requests, p \in Products :
                  seen'[x][p].hash \in {seen[x][p].hash, Row(p).hash, NoRow.hash}
        PROVE  Ahead'
    <2>1. \A x \in Requests, p \in Products : seen'[x][p].hash[1] <= applied[p]
      BY <1>4, Numbers DEF Ahead, Bounded, Row, Version
    <2>2. Bounded'
      BY <1>4, <2>1 DEF Ahead, Bounded, Version
    <2> QED
      BY <1>4, <2>2 DEF Ahead, OnItsWay, InOrder, Version, Present
  <1>5. ASSUME NEW p \in todo[r], TaskSkips(r, p)
        PROVE  Ahead'
    BY <1>4, <1>5 DEF TaskSkips
  <1>6. ASSUME NEW p \in todo[r], Load(r, p)
        PROVE  Ahead'
    <2>1. \A x \in Requests, q \in Products : seen'[x][q] \in {seen[x][q], Row(q), NoRow}
      BY <1>6 DEF Load, TypeInv, TypeOK
    <2> QED
      BY <1>4, <1>6, <2>1 DEF Load
  <1>7. CASE MarkProcessing(r) \/ EmbedAndDelete(r) \/ EmbedFails(r)
    BY <1>4, <1>7 DEF MarkProcessing, EmbedAndDelete, EmbedFails, TaskStep
  <1>8. CASE Store(r)
    <2>1. \A x \in Requests, q \in Products : seen'[x][q] \in {seen[x][q], NoRow}
      BY <1>8 DEF Store, TypeInv, TypeOK
    <2> QED
      BY <1>4, <1>8, <2>1 DEF Store
  <1> QED
    BY <1>1, <1>2, <1>3, <1>5, <1>6, <1>7, <1>8 DEF Task

LEMMA InitAhead == Init => Ahead
  <1> SUFFICES ASSUME Init
               PROVE  Ahead
    OBVIOUS
  <1>1. \A p \in Products : /\ store[p] \in {0, 1} /\ applied[p] = store[p]
                            /\ Version(p) = store[p]
    BY DEF Init, Version, Digest, NoRow
  <1>2. \A r \in Requests : source[r] = "none" /\ \A p \in Products : batch[r][p] = 0 /\ seen[r][p].hash[1] = 0
    BY DEF Init, NoBatch, NoRow
  <1>3. Bounded
    BY <1>1, <1>2 DEF Init, Bounded
  <1> QED
    BY <1>1, <1>3 DEF Ahead, OnItsWay, InOrder

LEMMA NextAhead ==
  ASSUME TypeInv, Ahead, [Next]_vars
  PROVE  Ahead'
  <1>1. CASE UNCHANGED vars
    BY <1>1 DEF Ahead, Bounded, OnItsWay, InOrder, Version, Present, vars, rowVars, workVars, causeVars
  <1> QED
    BY <1>1, ShopifyAhead, ReadAhead, UpsertAhead, DeleteAhead, TaskAhead DEF Next, Request

LEMMA AheadStale ==
  ASSUME TypeInv, Ahead
  PROVE  StaleRowHasCause
  <1> SUFFICES ASSUME NEW p \in Products, Delivered(p), p \notin strayed
               PROVE  InStep(p)
    BY DEF StaleRowHasCause
  <1>1. store[p] = 0 \/ applied[p] = store[p]
    <2>1. <<p, store[p]>> \notin hooks
      BY DEF Delivered
    <2>2. \A r \in Requests : batch[r][p] = 0
      BY DEF Delivered
    <2> QED
      BY <2>1, <2>2 DEF Ahead, OnItsWay
  <1>2. /\ store[p] \in Nat /\ applied[p] \in Nat /\ Version(p) \in Nat /\ Version(p) < Gone
        /\ applied[p] <= store[p] /\ Version(p) <= applied[p]
    BY Numbers DEF Ahead, Bounded
  <1>3. Version(p) = applied[p] \/ (applied[p] = Gone /\ ~Present(p))
    BY DEF Ahead, InOrder
  <1> QED
    BY <1>1, <1>2, <1>3, Constants DEF InStep, Present

-------------------------------------------------------------------------------
(* Titles *)

\* Steps that write no row: what sessions load are rows, or nothing.
LEMMA NoWrite ==
  ASSUME TypeInv, NEW r \in Requests,
         \/ Request(r) /\ ~Upsert(r) /\ ~DeleteCommit(r)
         \/ Task(r)
         \/ Crash(r)
  PROVE  /\ UNCHANGED <<hash, title, mixed>>
         /\ \A x \in Requests, p \in Products : seen'[x][p] \in {seen[x][p], Row(p), NoRow}
  <1> USE DEF At, rowVars, workVars, taskVars, causeVars
  <1> DEFINE Loads == \A x \in Requests, p \in Products : seen'[x][p] \in {seen[x][p], Row(p), NoRow}
             Leaves == UNCHANGED <<hash, title, mixed>>
  <1>1. seen \in [Requests -> [Products -> Rows]]
    BY DEF TypeInv, TypeOK
  <1>2. ASSUME NEW from, NEW b, Selected(r, from, b)
        PROVE  Loads /\ UNCHANGED <<hash, title>>
    BY <1>1, <1>2 DEF Selected
  <1>3. ASSUME NEW m \in hooks, HookUpsert(r, m) \/ HookDelete(r, m)
        PROVE  Loads /\ Leaves
    <2> HIDE DEF Loads
    <2> QED
      BY <1>2, <1>3 DEF HookUpsert, HookDelete
  <1>4. ASSUME NEW m \in hooks, HookDeleteNothing(r, m)
        PROVE  Loads /\ Leaves
    BY <1>4 DEF HookDeleteNothing
  <1>5. ASSUME (\E q \in Products : StaffDelete(r, q)) \/ SyncSelect(r)
        PROVE  Loads /\ Leaves
    <2> HIDE DEF Loads
    <2> QED
      BY <1>2, <1>5 DEF StaffDelete, SyncSelect
  <1>6. ASSUME SyncFetch(r)
        PROVE  Loads /\ Leaves
    BY <1>6 DEF SyncFetch
  <1>7. ASSUME Release(r)
        PROVE  Loads
    BY <1>7, Released
  <1>8. ASSUME UpsertFails(r) \/ TasksDone(r) \/ MarkFailed(r) \/ FlushFails(r) \/ Crash(r)
        PROVE  Loads /\ Leaves
    <2> HIDE DEF Loads
    <2> QED
      BY <1>7, <1>8 DEF UpsertFails, TasksDone, MarkFailed, FlushFails, Crash, Raise
  <1>9. ASSUME NEW q \in todo[r], TaskSkips(r, q)
        PROVE  Loads /\ Leaves
    BY <1>9 DEF TaskSkips
  <1>10. ASSUME NEW q \in todo[r], Load(r, q)
         PROVE  Loads /\ Leaves
    BY <1>1, <1>10 DEF Load
  <1>11. ASSUME MarkProcessing(r) \/ EmbedAndDelete(r) \/ EmbedFails(r)
        PROVE  Loads /\ Leaves
    BY <1>11 DEF MarkProcessing, EmbedAndDelete, EmbedFails, TaskStep
  <1>12. ASSUME Store(r)
        PROVE  Loads /\ Leaves
    BY <1>1, <1>12 DEF Store
  <1>13. ASSUME NEW q \in Products, SyncSelectLater(r, q)
         PROVE  Loads /\ Leaves
    BY <1>1, <1>13 DEF SyncSelectLater
  <1> HIDE DEF Loads, Leaves
  <1>14. Loads /\ Leaves
    <2>1. CASE Request(r) /\ ~Upsert(r) /\ ~DeleteCommit(r)
      BY <2>1, <1>3, <1>4, <1>5, <1>6, <1>8, <1>13 DEF Request, Leaves
    <2>2. CASE Task(r) \/ Crash(r)
      BY <2>2, <1>8, <1>9, <1>10, <1>11, <1>12 DEF Task, Leaves
    <2> QED
      BY <2>1, <2>2
  <1> QED
    BY <1>14 DEF Loads, Leaves

LEMMA NextWhole ==
  ASSUME TypeInv, WholeRows, [Next]_vars
  PROVE  WholeRows'
  <1>1. CASE UNCHANGED vars
    BY <1>1 DEF WholeRows, Version, vars, rowVars, workVars, causeVars
  <1>2. CASE Shopify
    BY <1>2 DEF Shopify, StoreChanges, StoreDeletes, WholeRows, Version, rowVars, workVars, causeVars
  <1>3. NoRow.title = 0 /\ Title(NoRow.hash[1]) = 0
    BY DEF NoRow, Title
  <1>4. \A p \in Products : Row(p).title = title[p] /\ Row(p).hash[1] = Version(p)
    BY DEF Row, Version
  <1>5. ASSUME NEW r \in Requests,
               \/ Request(r) /\ ~Upsert(r) /\ ~DeleteCommit(r)
               \/ Task(r)
               \/ Crash(r)
        PROVE  WholeRows'
    <2>1. /\ UNCHANGED <<hash, title, mixed>>
          /\ \A x \in Requests, p \in Products : seen'[x][p] \in {seen[x][p], Row(p), NoRow}
      BY <1>5, NoWrite
    <2> QED
      BY <1>3, <1>4, <2>1 DEF WholeRows, Version
  <1>6. ASSUME NEW r \in Requests, DeleteCommit(r)
        PROVE  WholeRows'
    <2>1. \A x \in Requests, p \in Products : seen'[x][p] \in {seen[x][p], NoRow}
      BY <1>6, Released DEF DeleteCommit
    <2>2. \A p \in Products : \/ hash'[p] = hash[p] /\ title'[p] = title[p]
                              \/ hash'[p] = NoRow.hash /\ title'[p] = NoRow.title
      BY <1>6 DEF DeleteCommit
    <2>3. mixed' = mixed
      BY <1>6 DEF DeleteCommit
    <2> QED
      BY <1>3, <2>1, <2>2, <2>3 DEF WholeRows, Version
  <1>7. ASSUME NEW r \in Requests, Upsert(r)
        PROVE  WholeRows'
    <2> SUFFICES ASSUME NEW p \in Products, p \notin mixed'
                 PROVE  /\ title'[p] = Title(Version(p)')
                        /\ \A x \in Requests : seen'[x][p].title = Title(seen'[x][p].hash[1])
      BY DEF WholeRows
    <2>1. p \notin mixed /\ (p \in Changed(r) => hash[p] = seen[r][p].hash)
      BY <1>7 DEF Upsert
    <2>2. title[p] = Title(Version(p)) /\ \A x \in Requests : seen[x][p].title = Title(seen[x][p].hash[1])
      BY <2>1 DEF WholeRows
    <2>3. \A x \in Requests : seen'[x][p] \in {seen[x][p], NoRow}
      BY <1>7 DEF Upsert, TypeInv, TypeOK
    <2>4. CASE p \notin Changed(r)
      <3>1. title'[p] = title[p] /\ Version(p)' = Version(p)
        BY <1>7, <2>4 DEF Upsert, Version
      <3> QED
        BY <1>3, <2>2, <2>3, <3>1
    <2>5. CASE p \in Changed(r)
      <3>1. title'[p] = NewTitle(r, p) /\ Version(p)' = batch[r][p]
        BY <1>7, <2>5 DEF Upsert, Version, Brought, Digest
      <3>2. title[p] = seen[r][p].title
        BY <2>1, <2>2, <2>5 DEF Version
      <3>3. NewTitle(r, p) = Title(batch[r][p])
        BY <3>2 DEF NewTitle, Flushed
      <3> QED
        BY <1>3, <2>2, <2>3, <3>1, <3>3
    <2> QED
      BY <2>4, <2>5
  <1> QED
    BY <1>1, <1>2, <1>5, <1>6, <1>7 DEF Next

-------------------------------------------------------------------------------
(* Searches *)

LEMMA NextFindable ==
  ASSUME TypeInv, CompletedIsFindable, [Next]_vars
  PROVE  CompletedIsFindable'
  <1> USE DEF At, TypeInv, TypeOK, rowVars, workVars, taskVars, causeVars
  <1>1. CASE UNCHANGED vars
    BY <1>1 DEF CompletedIsFindable, Present, Version, Versions, vars
  <1>2. CASE Shopify
    BY <1>2 DEF Shopify, StoreChanges, StoreDeletes, CompletedIsFindable, Present, Version, Versions
  <1>3. ASSUME NEW r \in Requests, Request(r), ~Upsert(r), ~DeleteCommit(r)
        PROVE  CompletedIsFindable'
    <2>1. UNCHANGED <<hash, status, vectors>>
      BY <1>3 DEF Request, HookUpsert, HookDelete, HookDeleteNothing, StaffDelete, SyncFetch,
         SyncSelect, SyncSelectLater, Selected, UpsertFails
    <2> QED
      BY <2>1 DEF CompletedIsFindable, Present, Version, Versions
  <1>4. ASSUME NEW r \in Requests, Upsert(r)
        PROVE  CompletedIsFindable'
    <2>1. vectors' = vectors
      BY <1>4 DEF Upsert
    <2>2. \A p \in Products : \/ hash'[p] = hash[p] /\ status'[p] = status[p]
                              \/ Present(p) /\ status'[p] = status[p]
                              \/ status'[p] = "pending"
      BY <1>4 DEF Upsert, NewStatus, Flushed
    <2> QED
      BY <2>1, <2>2 DEF CompletedIsFindable, Present, Version, Versions
  <1>5. ASSUME NEW r \in Requests, DeleteCommit(r)
        PROVE  CompletedIsFindable'
    <2>1. \A p \in Products : \/ hash'[p][1] = 0
                              \/ hash'[p] = hash[p] /\ status'[p] = status[p] /\ vectors'[p] = vectors[p]
      BY <1>5, Numbers DEF DeleteCommit
    <2> QED
      BY <2>1 DEF CompletedIsFindable, Present, Version, Versions
  <1>6. ASSUME NEW r \in Requests, Task(r) \/ Crash(r), ~Store(r)
        PROVE  CompletedIsFindable'
    <2>1. hash' = hash /\ vectors' = vectors
      BY <1>6 DEF Task, TasksDone, TaskSkips, Load, MarkProcessing, EmbedAndDelete, EmbedFails,
         TaskStep, MarkFailed, FlushFails, Crash, Raise
    <2>2. \A p \in Products : status'[p] \in {status[p], "processing", "failed"}
      BY <1>6 DEF Task, TasksDone, TaskSkips, Load, MarkProcessing, EmbedAndDelete, EmbedFails,
         TaskStep, MarkFailed, FlushFails, Crash, Raise, Flushed
    <2> QED
      BY <2>1, <2>2 DEF CompletedIsFindable, Present, Version, Versions
  <1>7. ASSUME NEW r \in Requests, Store(r)
        PROVE  CompletedIsFindable'
    <2> DEFINE p == current[r]
    <2>1. \A q \in Products : q # p => status'[q] = status[q] /\ vectors'[q] = vectors[q]
      BY <1>7 DEF Store
    <2>2. p \in Products => vectors'[p] # {}
      BY <1>7 DEF Store
    <2>3. hash' = hash
      BY <1>7 DEF Store
    <2> HIDE DEF p
    <2> SUFFICES ASSUME NEW q \in Products, Present(q)', status'[q] = "completed"
                 PROVE  Versions(q)' # {}
      BY DEF CompletedIsFindable
    <2>4. CASE q = p
      <3>1. PICK v : v \in vectors'[q]
        BY <2>2, <2>4
      <3>2. v[2] \in Versions(q)'
        BY <3>1 DEF Versions
      <3> QED
        BY <3>2
    <2>5. CASE q # p
      <3>1. Versions(q)' = Versions(q) /\ Present(q) /\ status[q] = "completed"
        BY <2>1, <2>3, <2>5 DEF Versions, Present, Version
      <3> QED
        BY <3>1 DEF CompletedIsFindable
    <2> QED
      BY <2>4, <2>5
  <1> QED
    BY <1>1, <1>2, <1>3, <1>4, <1>5, <1>6, <1>7 DEF Next

-------------------------------------------------------------------------------
(* Forgotten rows *)

Kept == Held /\ ForgottenHasCause

LEMMA OneVersion ==
  ASSUME NEW p \in Products, NEW x, NEW v, vectors[p] = {<<x, v>>}
  PROVE  Versions(p) = {v}
  <1>1. \A w : w \in Versions(p) <=> \E y \in vectors[p] : w = y[2]
    BY DEF Versions
  <1>2. \A y \in vectors[p] : y[2] = v
    OBVIOUS
  <1>3. <<x, v>> \in vectors[p]
    OBVIOUS
  <1> QED
    BY <1>1, <1>2, <1>3

\* A step that starts and ends no task and writes neither rows nor vectors.
LEMMA SameKept ==
  ASSUME TypeInv, Kept,
         UNCHANGED <<hash, status, vectors, todo, dropped, raced>>,
         \A r \in Requests : pc'[r] \in Embedding =>
            /\ pc[r] \in Embedding /\ current'[r] = current[r]
            /\ \A p \in Products : seen'[r][p].hash = seen[r][p].hash
            /\ pc'[r] = "cleared" => pc[r] = "cleared" /\ doomed'[r] = doomed[r]
  PROVE  Kept'
  <1>1. \A r \in Requests : pc[r] \in Embedding => current[r] \in Products
    BY DEF TypeInv, TypeOK, Phases
  <1>2. Held'
    BY <1>1 DEF Kept, Held, Embeds, Present, Version
  <1>3. ForgottenHasCause'
    BY DEF Kept, ForgottenHasCause, Indexed, Versions, Present, Version
  <1> QED
    BY <1>2, <1>3 DEF Kept

LEMMA OtherKept ==
  ASSUME TypeInv, Kept,
         UNCHANGED vars \/ Shopify
         \/ \E r \in Requests : Request(r) /\ ~Upsert(r) /\ ~DeleteCommit(r)
  PROVE  Kept'
  <1> USE DEF At, rowVars, workVars, taskVars, causeVars
  <1>1. CASE UNCHANGED vars
    BY <1>1, SameKept DEF vars
  <1>2. CASE Shopify
    BY <1>2, SameKept DEF Shopify, StoreChanges, StoreDeletes
  <1>3. ASSUME NEW r \in Requests, Request(r), ~Upsert(r), ~DeleteCommit(r)
        PROVE  Kept'
    <2>1. UNCHANGED <<hash, status, vectors, dropped, raced>>
      BY <1>3 DEF Request, HookUpsert, HookDelete, HookDeleteNothing, StaffDelete, SyncFetch,
         SyncSelect, SyncSelectLater, Selected, UpsertFails
    <2>2. pc[r] \notin {"tasks"} \cup Embedding /\ pc'[r] \notin Embedding
          /\ \A x \in Requests : x # r => pc'[x] = pc[x]
      BY <1>3 DEF Request, HookUpsert, HookDelete, HookDeleteNothing, StaffDelete, SyncFetch,
         SyncSelect, SyncSelectLater, UpsertFails, Embedding, TypeInv, TypeOK
    <2>3. todo[r] = {}
      BY <2>2 DEF TypeInv, Phases
    <2>4. \A x \in Requests : x # r => seen'[x] = seen[x] /\ current'[x] = current[x] /\ doomed'[x] = doomed[x]
      <3>1. CASE UpsertFails(r)
        BY <3>1, Released DEF UpsertFails
      <3>2. CASE ~UpsertFails(r)
        BY <1>3, <3>2 DEF Request, HookUpsert, HookDelete, HookDeleteNothing, StaffDelete, SyncFetch,
           SyncSelect, SyncSelectLater, Selected, TypeInv, TypeOK
      <3> QED
        BY <3>1, <3>2
    <2>5. todo' = todo
      <3>1. CASE UpsertFails(r)
        <4>1. todo' = [todo EXCEPT ![r] = {}] /\ todo \in [Requests -> SUBSET Products]
          BY <3>1 DEF UpsertFails, Release, TypeInv, TypeOK
        <4> QED
          BY <2>3, <4>1
      <3>2. CASE ~UpsertFails(r)
        BY <1>3, <3>2 DEF Request, HookUpsert, HookDelete, HookDeleteNothing, StaffDelete, SyncFetch,
           SyncSelect, SyncSelectLater, Selected
      <3> QED
        BY <3>1, <3>2
    <2> QED
      BY <2>1, <2>2, <2>4, <2>5, SameKept
  <1> QED
    BY <1>1, <1>2, <1>3

LEMMA UpsertKept ==
  ASSUME TypeInv, Kept, NEW r \in Requests, Upsert(r)
  PROVE  Kept'
  <1> DEFINE S == Changed(r)
  <1>1. /\ \A p \in Products : p \notin S => hash'[p] = hash[p] /\ status'[p] = status[p]
        /\ \A p \in Products : p \in S /\ (\E x \in Requests : Embeds(x, p)) => p \in raced'
        /\ raced \subseteq raced' /\ dropped' = dropped
        /\ UNCHANGED <<vectors, current, doomed>>
    BY DEF Upsert
  <1>2. /\ pc[r] = "writing" /\ pc'[r] = "tasks" /\ todo'[r] = S
        /\ \A x \in Requests : x # r => pc'[x] = pc[x] /\ seen'[x] = seen[x] /\ todo'[x] = todo[x]
    BY DEF Upsert, At, ToEmbed, TypeInv, TypeOK
  <1>3. todo[r] = {} /\ pc[r] \notin Embedding /\ pc'[r] \notin Embedding
    BY <1>2 DEF TypeInv, Phases, Embedding
  <1>4. \A x \in Requests : pc[x] \in Embedding => current[x] \in Products
    BY DEF TypeInv, TypeOK, Phases
  <1>5. \A x \in Requests, p \in Products : Embeds(x, p)' <=> Embeds(x, p)
    BY <1>1, <1>2, <1>3 DEF Embeds
  <1>6. Held'
    <2> SUFFICES ASSUME NEW x \in Requests, NEW p \in Products, p = current'[x], pc'[x] \in Embedding,
                        p \notin raced'
                 PROVE  /\ \A y \in Requests : Embeds(y, p)' => y = x
                        /\ Present(p)' => seen'[x][p].hash = hash'[p]
                        /\ pc'[x] = "cleared" => vectors'[p] \subseteq doomed'[x]
      BY <1>1, <1>2, <1>3, <1>4 DEF Held
    <2>1. x # r /\ Embeds(x, p) /\ p \notin S /\ p \notin raced
      BY <1>1, <1>2, <1>3 DEF Embeds
    <2>2. /\ \A y \in Requests : Embeds(y, p) => y = x
          /\ Present(p) => seen[x][p].hash = hash[p]
          /\ pc[x] = "cleared" => vectors[p] \subseteq doomed[x]
      BY <2>1 DEF Kept, Held, Embeds
    <2> QED
      BY <1>1, <1>2, <1>5, <2>1, <2>2 DEF Present, Version
  <1>7. ForgottenHasCause'
    <2> SUFFICES ASSUME NEW p \in Products, Present(p)', ~Indexed(p)'
                 PROVE  (\E x \in Requests : p \in todo'[x]) \/ p \in dropped' \cup raced'
      BY DEF ForgottenHasCause
    <2>1. CASE p \in S
      BY <1>2, <2>1
    <2>2. CASE p \notin S
      <3>1. Present(p) /\ ~Indexed(p)
        BY <1>1, <2>2 DEF Present, Version, Indexed, Versions
      <3> QED
        BY <1>1, <1>2, <1>3, <3>1 DEF Kept, ForgottenHasCause
    <2> QED
      BY <2>1, <2>2
  <1> QED
    BY <1>6, <1>7 DEF Kept

LEMMA DeleteKept ==
  ASSUME TypeInv, Kept, NEW r \in Requests, DeleteCommit(r)
  PROVE  Kept'
  <1> DEFINE S == {p \in Products : batch[r][p] = Gone}
  <1>1. /\ \A p \in Products : p \notin S => /\ hash'[p] = hash[p] /\ status'[p] = status[p]
                                            /\ vectors'[p] = vectors[p]
        /\ \A p \in S : hash'[p] = NoRow.hash /\ vectors'[p] = {}
        /\ UNCHANGED <<raced, dropped>>
    BY DEF DeleteCommit
  <1>2. /\ pc[r] = "deleting" /\ pc'[r] = "done"
        /\ \A x \in Requests : x # r => pc'[x] = pc[x]
    BY DEF DeleteCommit, At, TypeInv, TypeOK
  <1>3. \A x \in Requests : x # r => /\ seen'[x] = seen[x] /\ todo'[x] = todo[x]
                                     /\ current'[x] = current[x] /\ doomed'[x] = doomed[x]
    BY Released DEF DeleteCommit
  <1>4. todo[r] = {} /\ pc[r] \notin Embedding /\ pc'[r] \notin Embedding
    BY <1>2 DEF TypeInv, Phases, Embedding
  <1>5. \A x \in Requests : pc[x] \in Embedding => current[x] \in Products
    BY DEF TypeInv, TypeOK, Phases
  <1>6. \A p \in S : ~Present(p)'
    BY <1>1, Numbers DEF Present, Version
  <1>7. Held'
    <2> SUFFICES ASSUME NEW x \in Requests, NEW p \in Products, p = current'[x], pc'[x] \in Embedding,
                        p \notin raced'
                 PROVE  /\ \A y \in Requests : Embeds(y, p)' => y = x
                        /\ Present(p)' => seen'[x][p].hash = hash'[p]
                        /\ pc'[x] = "cleared" => vectors'[p] \subseteq doomed'[x]
      BY <1>2, <1>3, <1>4, <1>5 DEF Held
    <2>1. x # r /\ Embeds(x, p) /\ p \notin raced
      BY <1>1, <1>2, <1>3, <1>4 DEF Embeds
    <2>2. /\ \A y \in Requests : Embeds(y, p) => y = x
          /\ Present(p) => seen[x][p].hash = hash[p]
          /\ pc[x] = "cleared" => vectors[p] \subseteq doomed[x]
      BY <2>1 DEF Kept, Held, Embeds
    <2>3. \A y \in Requests : Embeds(y, p)' => Embeds(y, p)
      BY <1>2, <1>3, <1>4 DEF Embeds
    <2>4. CASE p \in S
      BY <1>1, <1>6, <2>2, <2>3, <2>4
    <2>5. CASE p \notin S
      BY <1>1, <1>2, <1>3, <2>1, <2>2, <2>3, <2>5 DEF Present, Version
    <2> QED
      BY <2>4, <2>5
  <1>8. ForgottenHasCause'
    <2> SUFFICES ASSUME NEW p \in Products, Present(p)', ~Indexed(p)'
                 PROVE  (\E x \in Requests : p \in todo'[x]) \/ p \in dropped' \cup raced'
      BY DEF ForgottenHasCause
    <2>1. p \notin S
      BY <1>6
    <2>2. Present(p) /\ ~Indexed(p)
      BY <1>1, <2>1 DEF Present, Version, Indexed, Versions
    <2> QED
      BY <1>1, <1>3, <1>4, <2>2 DEF Kept, ForgottenHasCause
  <1> QED
    BY <1>7, <1>8 DEF Kept

\* Shared by the steps of a task: the tasks of the other requests.
LEMMA TaskKept ==
  ASSUME TypeInv, Kept, NEW r \in Requests, Task(r) \/ Crash(r)
  PROVE  Kept'
  <1> USE DEF At, rowVars, workVars, taskVars, causeVars
  <1>1. /\ \A x \in Requests : pc[x] \in Embedding => current[x] \in Products /\ current[x] \in todo[x]
        /\ pc \in [Requests -> {"idle", "fetched", "writing", "deleting", "tasks", "done"} \cup Embedding]
        /\ todo \in [Requests -> SUBSET Products]
    BY DEF TypeInv, TypeOK, Phases
  <1>2. CASE TasksDone(r)
    <2>1. /\ pc'[r] = "done" /\ \A x \in Requests : x # r => pc'[x] = pc[x]
          /\ todo[r] = {} /\ Release(r) /\ UNCHANGED <<hash, status, vectors, dropped, raced>>
      BY <1>1, <1>2 DEF TasksDone
    <2>2. todo' = todo
      BY <1>1, <2>1 DEF Release
    <2>3. pc'[r] \notin Embedding
      BY <2>1 DEF Embedding
    <2> QED
      BY <2>1, <2>2, <2>3, Released, SameKept
  <1>3. ASSUME NEW p \in todo[r], TaskSkips(r, p)
        PROVE  Kept'
    <2>1. /\ UNCHANGED <<hash, status, vectors, seen, current, doomed, dropped, raced>>
          /\ ~Present(p) /\ pc[r] = "tasks" /\ pc' = pc
          /\ \A x \in Requests, q \in Products : q # p /\ q \in todo[x] => q \in todo'[x]
      BY <1>1, <1>3 DEF TaskSkips
    <2>2. Held'
      BY <1>1, <2>1 DEF Kept, Held, Embeds, Present, Version
    <2>3. ForgottenHasCause'
      BY <2>1 DEF Kept, ForgottenHasCause, Indexed, Versions, Present, Version
    <2> QED
      BY <2>2, <2>3 DEF Kept
  <1>4. ASSUME NEW p \in todo[r], Load(r, p)
        PROVE  Kept'
    <2>1. /\ UNCHANGED <<hash, status, vectors, todo, doomed, dropped>> /\ p \in Products
          /\ pc[r] = "tasks" /\ pc'[r] = "loaded" /\ current'[r] = p /\ seen'[r][p] = Row(p)
          /\ \A x \in Requests : x # r => pc'[x] = pc[x] /\ current'[x] = current[x] /\ seen'[x] = seen[x]
          /\ raced \subseteq raced' /\ ((\E x \in Requests : Embeds(x, p)) => p \in raced')
      BY <1>1, <1>4 DEF Load, TypeInv, TypeOK
    <2>2. pc[r] \notin Embedding /\ Row(p).hash = hash[p]
      BY <2>1 DEF Embedding, Row
    <2>3. ASSUME NEW x \in Requests, NEW q \in Products, q = current'[x], pc'[x] \in Embedding,
                 q \notin raced'
          PROVE  /\ \A y \in Requests : Embeds(y, q)' => y = x
                 /\ Present(q)' => seen'[x][q].hash = hash'[q]
                 /\ pc'[x] = "cleared" => vectors'[q] \subseteq doomed'[x]
      <3>1. CASE x = r
        BY <2>1, <2>2, <2>3, <3>1 DEF Embeds
      <3>2. CASE x # r
        <4>1. Embeds(x, q) /\ q \notin raced /\ q # p
          BY <2>1, <2>3, <3>2 DEF Embeds
        <4>2. /\ \A y \in Requests : Embeds(y, q) => y = x
              /\ Present(q) => seen[x][q].hash = hash[q]
              /\ pc[x] = "cleared" => vectors[q] \subseteq doomed[x]
          BY <4>1 DEF Kept, Held, Embeds
        <4> QED
          BY <2>1, <3>2, <4>1, <4>2 DEF Embeds, Present, Version
      <3> QED
        BY <3>1, <3>2
    <2>4. \A x \in Requests : pc'[x] \in Embedding => current'[x] \in Products
      BY <1>1, <2>1
    <2>5. Held'
      BY <2>3, <2>4 DEF Held
    <2>6. ForgottenHasCause'
      BY <2>1 DEF Kept, ForgottenHasCause, Indexed, Versions, Present, Version
    <2> QED
      BY <2>5, <2>6 DEF Kept
  <1>5. CASE MarkProcessing(r) \/ EmbedAndDelete(r)
    <2> DEFINE p == current[r]
    <2>1. /\ UNCHANGED <<hash, vectors, todo, current, dropped, raced, seen>>
          /\ pc[r] \in {"loaded", "marked"} /\ pc'[r] \in {"marked", "cleared"}
          /\ \A x \in Requests : x # r => pc'[x] = pc[x] /\ doomed'[x] = doomed[x]
          /\ \A q \in Products : q # p => status'[q] = status[q]
          /\ pc'[r] = "cleared" => doomed'[r] = vectors[p]
      BY <1>1, <1>5 DEF MarkProcessing, EmbedAndDelete, TaskStep, TypeInv, TypeOK
    <2>2. pc[r] \in Embedding /\ pc'[r] \in Embedding
      BY <2>1 DEF Embedding
    <2>3. p \in todo[r] /\ p \in Products
      BY <1>1, <2>2
    <2>4. \A x \in Requests : (pc'[x] \in Embedding <=> pc[x] \in Embedding)
      BY <2>1, <2>2
    <2>5. Held'
      <3> SUFFICES ASSUME NEW x \in Requests, NEW q \in Products, q = current[x], pc'[x] \in Embedding,
                          q \notin raced
                   PROVE  /\ \A y \in Requests : Embeds(y, q)' => y = x
                          /\ Present(q)' => seen'[x][q].hash = hash'[q]
                          /\ pc'[x] = "cleared" => vectors'[q] \subseteq doomed'[x]
        BY <1>1, <2>1, <2>4 DEF Held
      <3>1. Embeds(x, q)
        BY <2>4 DEF Embeds
      <3>2. /\ \A y \in Requests : Embeds(y, q) => y = x
            /\ Present(q) => seen[x][q].hash = hash[q]
            /\ pc[x] = "cleared" => vectors[q] \subseteq doomed[x]
        BY <3>1 DEF Kept, Held, Embeds
      <3>3. \A y \in Requests : Embeds(y, q)' => Embeds(y, q)
        BY <2>1, <2>4 DEF Embeds
      <3>4. pc'[x] = "cleared" => vectors'[q] \subseteq doomed'[x]
        BY <2>1, <3>2
      <3> QED
        BY <2>1, <3>2, <3>3, <3>4 DEF Present, Version
    <2>6. ForgottenHasCause'
      BY <2>1, <2>3 DEF Kept, ForgottenHasCause, Indexed, Versions, Present, Version
    <2> QED
      BY <2>5, <2>6 DEF Kept
  <1>6. CASE EmbedFails(r)
    <2>1. /\ UNCHANGED <<hash, status, vectors, todo, current, doomed, seen, dropped, raced>>
          /\ pc[r] = "marked" /\ pc'[r] = "failing" /\ \A x \in Requests : x # r => pc'[x] = pc[x]
      BY <1>1, <1>6 DEF EmbedFails, TaskStep
    <2>2. pc[r] \in Embedding
      BY <2>1 DEF Embedding
    <2> QED
      BY <2>1, <2>2, SameKept
  <1>7. CASE Store(r)
    <2>1. pc[r] = "cleared" /\ pc[r] \in Embedding
      BY <1>7 DEF Store, Embedding
    <2>2. PICK p \in Products : p = current[r]
      BY <1>1, <2>1
    <2>3. /\ pc[r] = "cleared" /\ pc'[r] = "tasks" /\ Present(p)
          /\ \A x \in Requests : x # r => /\ pc'[x] = pc[x] /\ current'[x] = current[x] /\ seen'[x] = seen[x]
                                          /\ todo'[x] = todo[x] /\ doomed'[x] = doomed[x]
          /\ UNCHANGED <<hash, dropped, raced>>
          /\ \A q \in Products : q # p => status'[q] = status[q] /\ vectors'[q] = vectors[q]
          /\ \A q \in Products : q # p /\ q \in todo[r] => q \in todo'[r]
      BY <1>1, <1>7, <2>2 DEF Store, TypeInv, TypeOK
    <2>4. pc[r] \in Embedding /\ pc'[r] \notin Embedding
      BY <2>3 DEF Embedding
    <2>5. status'[p] = "completed" /\ vectors'[p] = (vectors[p] \ doomed[r]) \cup {<<r, seen[r][p].hash[1]>>}
      BY <1>7, <2>2 DEF Store, TypeInv, TypeOK
    <2>6. Held'
      <3> SUFFICES ASSUME NEW x \in Requests, NEW q \in Products, q = current'[x], pc'[x] \in Embedding,
                          q \notin raced
                   PROVE  /\ \A y \in Requests : Embeds(y, q)' => y = x
                          /\ Present(q)' => seen'[x][q].hash = hash'[q]
                          /\ pc'[x] = "cleared" => vectors'[q] \subseteq doomed'[x]
        BY <1>1, <2>3, <2>4 DEF Held
      <3>1. x # r /\ Embeds(x, q) /\ Embeds(r, p)
        BY <2>3, <2>4, <2>2 DEF Embeds
      <3>2. /\ \A y \in Requests : Embeds(y, q) => y = x
            /\ Present(q) => seen[x][q].hash = hash[q]
            /\ pc[x] = "cleared" => vectors[q] \subseteq doomed[x]
        BY <3>1 DEF Kept, Held, Embeds
      <3>3. q # p
        BY <3>1, <3>2
      <3>4. \A y \in Requests : Embeds(y, q)' => Embeds(y, q)
        BY <2>3, <2>4 DEF Embeds
      <3> QED
        BY <2>3, <3>1, <3>2, <3>3, <3>4 DEF Present, Version
    <2>7. p \notin raced => Versions(p)' = {Version(p)}
      <3> SUFFICES ASSUME p \notin raced
                   PROVE  Versions(p)' = {Version(p)}
        OBVIOUS
      <3>1. seen[r][p].hash = hash[p] /\ vectors[p] \subseteq doomed[r]
        BY <2>3, <2>4, <2>2 DEF Kept, Held
      <3>2. vectors'[p] = {<<r, hash[p][1]>>}
        BY <2>5, <3>1
      <3>3. \A w : w \in Versions(p)' <=> \E y \in vectors'[p] : w = y[2]
        BY DEF Versions
      <3> QED
        BY <3>2, <3>3 DEF Version
    <2>8. ForgottenHasCause'
      <3> SUFFICES ASSUME NEW q \in Products, Present(q)', ~Indexed(q)', q \notin raced
                   PROVE  (\E x \in Requests : q \in todo'[x]) \/ q \in dropped'
        BY <2>3 DEF ForgottenHasCause
      <3>1. q # p
        <4>1. q = p => Versions(q)' = {Version(q)'} /\ status'[q] = "completed"
          BY <2>3, <2>5, <2>7 DEF Version
        <4> QED
          BY <4>1 DEF Indexed
      <3>2. Present(q) /\ ~Indexed(q)
        BY <2>3, <3>1 DEF Indexed, Versions, Present, Version
      <3> QED
        BY <2>3, <3>1, <3>2 DEF Kept, ForgottenHasCause
    <2> QED
      BY <2>6, <2>8 DEF Kept
  <1>8. CASE MarkFailed(r) \/ FlushFails(r) \/ Crash(r)
    <2>1. /\ UNCHANGED <<hash, vectors, raced>> /\ Release(r) /\ pc'[r] = "done"
          /\ \A x \in Requests : x # r => pc'[x] = pc[x]
          /\ dropped' = dropped \cup todo[r]
      BY <1>1, <1>8 DEF MarkFailed, FlushFails, Crash, Raise
    <2>2. \A q \in Products : status'[q] = status[q] \/ q \in todo[r]
      <3>1. CASE MarkFailed(r)
        <4>1. current[r] \in todo[r]
          BY <1>1, <3>1 DEF MarkFailed, Raise, Embedding
        <4> QED
          BY <3>1, <4>1 DEF MarkFailed
      <3>2. CASE FlushFails(r) \/ Crash(r)
        BY <3>2 DEF FlushFails, Crash
      <3> QED
        BY <1>8, <3>1, <3>2
    <2>3. \A x \in Requests : x # r => /\ seen'[x] = seen[x] /\ todo'[x] = todo[x]
                                       /\ current'[x] = current[x] /\ doomed'[x] = doomed[x]
      BY <2>1, Released
    <2>4. pc'[r] \notin Embedding
      BY <2>1 DEF Embedding
    <2>5. Held'
      BY <1>1, <2>1, <2>3, <2>4 DEF Kept, Held, Embeds, Present, Version
    <2>6. ForgottenHasCause'
      BY <2>1, <2>2, <2>3 DEF Kept, ForgottenHasCause, Indexed, Versions, Present, Version
    <2> QED
      BY <2>5, <2>6 DEF Kept
  <1> QED
    BY <1>2, <1>3, <1>4, <1>5, <1>6, <1>7, <1>8 DEF Task

-------------------------------------------------------------------------------
(* Theorems *)

Inv == TypeInv /\ Ahead /\ WholeRows /\ CompletedIsFindable /\ Kept

LEMMA InitInv == Init => Inv
  <1> SUFFICES ASSUME Init
               PROVE  Inv
    OBVIOUS
  <1>1. \A p \in Products : \/ store[p] = 0 /\ hash[p] = NoRow.hash /\ vectors[p] = {}
                            \/ store[p] = 1 /\ Version(p) = 1 /\ status[p] = "completed"
                               /\ vectors[p] = {<<Earlier, 1>>}
    BY DEF Init, Version, Digest
  <1>2. NoRow.hash[1] = 0 /\ NoRow.title = 0 /\ Title(0) = 0
    BY DEF NoRow, Title
  <1>3. WholeRows
    <2>1. \A p \in Products : title[p] = Title(store[p]) /\ Version(p) = store[p]
      BY <1>1, <1>2 DEF Init, Version
    <2>2. \A r \in Requests, p \in Products : seen[r][p] = NoRow
      BY DEF Init
    <2> QED
      BY <1>2, <2>1, <2>2 DEF WholeRows
  <1>4. \A p \in Products : Present(p) => Indexed(p)
    <2>1. \A p \in Products : Present(p) =>
             Version(p) = 1 /\ status[p] = "completed" /\ vectors[p] = {<<Earlier, 1>>}
      BY <1>1, <1>2 DEF Present, Version
    <2> QED
      BY <2>1, OneVersion DEF Indexed
  <1>5. CompletedIsFindable /\ ForgottenHasCause
    BY <1>4 DEF CompletedIsFindable, ForgottenHasCause, Indexed
  <1>6. Held
    BY DEF Init, Held, Embedding
  <1> QED
    BY <1>3, <1>5, <1>6, InitTypeInv, InitAhead DEF Inv, Kept

LEMMA NextInv ==
  ASSUME Inv, [Next]_vars
  PROVE  Inv'
  <1>1. TypeInv' /\ Ahead' /\ WholeRows' /\ CompletedIsFindable'
    BY NextTypeInv, NextAhead, NextWhole, NextFindable DEF Inv
  <1>2. Kept'
    BY OtherKept, UpsertKept, DeleteKept, TaskKept DEF Inv, Next
  <1> QED
    BY <1>1, <1>2 DEF Inv

LEMMA Invariance == Spec => []Inv
  BY InitInv, NextInv, PTL DEF Spec

\* The catalogue, the index and the requests keep their types.
THEOREM TypeCorrect == Spec => []TypeOK
  <1>1. Inv => TypeOK
    BY DEF Inv, TypeInv
  <1> QED
    BY <1>1, Invariance, PTL

\* For any number of products, webhooks and requests: what was delivered is the
\* store's, but for staff's deletions and older versions written late.
THEOREM StaleOnlyWithCause == Spec => []StaleRowHasCause
  <1>1. Inv => StaleRowHasCause
    BY AheadStale DEF Inv
  <1> QED
    BY <1>1, Invariance, PTL

\* A row of two versions was written by two requests over each other.
THEOREM TornOnlyWithCause == Spec => []TornRowHasCause
  <1>1. Inv => TornRowHasCause
    BY DEF Inv, WholeRows, TornRowHasCause
  <1> QED
    BY <1>1, Invariance, PTL

\* Whatever tasks run at once or fail, a completed product has vectors.
THEOREM CompletedFindable == Spec => []CompletedIsFindable
  <1>1. Inv => CompletedIsFindable
    BY DEF Inv
  <1> QED
    BY <1>1, Invariance, PTL

\* No row waits for an embedding that nobody will run, but for the two causes.
THEOREM ForgottenOnlyWithCause == Spec => []ForgottenHasCause
  <1>1. Inv => ForgottenHasCause
    BY DEF Inv, Kept
  <1> QED
    BY <1>1, Invariance, PTL
===============================================================================
