---------------------------- MODULE Settings_proofs ----------------------------
(***************************************************************************)
(* What holds of the settings for any number of processes, updates and     *)
(* fields.                                                                 *)
(*                                                                         *)
(* TypeOK is not inductive: that an id is drawn within bounds, and that    *)
(* there is a row in force when there are rows, need Numbered.             *)
(* LostSaveHasCause needs two more parts: Kept, what the columns of an     *)
(* only row have to do with what was saved, and Alone, what an update on   *)
(* its way has loaded as long as updates do not overlap.                   *)
(***************************************************************************)
EXTENDS Settings, FiniteSetTheorems, TLAPS

-------------------------------------------------------------------------------
(* The inductive invariant *)

\* Ids are drawn by the INSERT, rows are committed after it, and one is the newest.
Numbered == /\ \A u \in Updates : pc[u] \in {"idle", "selected"} => id[u] = 0
            /\ \A u \in inserted \ {Earlier} : pc[u] \in {"committed", "done"}
            /\ inserted # {} => Newest # {}

TypeInv == TypeOK /\ Numbered

Active == {"selected", "flushed", "committed"}

\* An update has selected a row of the table or inserts its own, and a table with one
\* row holds what was saved, except in the columns that were not written.
Kept == /\ \A u \in Updates : pc[u] = "selected" => target[u] \in inserted \cup {u}
        /\ \A u \in Updates : pc[u] = "flushed" => data[u] = brings[u]
        /\ inserted = {} => saved = NoColumns
        /\ \A w \in inserted : inserted = {w} =>
              \A f \in Fields : data[w][f] = saved[f] \/ f \in skipped

\* While updates do not overlap there is at most one row and every column is written;
\* an update that has selected a row has loaded what is in force, and one that inserts
\* found nothing there.
Alone == /\ \A u, v \in Updates : pc[u] \in Active /\ pc[v] \in Active => u = v
         /\ inserted = {} \/ \E w \in Rows : inserted = {w}
         /\ skipped = {}
         /\ \A u \in Updates : pc[u] = "selected" =>
               /\ loaded[u] = InForce
               /\ IF inserted = {} THEN target[u] = u ELSE target[u] \in inserted
         /\ \A u \in Updates : pc[u] = "flushed" => inserted = {}

Inv == TypeInv /\ StaleCacheHasCause /\ Kept /\ (~overlap => Alone)

-------------------------------------------------------------------------------
(* The row in force *)

LEMMA UpdatesAreRows == \A u \in Updates : u \in Rows /\ u # Earlier
  BY SettingsAssumption DEF Rows

LEMMA LatestIsRow ==
  ASSUME Numbered, inserted # {}
  PROVE  Latest \in inserted
  BY DEF Numbered, Latest, Newest

LEMMA InForceType ==
  ASSUME TypeInv
  PROVE  InForce \in Columns
  <1>1. CASE inserted = {}
    BY <1>1 DEF InForce, NoColumns, Columns
  <1>2. CASE inserted # {}
    BY <1>2, LatestIsRow DEF TypeInv, TypeOK, InForce
  <1> QED
    BY <1>1, <1>2

\* What happens to ids and columns of other updates than the inserted ones is invisible.
LEMMA InForceKept ==
  ASSUME Numbered, inserted' = inserted,
         \A u \in inserted : id'[u] = id[u] /\ data'[u] = data[u]
  PROVE  InForce' = InForce /\ (inserted # {} => Newest' # {})
  <1>1. Newest' = Newest
    BY DEF Newest
  <1>2. Latest' = Latest
    BY <1>1 DEF Latest
  <1>3. inserted # {} => Latest \in inserted /\ Newest # {}
    BY LatestIsRow DEF Numbered
  <1> QED
    BY <1>1, <1>2, <1>3 DEF InForce

LEMMA DrawnId ==
  ASSUME TypeOK, NEW u \in Updates, id[u] = 0
  PROVE  1 + Cardinality({v \in Updates : id[v] # 0}) \in 1..Cardinality(Updates)
  <1> DEFINE S == {v \in Updates : id[v] # 0}
  <1>1. IsFiniteSet(Updates) /\ Cardinality(Updates) \in Nat
    BY SettingsAssumption, FS_CardinalityType
  <1>2. S \subseteq Updates /\ S # Updates
    OBVIOUS
  <1>3. /\ IsFiniteSet(S) /\ Cardinality(S) <= Cardinality(Updates)
        /\ S # Updates => Cardinality(S) # Cardinality(Updates)
    <2> HIDE DEF S
    <2> QED
      BY <1>1, <1>2, FS_Subset
  <1>4. Cardinality(S) \in Nat
    BY <1>3, FS_CardinalityType
  <1>5. ASSUME NEW m \in Nat, NEW n \in Nat, m <= n, m # n
        PROVE  1 + m \in 1..n
    BY <1>5
  <1>6. 1 + Cardinality(S) \in 1..Cardinality(Updates)
    <2> HIDE DEF S
    <2> QED
      BY <1>1, <1>2, <1>3, <1>4, <1>5
  <1> QED
    BY <1>6

-------------------------------------------------------------------------------
(* Types and ids *)

LEMMA InitInv == Init => Inv
  <1> SUFFICES ASSUME Init
               PROVE  Inv
    OBVIOUS
  <1>1. 0 \in 0..Cardinality(Updates)
    BY SettingsAssumption, FS_CardinalityType
  <1>2. inserted = {} \/ inserted = {Earlier}
    BY DEF Init
  <1>3. \A u \in Updates : pc[u] = "idle"
    BY DEF Init
  <1>4. inserted # {} => Newest = {Earlier} /\ InForce = data[Earlier]
    <2> SUFFICES ASSUME inserted # {}
                 PROVE  Newest = {Earlier} /\ InForce = data[Earlier]
      OBVIOUS
    <2>1. inserted = {Earlier} /\ id[Earlier] = 0
      BY <1>2 DEF Init, Rows
    <2>2. Newest = {Earlier}
      BY <2>1 DEF Newest
    <2> QED
      BY <2>1, <2>2 DEF InForce, Latest
  <1>5. TypeInv
    <2>1. NoColumns \in Columns
      BY DEF NoColumns, Columns
    <2>2. id \in [Rows -> 0..Cardinality(Updates)] /\ data \in [Rows -> Columns]
      BY <1>1, <2>1 DEF Init
    <2>3. inserted \subseteq Rows /\ target \in [Updates -> Rows]
      BY <1>2 DEF Init, Rows
    <2>4. TypeOK
      BY <2>1, <2>2, <2>3 DEF Init, TypeOK
    <2>5. Numbered
      BY <1>2, <1>4 DEF Init, Numbered, Rows
    <2> QED
      BY <2>4, <2>5 DEF TypeInv
  <1>6. StaleCacheHasCause
    BY DEF Init, StaleCacheHasCause
  <1>7. Kept
    <2>1. \A w \in inserted : data[w] = saved
      BY <1>2 DEF Init, Rows
    <2>2. inserted = {} => saved = NoColumns
      BY DEF Init
    <2> QED
      BY <1>3, <2>1, <2>2 DEF Kept
  <1>8. Alone
    <2>1. \A u \in Updates : pc[u] \notin Active /\ pc[u] # "selected" /\ pc[u] # "flushed"
      BY <1>3 DEF Active
    <2>2. skipped = {} /\ Earlier \in Rows
      BY DEF Init, Rows
    <2> QED
      BY <1>2, <2>1, <2>2 DEF Alone
  <1> QED
    BY <1>5, <1>6, <1>7, <1>8 DEF Inv

LEMMA ForgetType ==
  ASSUME TypeOK, NEW U, Forget(U)
  PROVE  /\ brings' \in [Updates -> Columns] /\ loaded' \in [Updates -> Columns]
         /\ target' \in [Updates -> Rows] /\ process' = process
  <1>1. NoColumns \in Columns /\ Updates \subseteq Rows
    BY DEF NoColumns, Columns, Rows
  <1> QED
    BY <1>1 DEF Forget, TypeOK

LEMMA StepEnds ==
  ASSUME TypeOK, \/ \E p \in Processes : Restart(p)
                 \/ \E u \in Updates : ClearCache(u) \/ RefreshFails(u)
  PROVE  \A v \in Updates : pc'[v] = pc[v] \/ (pc[v] # "idle" /\ pc'[v] = "done")
  <1>1. pc \in [Updates -> {"idle", "selected", "flushed", "committed", "done"}]
    BY DEF TypeOK
  <1>2. ASSUME NEW p \in Processes, Restart(p), NEW v \in Updates
        PROVE  pc'[v] = pc[v] \/ (pc[v] # "idle" /\ pc'[v] = "done")
    BY <1>2 DEF Restart
  <1>3. ASSUME NEW u \in Updates, ClearCache(u) \/ RefreshFails(u), NEW v \in Updates
        PROVE  pc'[v] = pc[v] \/ (pc[v] # "idle" /\ pc'[v] = "done")
    BY <1>1, <1>3 DEF ClearCache, RefreshFails, At
  <1> QED
    BY <1>2, <1>3

LEMMA ReadingTypeInv ==
  ASSUME TypeInv, NEW p \in Processes, Reading(p) \/ Restart(p)
  PROVE  TypeInv'
  <1> USE DEF TypeInv, TypeOK, Numbered, tableVars, cacheVars, updateVars, causeVars
  <1>1. ASSUME Fetch(p)
        PROVE  TypeInv'
    BY <1>1, InForceType DEF Fetch, Newest
  <1>2. ASSUME NEW c \in fetched[p], Fill(p, c)
        PROVE  TypeInv'
    BY <1>2 DEF Fill, Newest
  <1>3. ASSUME Restart(p)
        PROVE  TypeInv'
    <2>1. TypeOK'
      BY <1>3, ForgetType DEF Restart, Emptied
    <2>2. Newest' = Newest /\ inserted' = inserted /\ id' = id
      BY <1>3 DEF Restart, Newest
    <2>3. \A u \in Updates : pc'[u] = pc[u] \/ (pc[u] # "idle" /\ pc'[u] = "done")
      BY <1>3, StepEnds
    <2>4. inserted \ {Earlier} \subseteq Updates
      BY DEF Rows
    <2>5. Numbered'
      BY <2>2, <2>3, <2>4
    <2> QED
      BY <2>1, <2>5
  <1> QED
    BY <1>1, <1>2, <1>3 DEF Reading

LEMMA UpdatingTypeInv ==
  ASSUME TypeInv, NEW u \in Updates, Updating(u)
  PROVE  TypeInv'
  <1> USE DEF TypeInv, TypeOK, Numbered, At, tableVars, cacheVars, updateVars, causeVars
  <1>1. ASSUME NEW b \in Columns, Select(u, b)
        PROVE  TypeInv'
    <2>1. InForce \in Columns /\ (inserted # {} => Latest \in inserted)
      BY InForceType, LatestIsRow
    <2>2. target' \in [Updates -> Rows]
      BY <1>1, <2>1 DEF Select, Rows
    <2>3. TypeOK'
      BY <1>1, <2>1, <2>2 DEF Select
    <2> QED
      BY <1>1, <2>3 DEF Select, Newest
  <1>2. ASSUME Flush(u)
        PROVE  TypeInv'
    <2> DEFINE n == 1 + Cardinality({v \in Updates : id[v] # 0})
    <2>1. id[u] = 0 /\ u \notin inserted /\ u \in Rows
      BY <1>2, UpdatesAreRows DEF Flush
    <2>2. n \in 1..Cardinality(Updates) /\ n \in 0..Cardinality(Updates)
      BY <2>1, DrawnId, SettingsAssumption, FS_CardinalityType
    <2>3. id' = [id EXCEPT ![u] = n]
      BY <1>2 DEF Flush
    <2> HIDE DEF n
    <2>4. \A w \in inserted : id'[w] = id[w] /\ data'[w] = data[w]
      BY <1>2, <2>1, <2>3 DEF Flush
    <2>5. id' \in [Rows -> 0..Cardinality(Updates)] /\ data' \in [Rows -> Columns]
      BY <1>2, <2>1, <2>2, <2>3 DEF Flush
    <2>6. TypeOK'
      BY <1>2, <2>5 DEF Flush
    <2>7. inserted # {} => Newest' # {}
      BY <1>2, <2>4, InForceKept DEF Flush
    <2> QED
      BY <1>2, <2>1, <2>3, <2>6, <2>7 DEF Flush
  <1>3. ASSUME InsertFails(u)
        PROVE  TypeInv'
    <2>1. TypeOK'
      BY <1>3, ForgetType DEF InsertFails
    <2>2. inserted' = inserted /\ id' = id
      BY <1>3 DEF InsertFails
    <2> QED
      BY <1>3, <2>1, <2>2 DEF InsertFails, Newest
  <1>4. ASSUME CommitInsert(u)
        PROVE  TypeInv'
    <2>1. TypeOK'
      <3>1. saved' \in Columns
        BY <1>4 DEF CommitInsert, Committed, Columns
      <3>2. inserted' \subseteq Rows
        BY <1>4 DEF CommitInsert, Rows
      <3> QED
        BY <1>4, <3>1, <3>2, ForgetType DEF CommitInsert, Committed
    <2> USE UpdatesAreRows
    <2>2. Newest' # {}
      <3>1. CASE \A v \in inserted : id[v] <= id[u]
        BY <1>4, <3>1 DEF CommitInsert, Newest
      <3>2. CASE \E v \in inserted : ~(id[v] <= id[u])
        <4>1. PICK w \in inserted : \A v \in inserted : id[v] <= id[w]
          BY <3>2 DEF Newest
        <4>2. id[u] <= id[w]
          <5>1. PICK v \in inserted : ~(id[v] <= id[u])
            BY <3>2
          <5>2. id[v] <= id[w] /\ id[v] \in Nat /\ id[w] \in Nat /\ id[u] \in Nat
            BY <4>1
          <5> QED
            BY <5>1, <5>2
        <4> QED
          BY <1>4, <4>1, <4>2 DEF CommitInsert, Newest
      <3> QED
        BY <3>1, <3>2
    <2> QED
      BY <1>4, <2>1, <2>2 DEF CommitInsert, Committed
  <1>5. ASSUME CommitUpdate(u)
        PROVE  TypeInv'
    <2>1. saved' \in Columns /\ data' \in [Rows -> Columns] /\ skipped' \subseteq Fields
      BY <1>5 DEF CommitUpdate, Committed, Columns, Given
    <2>2. inserted' = inserted /\ id' = id
      BY <1>5 DEF CommitUpdate
    <2>3. TypeOK'
      BY <1>5, <2>1, <2>2, ForgetType DEF CommitUpdate, Committed
    <2> QED
      BY <1>5, <2>2, <2>3 DEF CommitUpdate, Newest
  <1>6. ASSUME ClearCache(u) \/ RefreshFails(u)
        PROVE  TypeInv'
    <2>1. TypeOK'
      BY <1>6 DEF ClearCache, RefreshFails, Emptied
    <2>2. Newest' = Newest /\ inserted' = inserted /\ id' = id
      BY <1>6 DEF ClearCache, RefreshFails, Newest
    <2>3. \A v \in Updates : pc'[v] = pc[v] \/ (pc[v] # "idle" /\ pc'[v] = "done")
      BY <1>6, StepEnds
    <2>4. Numbered'
      BY <2>2, <2>3 DEF Rows
    <2> QED
      BY <2>1, <2>4
  <1> QED
    BY <1>1, <1>2, <1>3, <1>4, <1>5, <1>6 DEF Updating

LEMMA NextTypeInv ==
  ASSUME TypeInv, [Next]_vars
  PROVE  TypeInv'
  <1>1. CASE UNCHANGED vars
    BY <1>1 DEF TypeInv, TypeOK, Numbered, Newest, vars, tableVars, cacheVars, updateVars, causeVars
  <1> QED
    BY <1>1, ReadingTypeInv, UpdatingTypeInv DEF Next

-------------------------------------------------------------------------------
(* Copies *)

LEMMA ReadingStale ==
  ASSUME TypeInv, StaleCacheHasCause, NEW p \in Processes, Reading(p) \/ Restart(p)
  PROVE  StaleCacheHasCause'
  <1> USE DEF TypeInv, TypeOK, tableVars, cacheVars, updateVars, causeVars
  <1>1. InForce' = InForce
    BY InForceKept DEF Reading, Fetch, Fill, Restart
  <1>2. ASSUME Fetch(p)
        PROVE  StaleCacheHasCause'
    BY <1>1, <1>2 DEF Fetch, StaleCacheHasCause, Clearing
  <1>3. ASSUME NEW c \in fetched[p], Fill(p, c)
        PROVE  StaleCacheHasCause'
    <2> SUFFICES ASSUME NEW q \in Processes, cache'[q] \ {InForce} # {}
                 PROVE  Clearing(q)' \/ q \in remote' \cup refilled' \cup unclear'
      BY <1>1 DEF StaleCacheHasCause
    <2>1. CASE q = p
      BY <1>3, <2>1 DEF Fill
    <2>2. CASE q # p
      BY <1>3, <2>2 DEF Fill, StaleCacheHasCause, Clearing
    <2> QED
      BY <2>1, <2>2
  <1>4. ASSUME Restart(p)
        PROVE  StaleCacheHasCause'
    <2> SUFFICES ASSUME NEW q \in Processes, cache'[q] \ {InForce} # {}
                 PROVE  Clearing(q)' \/ q \in remote' \cup refilled' \cup unclear'
      BY <1>1 DEF StaleCacheHasCause
    <2>1. q # p /\ cache'[q] = cache[q]
      BY <1>4 DEF Restart, Emptied
    <2>2. Clearing(q) => Clearing(q)'
      BY <1>4, <2>1 DEF Restart, Forget, Clearing
    <2> QED
      BY <1>4, <2>1, <2>2 DEF Restart, Emptied, StaleCacheHasCause
  <1> QED
    BY <1>2, <1>3, <1>4 DEF Reading

LEMMA UpdatingStale ==
  ASSUME TypeInv, StaleCacheHasCause, NEW u \in Updates, Updating(u)
  PROVE  StaleCacheHasCause'
  <1> USE DEF TypeInv, TypeOK, At, tableVars, cacheVars, updateVars, causeVars
  <1>1. ASSUME \/ \E b \in Columns : Select(u, b)
               \/ Flush(u) \/ InsertFails(u)
        PROVE  StaleCacheHasCause'
    <2>1. InForce' = InForce
      <3>1. inserted' = inserted /\ \A w \in inserted : id'[w] = id[w] /\ data'[w] = data[w]
        BY <1>1, UpdatesAreRows DEF Select, Flush, InsertFails, Numbered
      <3> QED
        BY <3>1, InForceKept
    <2>2. \A q \in Processes : Clearing(q) => Clearing(q)'
      BY <1>1 DEF Select, Flush, InsertFails, Forget, Clearing
    <2> QED
      BY <1>1, <2>1, <2>2 DEF Select, Flush, InsertFails, StaleCacheHasCause
  <1>2. ASSUME CommitInsert(u) \/ CommitUpdate(u)
        PROVE  StaleCacheHasCause'
    <2> SUFFICES ASSUME NEW q \in Processes, cache'[q] # {}
                 PROVE  Clearing(q)' \/ q \in remote'
      BY DEF StaleCacheHasCause
    <2>1. CASE q = process[u]
      BY <1>2, <2>1 DEF CommitInsert, CommitUpdate, Committed, Forget, Clearing
    <2>2. CASE q # process[u]
      BY <1>2, <2>2 DEF CommitInsert, CommitUpdate, Committed
    <2> QED
      BY <2>1, <2>2
  <1>3. ASSUME ClearCache(u) \/ RefreshFails(u)
        PROVE  StaleCacheHasCause'
    <2>1. InForce' = InForce
      BY <1>3, InForceKept DEF ClearCache, RefreshFails
    <2> SUFFICES ASSUME NEW q \in Processes, cache'[q] \ {InForce} # {}
                 PROVE  Clearing(q)' \/ q \in remote' \cup refilled' \cup unclear'
      BY <2>1 DEF StaleCacheHasCause
    <2>2. CASE q = process[u]
      BY <1>3, <2>2 DEF ClearCache, RefreshFails, Emptied
    <2>3. CASE q # process[u]
      <3>1. Clearing(q) => Clearing(q)'
        BY <1>3, <2>3 DEF ClearCache, RefreshFails, Clearing
      <3> QED
        BY <1>3, <2>3, <3>1 DEF ClearCache, RefreshFails, Emptied, StaleCacheHasCause
    <2> QED
      BY <2>2, <2>3
  <1> QED
    BY <1>1, <1>2, <1>3 DEF Updating

-------------------------------------------------------------------------------
(* Updates one after the other *)

(* What the rows hold *)

\* What a step may change of the updates that are still to write.
Pending == \A u \in Updates : pc'[u] \in {"selected", "flushed"} =>
               /\ pc'[u] = pc[u]
               /\ brings'[u] = brings[u] /\ loaded'[u] = loaded[u] /\ target'[u] = target[u]

\* A step that touches no table, no save and no update on its way.
LEMMA StillKept ==
  ASSUME Kept, UNCHANGED <<tableVars, saved, skipped>>, Pending
  PROVE  Kept'
  BY DEF Kept, Pending, tableVars

LEMMA ReadingPending ==
  ASSUME TypeInv, NEW p \in Processes, Reading(p) \/ Restart(p)
  PROVE  UNCHANGED <<tableVars, saved, overlap, skipped>> /\ Pending
  <1> USE DEF TypeInv, TypeOK, updateVars, causeVars
  <1>1. CASE Reading(p)
    BY <1>1 DEF Reading, Fetch, Fill, Pending
  <1>2. CASE Restart(p)
    <2>1. UNCHANGED <<tableVars, saved, overlap, skipped>>
      BY <1>2 DEF Restart, Emptied
    <2>2. Pending
      <3> SUFFICES ASSUME NEW u \in Updates, pc'[u] \in {"selected", "flushed"}
                   PROVE  /\ pc'[u] = pc[u]
                          /\ brings'[u] = brings[u] /\ loaded'[u] = loaded[u]
                          /\ target'[u] = target[u]
        BY DEF Pending
      <3>1. process[u] # p /\ pc'[u] = pc[u]
        BY <1>2 DEF Restart
      <3> QED
        BY <1>2, <3>1 DEF Restart, Forget
    <2> QED
      BY <2>1, <2>2
  <1> QED
    BY <1>1, <1>2

LEMMA EndingPending ==
  ASSUME TypeInv, NEW u \in Updates, InsertFails(u) \/ ClearCache(u) \/ RefreshFails(u)
  PROVE  UNCHANGED <<tableVars, saved, overlap, skipped>> /\ Pending
  <1> USE DEF TypeInv, TypeOK, At, updateVars, causeVars
  <1>1. CASE InsertFails(u)
    BY <1>1 DEF InsertFails, Forget, Pending
  <1>2. CASE ClearCache(u) \/ RefreshFails(u)
    BY <1>2 DEF ClearCache, RefreshFails, Emptied, Pending
  <1> QED
    BY <1>1, <1>2

\* A commit ends its update and leaves what the others have selected.
LEMMA CommitPending ==
  ASSUME TypeInv, NEW u \in Updates, CommitInsert(u) \/ CommitUpdate(u)
  PROVE  /\ Pending
         /\ pc'[u] = "committed"
         /\ \A v \in Updates : v # u => pc'[v] = pc[v]
  BY DEF TypeInv, TypeOK, CommitInsert, CommitUpdate, Committed, Forget, At, Pending

LEMMA UpdatingKept ==
  ASSUME TypeInv, Kept, NEW u \in Updates, Updating(u)
  PROVE  Kept'
  <1> USE DEF TypeInv, TypeOK, At, tableVars, cacheVars, updateVars, causeVars
  <1>1. ASSUME NEW b \in Columns, Select(u, b)
        PROVE  Kept'
    <2>1. target'[u] \in inserted \cup {u} /\ pc'[u] = "selected"
      BY <1>1, LatestIsRow DEF Select
    <2>2. \A v \in Updates : v # u => /\ pc'[v] = pc[v] /\ target'[v] = target[v]
                                      /\ brings'[v] = brings[v]
      BY <1>1 DEF Select
    <2>3. UNCHANGED <<inserted, data, saved, skipped>>
      BY <1>1 DEF Select
    <2> QED
      BY <2>1, <2>2, <2>3 DEF Kept
  <1>2. ASSUME Flush(u)
        PROVE  Kept'
    <2>1. u \notin inserted
      BY <1>2, SettingsAssumption DEF Flush, Numbered
    <2>2. data'[u] = brings[u] /\ brings' = brings /\ target' = target /\ pc'[u] = "flushed"
      BY <1>2 DEF Flush, Rows
    <2>3. \A w \in Rows : w # u => data'[w] = data[w]
      BY <1>2 DEF Flush
    <2>4. \A v \in Updates : v # u => pc'[v] = pc[v] /\ v \in Rows
      BY <1>2 DEF Flush, Rows
    <2>5. UNCHANGED <<inserted, saved, skipped>>
      BY <1>2 DEF Flush
    <2>6. \A w \in inserted : data'[w] = data[w]
      BY <2>1, <2>3
    <2> QED
      BY <2>2, <2>3, <2>4, <2>5, <2>6 DEF Kept
  <1>3. ASSUME CommitInsert(u)
        PROVE  Kept'
    <2>1. Pending /\ pc'[u] = "committed"
      BY <1>3, CommitPending
    <2>2. inserted' = inserted \cup {u} /\ data' = data /\ u \notin inserted
      BY <1>3, SettingsAssumption DEF CommitInsert, Numbered
    <2>3. ASSUME NEW w \in inserted', inserted' = {w}
          PROVE  \A f \in Fields : data'[w][f] = saved'[f]
      <3>1. w = u /\ inserted = {}
        BY <2>2, <2>3
      <3>2. saved = NoColumns /\ data[u] = brings[u]
        BY <1>3, <3>1 DEF CommitInsert, Kept
      <3>3. saved' = [f \in Fields |-> IF brings[u][f] # Blank THEN brings[u][f] ELSE Blank]
        BY <1>3, <3>2 DEF CommitInsert, Committed, Given, NoColumns
      <3> QED
        BY <2>2, <3>1, <3>2, <3>3
    <2>4. inserted' # {}
      BY <2>2
    <2> QED
      BY <2>1, <2>2, <2>3, <2>4 DEF Kept, Pending
  <1>4. ASSUME CommitUpdate(u)
        PROVE  Kept'
    <2> DEFINE w == target[u]
    <2>1. Pending /\ pc'[u] = "committed"
      BY <1>4, CommitPending
    <2>2. w \in inserted /\ inserted' = inserted
      BY <1>4 DEF CommitUpdate, IsInsert, Kept
    <2>3. \A v \in Rows : v # w => data'[v] = data[v]
      BY <1>4 DEF CommitUpdate
    <2>4. \A v \in Updates : pc[v] = "flushed" => v \notin inserted /\ v \in Rows
      BY SettingsAssumption DEF Numbered, Rows
    <2>5. ASSUME NEW v \in inserted', inserted' = {v}, NEW f \in Fields
          PROVE  data'[v][f] = saved'[f] \/ f \in skipped'
      <3>1. v = w /\ (data[w][f] = saved[f] \/ f \in skipped)
        BY <2>2, <2>5 DEF Kept
      <3>2. data'[w][f] = IF f \in Writes(u) THEN brings[u][f] ELSE data[w][f]
        BY <1>4, <2>2 DEF CommitUpdate
      <3>3. saved'[f] = IF f \in Given(u) THEN brings[u][f] ELSE saved[f]
        BY <1>4 DEF CommitUpdate, Committed
      <3>4. /\ Writes(u) \subseteq Given(u)
            /\ skipped \subseteq skipped'
            /\ f \in Given(u) \ Writes(u) /\ data[w][f] # brings[u][f] => f \in skipped'
        BY <1>4 DEF CommitUpdate, Writes
      <3> HIDE DEF w
      <3> QED
        BY <3>1, <3>2, <3>3, <3>4
    <2> HIDE DEF w
    <2>6. \A v \in Updates : pc'[v] = "flushed" => data'[v] = brings'[v]
      BY <2>1, <2>2, <2>3, <2>4 DEF Pending, Kept
    <2> QED
      BY <2>1, <2>2, <2>5, <2>6 DEF Kept, Pending
  <1>5. ASSUME InsertFails(u) \/ ClearCache(u) \/ RefreshFails(u)
        PROVE  Kept'
    BY <1>5, EndingPending, StillKept
  <1> QED
    BY <1>1, <1>2, <1>3, <1>4, <1>5 DEF Updating

-------------------------------------------------------------------------------
(* Updates one after the other *)

LEMMA OneRow ==
  ASSUME TypeInv, Alone, inserted # {}
  PROVE  inserted = {Latest} /\ Latest \in Rows /\ InForce = data[Latest]
  BY LatestIsRow DEF TypeInv, TypeOK, Alone, InForce

\* A step that changes neither table nor saves, nor makes an update active.
LEMMA StillAlone ==
  ASSUME TypeInv, Alone, UNCHANGED <<tableVars, skipped>>, Pending,
         \A u \in Updates : pc'[u] = pc[u] \/ pc'[u] = "done"
  PROVE  Alone'
  <1>1. InForce' = InForce
    BY InForceKept DEF TypeInv, tableVars
  <1>2. \A u \in Updates : /\ pc'[u] \in Active => pc[u] \in Active
                           /\ pc'[u] = "selected" => pc[u] = "selected"
                           /\ pc'[u] = "flushed" => pc[u] = "flushed"
    BY DEF Active
  <1> QED
    BY <1>1, <1>2 DEF Alone, Pending, tableVars

LEMMA ReadingAlone ==
  ASSUME TypeInv, Alone, NEW p \in Processes, Reading(p) \/ Restart(p)
  PROVE  Alone'
  <1>1. \A u \in Updates : pc'[u] = pc[u] \/ pc'[u] = "done"
    BY DEF Reading, Fetch, Fill, Restart, TypeInv, TypeOK
  <1> QED
    BY <1>1, ReadingPending, StillAlone

LEMMA UpdatingAlone ==
  ASSUME TypeInv, Kept, ~overlap => Alone, NEW u \in Updates, Updating(u), ~overlap'
  PROVE  Alone'
  <1> USE DEF TypeInv, TypeOK, At, tableVars, cacheVars, updateVars, causeVars
  <1>1. ~overlap /\ Alone
    BY DEF Updating, Select, Flush, InsertFails, CommitInsert, CommitUpdate, Committed,
           ClearCache, RefreshFails, Emptied
  <1>2. ASSUME NEW b \in Columns, Select(u, b)
        PROVE  Alone'
    <2>1. InForce' = InForce
      BY <1>2, InForceKept DEF Select
    <2>2. \A v \in Updates : v # u => pc'[v] = pc[v] /\ pc[v] \notin Active
      BY <1>2 DEF Select, Active
    <2>3. loaded'[u] = InForce /\ pc'[u] = "selected"
      BY <1>2 DEF Select
    <2>4. IF inserted = {} THEN target'[u] = u ELSE target'[u] \in inserted
      BY <1>2, LatestIsRow DEF Select
    <2>5. inserted' = inserted /\ data' = data /\ skipped' = skipped
      BY <1>2 DEF Select
    <2>6. \A v \in Updates : pc'[v] \in Active => v = u
      BY <2>2
    <2> QED
      BY <1>1, <2>1, <2>2, <2>3, <2>4, <2>5, <2>6 DEF Alone, Active
  <1>3. ASSUME Flush(u)
        PROVE  Alone'
    <2>1. inserted = {}
      BY <1>1, <1>3, SettingsAssumption DEF Flush, IsInsert, Alone, Numbered
    <2>2. pc'[u] = "flushed" /\ pc[u] = "selected"
      BY <1>3 DEF Flush
    <2>3. \A v \in Updates : v # u => pc'[v] = pc[v] /\ pc[v] \notin Active
      BY <1>1, <1>3 DEF Flush, Alone, Active
    <2>4. inserted' = inserted /\ skipped' = skipped
      BY <1>3 DEF Flush
    <2> QED
      BY <1>1, <2>1, <2>2, <2>3, <2>4 DEF Alone, Active
  <1>4. ASSUME InsertFails(u) \/ ClearCache(u) \/ RefreshFails(u)
        PROVE  Alone'
    <2>1. \A v \in Updates : pc'[v] = pc[v] \/ pc'[v] = "done"
      BY <1>4 DEF InsertFails, ClearCache, RefreshFails
    <2> QED
      BY <1>1, <1>4, <2>1, EndingPending, StillAlone
  <1>5. ASSUME CommitInsert(u) \/ CommitUpdate(u)
        PROVE  \A v \in Updates : /\ pc'[v] # "selected" /\ pc'[v] # "flushed"
                                  /\ pc'[v] \in Active => v = u
    <2>1. pc[u] \in Active
      BY <1>5 DEF CommitInsert, CommitUpdate, Active
    <2>2. \A v \in Updates : v # u => pc[v] \notin Active
      BY <1>1, <2>1 DEF Alone
    <2> QED
      BY <1>5, <2>2, CommitPending DEF Active
  <1>6. ASSUME CommitInsert(u)
        PROVE  Alone'
    <2>1. inserted' = {u} /\ skipped' = {} /\ u \in Rows
      BY <1>1, <1>6 DEF CommitInsert, Alone, Rows
    <2> QED
      BY <1>5, <1>6, <2>1 DEF Alone
  <1>7. ASSUME CommitUpdate(u)
        PROVE  Alone'
    <2> DEFINE w == target[u]
    <2>1. w \in inserted /\ loaded[u] = InForce /\ skipped = {}
      BY <1>1, <1>7 DEF CommitUpdate, IsInsert, Alone
    <2>2. inserted = {w} /\ w \in Rows /\ loaded[u] = data[w]
      BY <1>1, <2>1, OneRow
    <2>3. inserted' = {w}
      BY <1>7, <2>2 DEF CommitUpdate
    <2>4. \A f \in Given(u) \ Writes(u) : brings[u][f] = data[w][f]
      BY <2>2 DEF Writes, Given
    <2>5. skipped' = {}
      BY <1>7, <2>1, <2>4 DEF CommitUpdate
    <2> HIDE DEF w
    <2> QED
      BY <1>5, <1>7, <2>2, <2>3, <2>5 DEF Alone
  <1> QED
    BY <1>2, <1>3, <1>4, <1>6, <1>7 DEF Updating

-------------------------------------------------------------------------------
(* Every step *)

LEMMA NextInv ==
  ASSUME Inv, [Next]_vars
  PROVE  Inv'
  <1>1. TypeInv'
    BY NextTypeInv DEF Inv
  <1>2. StaleCacheHasCause'
    <2>1. CASE UNCHANGED vars
      <3>1. UNCHANGED <<inserted, id, data>>
        BY <2>1 DEF vars, tableVars
      <3>2. InForce' = InForce
        BY <3>1, InForceKept DEF Inv, TypeInv
      <3> QED
        BY <2>1, <3>2 DEF Inv, StaleCacheHasCause, Clearing, vars, cacheVars, updateVars, causeVars
    <2> QED
      BY <2>1, ReadingStale, UpdatingStale DEF Next, Inv
  <1>3. CASE UNCHANGED vars
    <2>1. UNCHANGED <<tableVars, saved, overlap, skipped>> /\ Pending
      BY <1>3 DEF vars, updateVars, causeVars, Pending
    <2> QED
      BY <1>1, <1>2, <1>3, <2>1, StillKept, StillAlone DEF Inv, vars
  <1>4. ASSUME Next
        PROVE  Kept'
    BY <1>4, ReadingPending, StillKept, UpdatingKept DEF Next, Inv
  <1>5. ASSUME Next, ~overlap'
        PROVE  Alone'
    <2>1. ASSUME NEW p \in Processes, Reading(p) \/ Restart(p)
          PROVE  Alone'
      BY <1>5, <2>1, ReadingPending, ReadingAlone DEF Inv
    <2> QED
      BY <1>5, <2>1, UpdatingAlone DEF Next, Inv
  <1> QED
    BY <1>1, <1>2, <1>3, <1>4, <1>5 DEF Inv

LEMMA Invariance == Spec => []Inv
  BY InitInv, NextInv, PTL DEF Spec

-------------------------------------------------------------------------------
(* Theorems *)

\* Table, caches and updates keep their types; ids are drawn within bounds.
THEOREM TypeCorrect == Spec => []TypeOK
  <1>1. Inv => TypeOK
    BY DEF Inv, TypeInv
  <1> QED
    BY <1>1, Invariance, PTL

\* With any number of processes and updates a process serves settings that are not
\* in force only for one of the four causes.
THEOREM StaleOnlyWithCause == Spec => []StaleCacheHasCause
  <1>1. Inv => StaleCacheHasCause
    BY DEF Inv
  <1> QED
    BY <1>1, Invariance, PTL

\* However many updates there are and however they overlap, a field in force is what
\* was saved for it last, unless two first updates have both inserted a row or an
\* update did not write it because it had loaded the value it brings; and neither
\* happens while updates are made one after the other.
THEOREM LostSaves == Spec => []LostSaveHasCause
  <1>1. ASSUME Inv
        PROVE  LostSaveHasCause
    <2>1. IsFiniteSet(Rows) /\ IsFiniteSet(inserted)
      <3>1. IsFiniteSet(Rows)
        BY SettingsAssumption, FS_AddElement DEF Rows
      <3> QED
        BY <1>1, <3>1, FS_Subset DEF Inv, TypeInv, TypeOK
    <2>2. Cardinality(inserted) \in Nat
      BY <2>1, FS_CardinalityType
    <2>3. Cardinality({}) = 0 /\ \A w : Cardinality({w}) = 1
      BY FS_EmptySet, FS_Singleton
    <2>4. ~(Cardinality(inserted) > 1) => inserted = {} \/ \E w : inserted = {w}
      BY <2>1, <2>2, FS_EmptySet, FS_Singleton
    <2>5. ASSUME NEW f \in Fields
          PROVE  InForce[f] = saved[f] \/ Cardinality(inserted) > 1 \/ f \in skipped
      <3>1. CASE inserted = {}
        BY <1>1, <3>1 DEF Inv, Kept, InForce
      <3>2. ASSUME NEW w, inserted = {w}
            PROVE  InForce[f] = saved[f] \/ f \in skipped
        <4>1. Latest = w /\ InForce = data[w]
          BY <1>1, <3>2, LatestIsRow DEF Inv, TypeInv, InForce
        <4> QED
          BY <1>1, <3>2, <4>1 DEF Inv, Kept
      <3> QED
        BY <2>4, <3>1, <3>2
    <2>6. ~overlap => ~(Cardinality(inserted) > 1) /\ skipped = {}
      BY <1>1, <2>3 DEF Inv, Alone
    <2> QED
      BY <2>5, <2>6 DEF LostSaveHasCause
  <1> QED
    BY <1>1, Invariance, PTL
===============================================================================
