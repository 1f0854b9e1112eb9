-------------------------------- MODULE Settings -------------------------------
(***************************************************************************)
(* The system configuration and the persona of the agent: one table each,  *)
(* of which the row with the highest id is in force, and one copy of that  *)
(* row in the memory of every process (API workers, arq workers).          *)
(*                                                                         *)
(* The two settings share their protocol and differ in three points, so a  *)
(* behaviour is about one of them (kind): a configuration update brings    *)
(* any of the fields, a persona update all of them; a missing              *)
(* configuration is not cached, a missing persona is cached as defaults;   *)
(* a first configuration without its required field is refused.            *)
(***************************************************************************)
EXTENDS Naturals, FiniteSets

CONSTANTS Processes,
          Updates,     \* the requests of administrators
          Earlier,     \* whoever inserted the row there may be at the start
          Fields,
          Required,    \* columns that may not be null (shopify_domain)
          Encrypted,   \* columns stored encrypted: no two writes are equal
          Values,
          Blank        \* a column nobody has set

ASSUME SettingsAssumption == /\ Required \subseteq Fields
                             /\ Encrypted \subseteq Fields
                             /\ Blank \notin Values
                             /\ Earlier \notin Updates
                             /\ IsFiniteSet(Updates)

VARIABLES kind,      \* "config" or "persona"
          inserted,  \* the committed rows, named by the update that inserted them
          id,        \* the id each update has drawn for its row, 0 for none
          data,      \* columns of those rows
          cache,     \* each process's copy, a set of at most one row's columns
          fetched,   \* columns its readers have selected and not yet cached
          pc,        \* where each update is
          process,   \* the process that handles it
          brings,    \* fields it sets, Blank for not given
          loaded,    \* columns of the row it has selected
          target,    \* that row, or its own when there was none
          saved,     \* history: value last committed for each field
          overlap,   \* history: did two updates ever overlap?
          skipped,   \* history: fields not written, that another update had changed
          remote,    \* history: processes with a copy from before another one's update
          refilled,  \* history: processes that cached a row replaced since it was read
          unclear    \* history: processes with a copy from before their update that failed late

tableVars == <<inserted, id, data>>
cacheVars == <<cache, fetched>>
updateVars == <<process, brings, loaded, target>>
causeVars == <<saved, overlap, skipped, remote, refilled, unclear>>
vars == <<kind, tableVars, cacheVars, pc, updateVars, causeVars>>

-------------------------------------------------------------------------------

Rows == Updates \cup {Earlier}
Columns == [Fields -> Values \cup {Blank}]
NoColumns == [f \in Fields |-> Blank]

\* ORDER BY id DESC LIMIT 1
Newest == {u \in inserted : \A v \in inserted : id[v] <= id[u]}
Latest == CHOOSE u \in Newest : TRUE
InForce == IF inserted = {} THEN NoColumns ELSE data[Latest]

Init == /\ kind \in {"config", "persona"}
        /\ inserted \in {{}, {Earlier}}
        /\ id = [w \in Rows |-> 0]
        /\ saved \in Columns
        /\ IF inserted = {} THEN saved = NoColumns
           ELSE \A f \in Fields : kind = "persona" \/ f \in Required => saved[f] # Blank
        /\ data = [w \in Rows |-> IF w = Earlier THEN saved ELSE NoColumns]
        /\ cache = [p \in Processes |-> {}]
        /\ fetched = [p \in Processes |-> {}]
        /\ pc = [u \in Updates |-> "idle"]
        /\ process \in [Updates -> Processes]
        /\ brings = [u \in Updates |-> NoColumns]
        /\ loaded = [u \in Updates |-> NoColumns]
        /\ target = [u \in Updates |-> u]
        /\ overlap = FALSE
        /\ skipped = {}
        /\ remote = {}
        /\ refilled = {}
        /\ unclear = {}

At(u, from, to) == /\ pc[u] = from
                   /\ pc' = [pc EXCEPT ![u] = to]

(* Reading: get_config, get_persona *)

\* A miss selects the row; without one only the persona has something to cache.
Fetch(p) == /\ cache[p] = {}
            /\ inserted # {} \/ kind = "persona"
            /\ fetched' = [fetched EXCEPT ![p] = @ \cup {InForce}]
            /\ UNCHANGED <<kind, tableVars, cache, pc, updateVars, causeVars>>

Fill(p, c) == /\ cache' = [cache EXCEPT ![p] = {c}]
              /\ fetched' = [fetched EXCEPT ![p] = @ \ {c}]
              /\ refilled' = IF c = InForce THEN refilled ELSE refilled \cup {p}
              /\ UNCHANGED <<kind, tableVars, pc, updateVars, saved, overlap, skipped, remote, unclear>>

(* Updating: update_config, update_persona *)

Given(u) == {f \in Fields : brings[u][f] # Blank}

Select(u, b) ==
    /\ IF kind = "persona" THEN \A f \in Fields : b[f] # Blank ELSE b # NoColumns
    /\ At(u, "idle", "selected")
    /\ brings' = [brings EXCEPT ![u] = b]
    /\ loaded' = [loaded EXCEPT ![u] = InForce]
    /\ target' = [target EXCEPT ![u] = IF inserted = {} THEN u ELSE Latest]
    /\ overlap' = (overlap \/ \E v \in Updates : pc[v] \in {"selected", "flushed", "committed"})
    /\ UNCHANGED <<kind, tableVars, cacheVars, process, saved, skipped, remote, refilled,
                   unclear>>

IsInsert(u) == target[u] = u

\* What updates have selected, and were given, is not needed any more.
Forget(U) == /\ brings' = [u \in Updates |-> IF u \in U THEN NoColumns ELSE brings[u]]
             /\ loaded' = [u \in Updates |-> IF u \in U THEN NoColumns ELSE loaded[u]]
             /\ target' = [u \in Updates |-> IF u \in U THEN u ELSE target[u]]
             /\ UNCHANGED process

\* Mutation: the row has only the columns that are given.
FlushGiven(u) == /\ At(u, "selected", "flushed")
                 /\ IsInsert(u)
                 /\ kind = "config" => Required \subseteq Given(u)
                 /\ id' = [id EXCEPT ![u] = 1 + Cardinality({v \in Updates : id[v] # 0})]
                 /\ data' = [data EXCEPT ![u] = [f \in Given(u) |-> brings[u][f]]]
                 /\ UNCHANGED <<kind, inserted, cacheVars, updateVars, causeVars>>

\* The INSERT draws its id; a missing required column is refused.
Flush(u) == /\ At(u, "selected", "flushed")
            /\ IsInsert(u)
            /\ kind = "config" => Required \subseteq Given(u)
            /\ id' = [id EXCEPT ![u] = 1 + Cardinality({v \in Updates : id[v] # 0})]
            /\ data' = [data EXCEPT ![u] = brings[u]]
            /\ UNCHANGED <<kind, inserted, cacheVars, updateVars, causeVars>>

InsertFails(u) == /\ At(u, "selected", "done")
                  /\ IsInsert(u)
                  /\ kind = "config" /\ ~(Required \subseteq Given(u))
                  /\ Forget({u})
                  /\ UNCHANGED <<kind, tableVars, cacheVars, causeVars>>

\* The end of a commit by u, and its history.
Committed(u) == /\ saved' = [f \in Fields |-> IF f \in Given(u) THEN brings[u][f] ELSE saved[f]]
                /\ remote' = remote \cup {p \in Processes \ {process[u]} : cache[p] # {}}
                /\ Forget({u})
                /\ UNCHANGED <<overlap, refilled, unclear>>

CommitInsert(u) == /\ At(u, "flushed", "committed")
                   /\ inserted' = inserted \cup {u}
                   /\ Committed(u)
                   /\ UNCHANGED <<kind, id, data, cacheVars, skipped>>

\* Mutation: fields that are not given are blanked.
WritesAll(u) == Fields

\* The columns the UPDATE writes: those given whose value differs from the loaded one.
Writes(u) == {f \in Given(u) : f \in Encrypted \/ brings[u][f] # loaded[u][f]}

CommitUpdate(u) ==
    /\ At(u, "selected", "committed")
    /\ ~IsInsert(u)
    /\ data' = [data EXCEPT ![target[u]] =
          [f \in Fields |-> IF f \in Writes(u) THEN brings[u][f] ELSE @[f]]]
    /\ skipped' = skipped \cup {f \in Given(u) \ Writes(u) : data[target[u]][f] # brings[u][f]}
    /\ Committed(u)
    /\ UNCHANGED <<kind, inserted, id, cacheVars>>

\* Mutation: the cache is not cleared.
NoClear(u) == /\ At(u, "committed", "done")
              /\ UNCHANGED <<kind, tableVars, cacheVars, updateVars, causeVars>>

\* With its copy a process loses what made it wrong.
Emptied(p) == /\ cache' = [cache EXCEPT ![p] = {}]
              /\ remote' = remote \ {p}
              /\ refilled' = refilled \ {p}
              /\ unclear' = unclear \ {p}
              /\ UNCHANGED <<saved, overlap, skipped>>

ClearCache(u) == /\ At(u, "committed", "done")
                 /\ Emptied(process[u])
                 /\ UNCHANGED <<kind, tableVars, fetched, updateVars>>

\* The refresh after the commit fails: the update is reported as failed.
RefreshFails(u) == /\ kind = "config"
                   /\ At(u, "committed", "done")
                   /\ unclear' = unclear \cup {process[u]}
                   /\ UNCHANGED <<kind, tableVars, cacheVars, updateVars, saved, overlap,
                                  skipped, remote, refilled>>

\* A process that dies takes its cache and its requests with it.
Restart(p) == /\ Emptied(p)
              /\ fetched' = [fetched EXCEPT ![p] = {}]
              /\ pc' = [u \in Updates |-> IF process[u] = p /\ pc[u] # "idle" THEN "done" ELSE pc[u]]
              /\ Forget({u \in Updates : process[u] = p})
              /\ UNCHANGED <<kind, tableVars>>

-------------------------------------------------------------------------------

Reading(p) == Fetch(p) \/ \E c \in fetched[p] : Fill(p, c)

Updating(u) == \/ \E b \in Columns : Select(u, b)
               \/ Flush(u) \/ InsertFails(u) \/ CommitInsert(u) \/ CommitUpdate(u)
               \/ ClearCache(u) \/ RefreshFails(u)

Next == \/ \E p \in Processes : Reading(p) \/ Restart(p)
        \/ \E u \in Updates : Updating(u)

Spec == Init /\ [][Next]_vars

-------------------------------------------------------------------------------
(* Properties *)

\* Type of the table, the caches and the updates.
TypeOK ==
    /\ kind \in {"config", "persona"}
    /\ inserted \subseteq Rows
    /\ id \in [Rows -> 0..Cardinality(Updates)]
    /\ data \in [Rows -> Columns]
    /\ cache \in [Processes -> SUBSET Columns]
    /\ fetched \in [Processes -> SUBSET Columns]
    /\ pc \in [Updates -> {"idle", "selected", "flushed", "committed", "done"}]
    /\ process \in [Updates -> Processes]
    /\ brings \in [Updates -> Columns]
    /\ loaded \in [Updates -> Columns]
    /\ target \in [Updates -> Rows]
    /\ saved \in Columns
    /\ overlap \in BOOLEAN
    /\ skipped \subseteq Fields
    /\ remote \subseteq Processes
    /\ refilled \subseteq Processes
    /\ unclear \subseteq Processes

Clearing(p) == \E u \in Updates : process[u] = p /\ pc[u] = "committed"

\* A process serves settings that are not in force only while its own update is
\* about to clear them, or because another process made the update, a reader that
\* had selected the old row cached it later, or the update failed after its commit.
StaleCacheHasCause ==
    \A p \in Processes : cache[p] \ {InForce} # {} =>
        Clearing(p) \/ p \in remote \cup refilled \cup unclear

\* Each field in force is what was saved for it last, also when partial updates
\* overlap, since they write their own columns only.  Two things lose a field: two
\* first updates that both insert, and an update that does not write a column because
\* it had loaded the value it brings, while another one changed it.  Updates made one
\* after the other do neither.
LostSaveHasCause ==
    /\ \A f \in Fields : InForce[f] = saved[f] \/ Cardinality(inserted) > 1 \/ f \in skipped
    /\ Cardinality(inserted) > 1 \/ skipped # {} => overlap
===============================================================================
