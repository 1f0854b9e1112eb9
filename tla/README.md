# Verification of the customer-support AI backend

TLA+ models, TLC runs and TLAPS proofs about the FastAPI backend in `src/app`.
The backend lets an AI answer shop customers over WebSockets, escalates to human
staff, and lets staff take conversations over. Several API replicas and arq
workers share one PostgreSQL database (READ COMMITTED, one session per request)
and one Redis, which carries the job queue and a publish/subscribe bus to the
sockets. Nothing takes a row lock or checks a row version; almost every property
below is about what that permits.

## Inventory

| component | state | operations | what is hard | what makes it correct |
|---|---|---|---|---|
| Conversation hand-off: `endpoints/conversations.py`, `endpoints/chat.py`, `tools/escalation_tools.py` | `conversations.status`, `assigned_user_id`, `tickets` | takeover, release, staff message, customer message, escalation | every endpoint reads, decides and writes in separate steps; the kill switch is read once per message; runs overlap with takeovers | the AI answers no message that arrived under a human; handling ends only by a release; one assignee, who exists |
| AI run: `worker.py`, `core/queue.py`, `services/agent_orchestrator.py` | arq jobs and their tries, the local variables of a run, `total_token`/`total_cost`, stored messages | enqueue or inline run, start, model call, save, publish, acknowledge, timeout, crash and retry | crash between save and publish, job executed again, absolute write of a sum, silent error paths | bounded answers, history before sending, totals that match the messages, an answer for every typing indicator |
| Staff accounts: `endpoints/auth.py`, `api/dependencies.py` | `users` | login, register, update, delete | check-then-write uniqueness, deletion while a request is in flight | unique emails, no dangling assignee, a superadmin remains |
| Connections: `services/websocket_manager.py`, `endpoints/inbox.py`, `core/redis.py` | socket lists per process, the listener's subscription | connect, disconnect, publish, local broadcast, reconnect | lists change while a broadcast awaits, gaps while reconnecting, publish order differs from commit order | open sockets are registered and get what is delivered; the last status shown is the row's |
| Knowledge base: `endpoints/kb.py`, `services/knowledge_service.py` | documents, `embedding_status`, chunks | create, update, upload, delete, reprocess, store sync, embedding job | update in two transactions, jobs that overlap or are executed again, deletion during a job | a completed document's chunks are exactly its content's |
| Product catalogue: `endpoints/products.py`, `endpoints/webhook.py`, `knowledge_service.py` | products, `static_hash`, vectors | full sync, webhooks, delete, embedding task | unordered webhooks, two syncs, tasks lost in a restart | the catalogue converges to the store's; vectors belong to the hash |
| Settings: `persona_manager.py`, `config_manager.py`, `endpoints/config.py` | one table each, of which the newest row is in force, one cache per process | get, update, clear, restart | refill after clear, other processes never cleared, two first updates, columns not written because they seem unchanged | a read after an update sees it; what was saved last is in force |
| Provider fallback: `models_manager.py` | cooldowns, active providers (class level) | get LLM, get embedding model, health check, error callback, invoke with fallbacks | shared state across awaits, clock read once | a provider in cooldown is skipped, a healthy one is found |
| CSAT feedback, tickets | one row per conversation, ticket status | submit, update | check-then-insert | one feedback per conversation |
| Shopify gateway: `shopify_controller.py`, `tools/shopify_tools.py`, `utils/network_retry.py` | the breaker's counter, pages gathered by an attempt | tools and syncs, retry, report | pages lost or doubled by a retry, refusals taken for an end, a breaker around coroutines | an answer is whole; a failure is reported; a call ends |
| Alerts and error log: `telegram_service.py`, `core/exceptions.py` | error rows, alert jobs | fire, enqueue, send, log | tasks nobody awaits, a process that dies before its task ran | no row without its alert fired |
| Analytics, operational hours, security, start-up, deployment | mostly none | | | see *Not modelled* |

`PROJECT.json` lists every component with its status, and every hazard at the line
where it bites with the properties that cover it, or why none does.

## Modules

| module | models | states of the code it keeps |
|---|---|---|
| `KillSwitch` | abstract specification: what the hand-off promises a customer | position of the switch, verdict per message, answers per message |
| `Handoff` | the hand-off, one conversation | the row, the users, open tickets, local state of staff requests and of messages |
| `AgentJob` | the AI runs of one conversation step by step | token total, usage of stored answers, local state of each handler/job/run |
| `KnowledgeDocs` | one knowledge base document, its chunks, the requests about it and their embedding jobs | the row, copies of each content's chunks, local state of each request and job |
| `ProductCatalog` | the store, the rows of its products, webhooks, syncs, deletions and embedding tasks | hash, title and status of each row, vectors, webhooks on their way, local state of each request and its tasks |
| `Settings` | system configuration and persona, and their copies in every process | rows and ids, caches, rows selected and not yet cached, local state of each update |
| `Connections` | one socket list of one API process and the messages published to it | the list, sockets and handlers, the subscription and its buffer, the listener's loop |
| `Alerts` | what becomes of reported errors (instantiated by `ShopifyGateway`) | error rows, where each alert is |
| `ShopifyGateway` | calls to Shopify: breaker, retry, requests of an attempt, reports | the breaker's counter, local state of each call |
| `Providers` | the choice of a chat or embedding provider in one process | cooldowns, active providers, local state of each request, a clock |
| `Handoff_proofs`, `AgentJob_proofs`, `KnowledgeDocs_proofs`, `ProductCatalog_proofs`, `Settings_proofs`, `ShopifyGateway_proofs`, `Providers_proofs`, `Connections_proofs` | theorems about these modules | |
| `MCHandoff`, `MCAgentJob`, `MCKnowledgeDocs`, `MCProductCatalog`, `MCSettings`, `MCConnections`, `MCShopifyGateway`, `MCProviders` | instances for TLC | |

`Handoff` implements `KillSwitch` (`KillSwitchKept`), and `AgentJob` implements the
message handling of `Handoff` (`RunsAsHandoff`): an answer in `Handoff` is a publish
in `AgentJob`, all its other steps are steps before or after it. `ShopifyGateway`
instantiates `Alerts`: a failed call fires an alert and writes a row by `Alerts`'
own operators, and the alerts move on by its steps.

Most properties that are not plain invariants have the form *this goes wrong only for
that cause*: the code permits the fault, and the property says exactly which
interleaving it takes. The causes are history variables, named as such where they
are declared; no guard and no other variable depends on them. Operators commented
*Mutation* are plausible bugs with which a definition is replaced to show that a
property notices.

### Handoff and the code

- A staff request is two steps, the `db.get` with the guard that follows it
  (`TakeoverRead`, `ReleaseRead`, `SendRead`) and the commit (`TakeoverCommit`, ...).
  Between them the request's session keeps what it read in `req[r]`.
  Authentication is part of the read: both are queries without effect.
- The ORM's `UPDATE` names only columns whose value differs from the one loaded.
  `Flushed` models that; it is why a takeover and a release can interleave column by
  column (for example a release that read `active_ai` and an assignee writes only
  the assignee).
- `assigned_user_id` has a foreign key with `ON DELETE SET NULL`: `DeleteUser` clears
  it, `TakeoverCommit` is refused for an account that is gone.
- A customer message is a record `msg[m]` whose `pc` follows the WebSocket handler
  (`read`, `saved`), the queue (`queued`) and the run (`running`, `answered`).
  `seen` is the status the handler read before it saved the message: the only
  status the kill switch ever looks at.
- `Escalate` is the tool's single transaction: an unconditional `UPDATE` and a ticket.
  The run may do it at any point before it answers.
- `late` is a history variable: the messages already read when the current human
  handling began.

### AgentJob and the code

- `Receive` reads the row (the handler's session keeps it), `ShowTyping` stands for
  save, broadcast and typing indicator, `Enqueue`/`EnqueueFails`/`RunInline` for the
  three outcomes of the `try` that hands the message to the AI.
- In `run_agentic_loop`, `LoadTotal` is the `db.get` of the conversation. In a worker
  the session is new and reads the row; an inline run's session already holds the
  object the handler loaded (identity map, `expire_on_commit=False`) and adds to that.
- `Save` writes `loaded + tokens`, an absolute value. With no tokens the attribute
  does not change and the column is not written.
- `ThinkFails` is the `except` of the loop (an apology, no tokens, saved and sent);
  `LLMInitFails` is the other `except`, whose apology is only returned.
- `WorkerDies` may strike at any control point of a run, and arq executes the job
  again while `max_tries` allows; an exception or `job_timeout` ends the job for good.
- What may go wrong is the constant `Faults`; runs choose from `FaultKinds`.

### KnowledgeDocs and the code

- A content is named by the request that brought it, and `chunks[v]` counts the copies
  of its chunks in the index. Only *whose* text the index holds matters to the
  properties.
- A request that changes a document reads it (`UpdateRead`, `SyncRead`, ...) and commits
  later; the update's second transaction, which deletes the chunks, is `UpdateClear`.
  The sync has no such step: its document keeps the old chunks.
- A request that starts a job goes on as that job: `Load`, `MarkProcessing`, `Embed`,
  `Store`, `Acknowledge` are the stretches of `process_document` between its awaits on
  the database and the embedding provider. The text is read once, by `Load`.
- `MarkFailed` is the error handler after an embedding error. After a failed flush its
  own commit raises (`StoreFails`), an `UPDATE` of a deleted row raises
  (`MarkProcessing`), and a cancellation passes it by (`JobTimesOut`).
- Deletion takes the chunks along, by the ORM's cascade and the foreign key's; the same
  key refuses chunks of a deleted document (`Store`).
- `hit`, `replaced` and `overlap` are history variables. `hit` has the requests and jobs
  that a fault has *ended*: a crash that leaves arq an execution is repeated and is none
  of them, and no property makes an exception for it.

### ProductCatalog and the code

- A product's data is its version in the store. Of the columns the title and the hash
  are kept: the title may come back to an earlier value, the hash may not, and without
  an image the sync and the webhook hash different things (`Digest`), so that a sync
  rewrites a row a webhook wrote.
- `HookUpsert`, `SyncSelect` and the deletions select the rows, a sync one row after the
  other (`SyncSelectLater`); `Upsert` compares the
  hashes of what was selected (`Changed`) and commits all rows of the request at once.
  It writes a column only if it differs from the one loaded (`Flushed`), which is how two
  requests can leave the title of one version with the hash of another.
- A row inserted or deleted by another request makes the flush raise (`UpsertFails`);
  Shopify then delivers the webhook again, a sync is lost whole.
- `BackgroundTasks` run after the response, one after the other: `Load`, `MarkProcessing`,
  `EmbedAndDelete` and `Store` are the stretches of `process_product_embedding`, and an
  exception (`MarkFailed`, `FlushFails`) or a crash takes the tasks behind it along.
- `doomed` is what the `DELETE` of the old vectors saw: what another task stores after
  it stays.

### Settings and the code

- A behaviour is about the configuration or about the persona (`kind`). They share the
  protocol and differ in three guards, named in the module's header.
- `Fetch` and `Fill` are the two halves of a cache miss, with the await on the query
  between them. `Select`, `Flush` with `CommitInsert` or `CommitUpdate`, and
  `ClearCache` are those of an update; `RefreshFails` is the exception between the
  commit and the clearing.
- The row in force is the one with the highest id, and ids are drawn by the INSERT, not
  by the commit: of two first updates the one that commits first may hide the other.
  The table is empty at the start or has a row (`Earlier`'s).
- `saved` is what was last committed for each field, and `skipped` the fields whose
  column a commit did not write, since its update had loaded the value it brings, though
  another one had changed it in between. Both are history variables.
- An encrypted column is written whenever it is given, since no two ciphertexts are equal.

### Connections and the code

- A behaviour is about one list (`audience`): the dashboards', a conversation's customers',
  or that of an id that is no UUID. `list` is the Python list the manager iterates.
- `Take`, `SendNext` and `Finish` are the listener's loop. The loop goes by index, as
  Python's does, so a socket removed before the index makes the loop skip one
  (`shifted`); when the last customer leaves, the dictionary entry is deleted and the
  loop goes on with a list nobody else has (`detached`).
- `Disconnect` differs between the two handlers as the code does: the customers' catches
  every error, the dashboards' only `WebSocketDisconnect` (`Breaks`); an id that is no
  UUID returns without disconnecting (`Refuse`).
- `Commit` and `Publish` are two steps of a request anywhere in the system;
  `ListenerFails` loses what the connection held, and nothing is delivered again.

### ShopifyGateway, Alerts and the code

- `Breaker` is what `pybreaker` does with a coroutine function: it calls it, gets a
  coroutine and counts a success, before any request is made.
- `Start` begins an operation; `NextPart`, `LastPart`, `Single`, `TryById`,
  `PagesRefused` and `TakenForEnd` are the requests of one attempt; `AttemptFails`,
  `AttemptLogged`, `Retry`, `GiveUp` are `network_retry` and the handlers inside and
  around it. A retry calls the function again, with nothing gathered.
- A sync runs in the API process, which has a queue for its alerts; a tool runs in a
  worker, which has none. `Fire` has both branches; `Enqueue`, `Post` and their failures
  are the tasks and the job. Every failed attempt inside a sync is reported, then the
  call as a whole by the application's handler; of a tool only the call.
- A call may end unheard. `Crash` is the death of its process; `Cancel` is the worker's
  `job_timeout`, which cancels a tool's call wherever it waits. The process lives on then,
  but a `CancelledError` is no `Exception`: `except Exception` in `network_retry` and in
  the tools passes it by, and nothing is reported.

### Providers and the code

- `Begin` computes the order of providers and reads the clock once (`since`), as the code
  does. `Skip` and `InitFails` are rounds of the loop that do not wait; `Check` looks at the
  cooldown and asks for an answer, `Healthy`, `EmbedHealthy`, `Unhealthy` and
  `EmbedUnhealthy` are what comes of it, and in between other requests run.
- A chat provider whose check fails has its cooldown written twice. The model's callback
  sets it to a `Cooldown` from now (`models_manager.py:218`, `Unhealthy`); when the awaited
  call has unwound, the handler of a rate limit or a refused key sets it to a `Cooldown`
  from the start of the request (`:258`, `Unwind`), which is earlier by as long as the
  checks have taken. So a request with no other beside it shortens its own cooldown; the
  log's "Cooldown for 60s" is too much by that time.
- `LlmFails` is the callback, `EmbedFails` the embedding's own handler. They share the
  cooldowns and not the active providers.
- A usable chat provider joins `chain` and the loop goes on; `Choose` makes the first of
  them active, `InvokeFails` is `with_fallbacks` going to the next.
- The program calls `get_static_llm` and the static embedding model; the automatic ones
  are its offered interface and are modelled with it.

## Runs

| run | configuration | shows |
|---|---|---|
| `handoff` | 2 staff, 2 staff requests, 2 messages, 2 tries, pool may be missing; symmetric in requests and in messages | types; `KillSwitchHorizon`; `HandlingEndsByReleaseOrLateRun`; `AssigneeExists`; `WaitingHasTicket`; `AnomalyNeedsStaleRead`; refinement `KillSwitchKept` |
| `handoff_demoted` | 2 staff requests, 1 message | **violated**: human handling is left for `waiting_human` |
| `agent_job` | 2 messages, 2 tries, calls of 1 or 2 tokens, every fault | types; `TotalNeverOvercharges`; `LossNeedsStaleTotal`; `SilenceNeedsFault`; `StoredBeforeSent`; `JobsSettle`; refinement `RunsAsHandoff` |
| `agent_job_typing` | no fault but `llm` | **violated**: typing indicator without an answer |
| `knowledge_docs` | 3 requests (symmetric), 2 tries, every fault | types; `NoOrphanChunks`; `ProcessingIsWorkedOn`; `SequentialUseIndexes`; `OutdatedHasCause` |
| `knowledge_docs_update` | 2 requests, no fault at all | **violated**: a completed document whose content is not in the index |
| `product_catalog` | 2 products, one without an image, 2 requests (symmetric), 3 versions, 2 webhooks on their way, every fault | types; `StaleRowHasCause`; `TornRowHasCause`; `CompletedIsFindable`; `ForgottenHasCause` |
| `settings` | 2 processes, 2 updates, 2 values of 2 fields, one required and one encrypted, a row at the start or none; all symmetric | types; `StaleCacheHasCause`; `LostSaveHasCause` |
| `connections` | 3 sockets, 2 messages | types; `MissHasCause`; `StaleStatusHasCause`; `RegisteredWhileHandled`; `DrainsEventually` |
| `shopify_gateway` | one call at a time, 3 attempts, up to 2 pages | types; `AnswerIsWhole`; `RaisedIsReported`; `CallsEnd` |
| `shopify_breaker` | 5 failures in a row | **violated**: the breaker never opens |
| `providers` | 3 providers in the default lists' shape, 2 requests (symmetric), cooldown 2, time to 3 | types; `ActiveCoolingHasCause`; `FailedHasCause`; `CooldownKept` |

What the passing runs say, in the code's terms:

- The kill switch is late by exactly the messages that were past their read when the
  human took over, never by a later one (`KillSwitchHorizon`), and a message that
  arrived under a human is never answered by the AI (`KillSwitchKept`).
- A human handling ends by a release or because one of those late runs escalates
  (`HandlingEndsByReleaseOrLateRun`).
- Two staff members in one conversation, a row with a human but no assignee or with an
  assignee who may not write, and a staff message while the AI is in charge need a
  request that commits on a row changed since its read (`AnomalyNeedsStaleRead`); the
  other two sources are the deletion of the assignee's account and the escalation of
  a run that was under way when the handling began.
- The total of a conversation never exceeds what its stored answers used, and what is
  missing was lost by a save on a stale read (`TotalNeverOvercharges`,
  `LossNeedsStaleTotal`): retries store and charge twice alike.
- Whatever is sent was stored before unless the save itself failed
  (`StoredBeforeSent`); a run that ends in silence was struck by a fault outside the
  loop's own error handling (`SilenceNeedsFault`).

- Requests about a document made one after the other, none of them ended by a fault, leave
  the index as its status says, repeated executions included (`SequentialUseIndexes`). Overlapping ones may leave chunks of an older content, but
  only by an update's first half, a sync, or a job whose text was replaced under it
  (`OutdatedHasCause`), never chunks of a deleted document (`NoOrphanChunks`); and
  `processing` is only ever left behind by a fault that ended a job after it had read the
  document (`ProcessingIsWorkedOn`): one whose worker died is worked on by its next
  execution, as long as there is one.

- When everything about a product is delivered, its row is the store's, unless staff
  deleted it or an older version was written after a newer one (`StaleRowHasCause`); its
  columns are of one version unless two requests wrote over each other
  (`TornRowHasCause`). A completed product has vectors, under every interleaving of
  tasks and deletions and every fault (`CompletedIsFindable`): deleting and inserting in
  one transaction is what keeps it. One whose text is not what searches find awaits a
  task, or a task of it failed, died, never ran, or had its row changed under it
  (`ForgottenHasCause`).
- A process serves settings that are not in force while its own update is about to clear
  them, and else for one of three causes (`StaleCacheHasCause`): the update was another
  process's, a reader cached what it had selected before, or the update failed after its
  commit. A field in force is
  what was saved for it last, however partial updates overlap, unless two first updates
  have both inserted a row, or an update did not write the field because it had loaded the
  value it brings; updates made in turn do neither (`LostSaveHasCause`).
- A socket misses a message that was delivered only if another socket left the list
  under the loop (`MissHasCause`); the status it shows last is the last committed of those
  it should have, unless a message was missed so, or two requests published in another
  order than they committed (`StaleStatusHasCause`). A socket with a client is registered,
  and one whose handler ended is not, but for the two leaks named in
  `RegisteredWhileHandled`. No socket's coming, going or failing keeps the loop from its
  end (`DrainsEventually`).
- An answer of Shopify has every part once, whatever attempts failed before, unless a
  refusal was taken for the end: then it is empty, and only the store's pages pass for
  whole with some of their parts (`AnswerIsWhole`). A call that raised was reported, each
  failed attempt of a sync too (`RaisedIsReported`), with three exceptions: its process
  died, `job_timeout` cancelled it, or a tool took a `ValueError` (an answer that is no
  JSON) for a missing configuration. What stays open, by design of the code, is an alert
  lost after its row was written as sent.
- The active chat provider is not one that cools down, unless requests overlapped or an
  embedding request put it there (`ActiveCoolingHasCause`). A cooldown is shortened by
  overlapping requests; a request alone shortens only the one its own health check has
  just written, to no less than `Cooldown` from its start, and never one that an earlier
  request or another provider left (`CooldownKept`). A request that fails was failed by every
  provider of its list (`FailedHasCause`).

The four violated runs are disagreements between the code and its own documents;
`PROJECT.json` quotes both sides under `findings`:

- an escalation after a takeover (`escalation_tools.py:32`) against the status cycle in
  `models/conversation.py:28-29`. The staff member stays assigned, may not write
  (`conversations.py:169`), and the AI answers again;
- the apology that is never sent (`agent_orchestrator.py:187`) against
  `docs/frontend/state-machine.md`;
- an update that overlaps an embedding job (`kb.py:198`) against the endpoint's own
  description (`kb.py:173`): the document ends as `completed` with an empty index, or
  with the old text only;
- the breaker around coroutine functions (`shopify_controller.py:40`) against the comment
  on it (`:23`).

Others follow from a passing property's exception and have no run of their own: the
loop checks no status before it calls the model (`agent_orchestrator.py:217` against
`docs/architecture.md:150` and `:170`; `KillSwitchHorizon` says how late that may be),
totals lose updates (`agent_orchestrator.py:351` against `docs/api-spec.md:123`;
`LossNeedsStaleTotal`), a persona update is not seen by the other three API workers of
the `Dockerfile` (`endpoints/config.py:106`; `StaleCacheHasCause`), and a broadcast to
"all dashboard connections" skips one when another leaves (`websocket_manager.py:89`;
`MissHasCause`). Three more are of that kind:

- under `waiting_human` a customer's message bypasses the model and gets a placeholder, says
  `docs/architecture.md:152`; `chat.py:95` stops the AI only under `human_handling`, and
  there is no placeholder. The abstract `KillSwitch` is switched by `human_handling` alone, so a message read under
  `waiting_human` is the AI's in `KillSwitchKept` and `KillSwitchHorizon`;
- `get_store_information` is to "Fetch all pages and policies"
  (`shopify_controller.py:376`), and answers with what it has when a page is refused
  (`:418`; the third case of `AnswerIsWhole`);
- `telegram_sent_status` is written as true before any alert is sent
  (`telegram_service.py:174`, `agent_orchestrator.py:96`), where
  `docs/database-schema.md:155` and `:165` have rows that are false until they are
  broadcast; `Alerts` therefore keeps the alert's own fate apart from its row.

### Bounds

Everything but the constants is unbounded by itself or bounded by the code.

- `MaxTries` is the code's `max_tries` (3), checked with 2: one execution and one retry
  are the two cases it distinguishes. `MaxTickets` caps the escalations by the runs of one
  message (one is enough to demote a conversation). Two messages are needed to tell a
  late message from one read during the handling, and two runs to lose an update; two
  requests to make a read stale.
- Three requests about a document are the least with which a content is replaced
  twice, or replaced and deleted, while a job runs.
- `MaxVersion` and `MaxHooks` cap the store's changes and the webhooks on their way; the
  store rests when no request is left to come. Three versions are the least with which a
  title comes back to its old value under a new hash, two webhooks the least that can
  overtake each other.
- Two updates are enough to overlap, and two processes for one that is not told.
- Three sockets are the least with which one that leaves shifts another past the loop's
  index; two messages can be received out of order.
- `MaxRetries` is the code's own. `MaxParts` caps the pages of an answer: one that is
  followed by another and one that is not. A call begins again only when its reports have
  arrived or are lost. `FailMax` is 5 in the code and in the run about the breaker; the
  other run has 1, since the counter returns to zero at each call.
- `Cooldown` and `MaxTime` are so small because only their order matters: a cooldown may
  end, may be counted from the start of the request or from the failure, and be shortened.

The theorems hold for every value of these constants.

Deadlock is not checked in the runs of `AgentJob`, `KnowledgeDocs` and `ProductCatalog`:
every message and every request may be through. In all others it is.

### Fairness

- `Handler(j) \/ Run(j)` (`AgentJob`) is weakly fair: the event loop resumes a ready
  coroutine and the workers keep polling the queue, so a message in the service's hands
  keeps moving. A crash counts as a move, and settling (`JobsSettle`) holds because
  tries are bounded.
- `Deliver` (`Connections`) is weakly fair: the listener is one task of the event loop, and
  a send either returns or raises. Sockets may come and go forever under it.
- `Step(c)` (`ShopifyGateway`) is weakly fair: a request is answered or times out
  (`httpx` has a timeout), and a waiting retry wakes up. Crashes, new calls and alerts are
  not fair.

Customers, staff, the AI's decision to escalate, the store, account deletions and
reconnects are not fair. Nothing assumes that a particular outcome is chosen.

## Proofs

Checked by TLAPS for all values of the constants under the modules' assumptions: names
for NULL that are no members, positive bounds (`MaxTries`, `MaxVersion`, `MaxRetries`,
`FailMax`, `MaxParts`), natural tokens, required and encrypted fields among the fields,
and finitely many updates (ids are counted).

`Handoff_proofs`

- `TypeCorrect`: types, with the bounds on tries and answers. Answers are bounded only
  together with the tries left and the execution under way, so the type invariant is
  strengthened by that sum (`TypeInv`).
- `KillSwitchHolds`, by the invariant `Horizon`: while a human handles the conversation,
  every message not in `late` that was read was read as `human_handling`, and such
  messages are never enqueued.
- `HandlingEnds`, `AnomaliesAreStale`: action properties, from the guard each request passed at
  its read and what it still holds (`RequestsGuarded`).
- `AssigneeStaysReal`: also the assignee a request has *read* must be considered, since a
  commit that finds its user already assigned does not write the column.
- `WaitingIsTicketed`: tickets are never removed.
- `KillSwitchRefined`: `Spec => KillSwitchKept`, step by step; status changes map to `Flip`,
  the read to `Arrive`, an answer to `Speak`, all else stutters.

`AgentJob_proofs`, all from one inductive invariant

- `Attempts`: answers sent (and stored), executions left and the one under way never
  exceed `MaxTries`;
- `Stored`: stored answers are ahead of sent ones, by one when about to publish;
- `Explained`: a published answer was counted, a silent end was a fault;
- `Ledger`: the total, and every total a run still holds, is at most the usage. The
  second half is needed because a stale value may be written long after it was read.

It gives `TypeCorrect`, `TotalIsBounded`, `SilenceIsExplained`, `SentIsStored` and, with one
lemma on what `Save` charges, the action property `LossesAreStale`.

`RunsRefineHandoff` proves `Spec => RunsAsHandoff`, step by step (`JobRefines`): receiving
is `Handoff`'s arrival, a publish its answer, an execution that begins or begins again its
own, and all between stutters. `Attempts` is needed there too, since `Handoff` counts
the executions left.

`WorkIsBounded` is the safety half of `JobsSettle`: each step of a job, arq's repeated
executions and the faults included, lowers a number (`Work`) that is at most
`7 * MaxTries + 6` and that no other job's step touches.

`KnowledgeDocs_proofs`

- `Typing` needs that a queued job has an execution left (`Granted`).
- `Orphans` is inductive over the types; `Processing` over them and over the fact that a
  running job has read a content (`Loaded`).
- `OutdatedCauses` rests on `Marked`: a running job's text is the row's content unless
  that was replaced since, and no job runs before there is a row.
- `SequentialUse` follows the one request under way through its stages (`Stage`): the
  index is what the row says (`Index`) but for what that request is about to change, and
  nobody else is under way (`Alone`), as long as nothing overlapped and no fault ended a
  request.

`ProductCatalog_proofs`

- `TypeCorrect` needs `Phases`: where a request is tells who makes it and what it still
  brings or embeds.
- `StaleOnlyWithCause` rests on three facts that are inductive only together: nothing is
  ahead of the store (`Bounded`), the store's version is on its way or was applied
  (`OnItsWay`), and a row is of the newest version applied (`InOrder`).
- `TornOnlyWithCause`: the rows that sessions hold must be whole too (`WholeRows`).
- `CompletedFindable` is inductive over the types: only `Store` writes `completed`, and it
  inserts in the same step.
- `ForgottenOnlyWithCause`: a running task has its product to itself, or the product is
  `raced` (`Held`).

`Settings_proofs`

- `TypeCorrect` needs `Numbered`: ids are drawn once, by the insert, so that they stay
  within bounds and a table with rows has a newest one.
- `StaleOnlyWithCause` is inductive over that: each step that changes the row in force, or
  puts a copy into a cache, is one of the causes.
- `LostSaves` has two parts. That an only row holds what was saved, but for columns not
  written, needs that an update has selected a row of the table or inserts its own, and
  that a row waits for its commit with what its update brings (`Kept`). That updates in
  turn leave one row and skip no column needs that the one under way has loaded what is in
  force, and that one that inserts found nothing (`Alone`).

`ShopifyGateway_proofs`

- `WholeAnswers`: the parts gathered are those before the current one, and only the store's
  pages go on after a refusal (`Gathered`).
- `EveryFailureTold`, the exceptions named above included: where a call is tells which of
  its reports have been fired (`Told`); `FiredStays` is what `Alerts` contributes, that no
  step un-fires one.
- `CallsAreBounded` is the safety half of `CallsEnd`: each step of a call goes on to
  `network_retry`'s next attempt or lowers the distance to the end of this one (`ToGo`).

`Providers_proofs`

- `CooldownsAreKept`: no cooldown reaches further than `Cooldown` from now (`Reach`), and
  what a request that is alone checks still does not cool down when the answer comes
  (`Alone`), so the callback's write cuts nothing. The handler's second write is of the
  provider just checked and to `Cooldown` from the request's start (`CutByOwnCheck`).
- `TypeCorrect`: what is tried, adopted and invoked are heads of lists, so the lists must
  be there when their heads are taken (`Line`).
- `FailuresHaveCauses`: each provider of a request's priority list is among those it has
  yet to try, those in its chain or those that failed it (`Line`). It starts from a lemma
  about the reordering, `First`: putting the active provider first neither loses nor
  doubles one.
- `ActiveCoolingCauses`, by `Fresh`: a request's chain has only providers that were free of
  cooldowns when the request began, until requests overlap; that it survives the
  request's own failures needs that a provider is in the list once (`Once`, from the
  assumption on the settings' lists), and the rule that the active provider is a known
  chat provider makes `crossed` record every cooldown an embedding request gives it. The
  callback has cleared the active provider before the handler's write (`Cleared`).

`Connections_proofs`

- `TypeCorrect` and the rest need to know what a removal leaves. `Removal`: the list keeps
  every other socket, and none that was past the loop's index comes before it unless one
  before the index left; by induction along the list.
- `StaysRegistered`, by `Roll`: a socket whose handler has not begun is neither registered
  nor owed a message, and one that failed a broadcast has no client.
- `MissesHaveCauses`, by `Delivery`: the buffer holds each queued message once, and an open
  socket that is owed the message being sent has it, was shifted past the loop's index, or
  is still before the loop (`Owed`).
- `StaleStatusesHaveCauses`, by `History`: messages stand in line from the sockets through
  the loop to the buffer, each behind those published before it (`Fifo`), unless it was
  published before one that committed earlier.
- `NothingTwice`: no socket receives a message twice. No run states it: the invariant
  (`Single`) is that the list holds a socket once and that none ahead of the loop has the
  message, which needs of `Removal` that what stays only moves to the front.
- `DeliveryIsBounded` is the safety half of `DrainsEventually`, for finitely many sockets:
  the loop's index only grows under a message and is at most the number of sockets, and a
  queued message only comes nearer to the head of the buffer. The hypothesis is needed:
  the code's loop runs over a live list, and would not end if sockets kept coming faster
  than it sends.

Induction over data is out of the provers' reach in the form the library states it, with
an operator for the claim. Where it is needed (the list a removal builds) the claim is
made a set of numbers that contains each number whose predecessors it contains
(`Induction` in `Connections_proofs`), from the well-founded order of the naturals.

Only model-checked: liveness (`JobsSettle`, `DrainsEventually`, `CallsEnd`) and the four
runs that are violated. Of liveness, the bounds are proved as said above; that a fair step
is enabled until the end is reached, and the step from both to "eventually", need ENABLED
and stay with TLC. Every other property a run checks is a theorem.

## Plan

The modules planned are written, and every safety property, action property and
refinement that a run checks is proved. What is left:

1. For `AgentJob`, what `NothingTwice` says of sockets: at most one answer is published
   for each execution, so that a customer sees `MaxTries` answers to a message at worst and
   one when no execution was repeated.
2. `Accounts`, should more than single statements be made of them.

## Not modelled

- Texts, prompts, JSON repair of model answers, embedding vectors, formatting of tools'
  answers, pagination and other read-only queries, logging.
- CSAT feedback: a check and an insert of one request. Two at once insert two rows, which
  is listed as a hazard; a module would restate the two lines. Registration and
  profile updates of staff are single statements guarded by a unique index. A ticket's
  status is one column that nothing reads.
- Usage analytics (sums of the totals that `AgentJob` models) and operational hours (a
  pure function of the clock that only words the prompt).
- Token signing, hashing and encryption (library calls), `services/middlewares.py` (not
  wired in), `search_products` of the Shopify controller (never called), the branch of the
  connection manager for a missing Redis client (it exists whenever sockets do).
- Waiting times: of retries, polls and reconnects only the order is kept. The pages of
  one product sync are taken at one moment of the store; its rows are selected at
  different ones.
- Migrations, nginx, Docker and Prometheus configuration, scripts.

`total_cost` moves with `total_token` in the same statements and is represented by it.
The LangGraph checkpointer's own state is external. Each staff request in `Handoff`
concerns the one conversation modelled; conversations share nothing else. Other
components report errors as `ShopifyGateway`'s calls do; `Alerts` is checked with those.
