------------------------------- MODULE AgentJob -------------------------------
(***************************************************************************)
(* The AI runs of one conversation, step by step: the WebSocket handler    *)
(* that shows the typing indicator and enqueues a job, the arq job with    *)
(* its retries, and run_agentic_loop, which calls the model, saves the     *)
(* answer with its token usage, adds the usage to the conversation's       *)
(* total and publishes the answer.                                         *)
(*                                                                         *)
(* The total is an absolute write of a value read earlier, with no lock    *)
(* and no version, so runs that overlap can lose each other's update.      *)
(*                                                                         *)
(* Details the runs of module Handoff; the status column, escalations and  *)
(* the alert and error-log rows are left out.  total_cost is written with  *)
(* total_token by the same statements and is not kept apart.               *)
(***************************************************************************)
EXTENDS Naturals, FiniteSets

CONSTANTS Jobs,       \* customer messages the AI is asked to answer
          MaxTries,   \* executions arq grants a job (WorkerSettings.max_tries)
          Tokens,     \* what one model call may use
          Faults      \* what may go wrong: see FaultKinds

FaultKinds == {"llm",       \* the model cannot be initialised
               "raise",     \* the tools cannot be assembled
               "redis",     \* an enqueue or a publish fails
               "database",  \* the transaction that saves the answer fails
               "timeout",   \* the job exceeds job_timeout
               "crash",     \* a worker, or the API process, dies
               "nopool"}    \* the process has no arq pool

ASSUME AgentJobAssumption == /\ MaxTries \in Nat \ {0}
                             /\ Tokens \subseteq Nat
                             /\ Faults \subseteq FaultKinds

VARIABLES total,   \* conversations.total_token
          usage,   \* history: sum of token_usage over the saved AI messages
          job      \* local state of each handler, job and run

vars == <<total, usage, job>>

\* loaded: the total read from the row; tokens: used by this run; replies and
\* saved: answers published and stored so far; notice: an error message was
\* sent; unsaved and hit (history): a save failed, another fault struck.
Fresh == [pc |-> "new", inline |-> FALSE, tries |-> 0, loaded |-> 0, tokens |-> 0,
          replies |-> 0, saved |-> 0, notice |-> FALSE, unsaved |-> FALSE, hit |-> FALSE]

Init == /\ total = 0
        /\ usage = 0
        /\ job = [j \in Jobs |-> Fresh]

Running == {"starting", "thinking", "saving", "loaded", "publishing", "published"}

-------------------------------------------------------------------------------

\* Job j goes from one control point to another and updates its local state.
Move(j, from, to) == /\ job[j].pc \in from
                     /\ job' = [job EXCEPT ![j] = to]

Local(j, from, to) == Move(j, from, to) /\ UNCHANGED <<total, usage>>

\* The local state at the end of the run; what it had read is forgotten.
Ended(j) == [job[j] EXCEPT !.pc = "ended", !.tries = 0, !.loaded = 0, !.tokens = 0]

Hit(j) == [Ended(j) EXCEPT !.hit = TRUE]

(* The WebSocket handler *)

\* The row read here stays in the handler's session for an inline run.
Receive(j) == Local(j, {"new"}, [job[j] EXCEPT !.pc = "read", !.loaded = total])

\* The customer's message is saved, the typing indicator shown.
ShowTyping(j) == Local(j, {"read"}, [job[j] EXCEPT !.pc = "typing"])

\* The handler dies before it has asked the AI.
HandlerDies(j) == /\ "crash" \in Faults
                  /\ Local(j, {"read", "typing"},
                           [Hit(j) EXCEPT !.pc = "lost"])

Enqueue(j) == Local(j, {"typing"},
                    [job[j] EXCEPT !.pc = "queued", !.tries = MaxTries, !.loaded = 0])

\* The error message goes through the same Redis and may fail as well.
EnqueueFails(j) == /\ "redis" \in Faults
                   /\ \E sent \in BOOLEAN :
                         Local(j, {"typing"},
                               [Hit(j) EXCEPT !.pc = "refused", !.notice = sent])

\* No arq pool: the agent runs in the handler, with the handler's session.
RunInline(j) == /\ "nopool" \in Faults
                /\ Local(j, {"typing"}, [job[j] EXCEPT !.pc = "starting", !.inline = TRUE])

(* The job *)

\* Mutation: a job with one execution left is not picked up.
StartRunOffByOne(j) ==
    /\ job[j].tries > 1
    /\ Local(j, {"queued"}, [job[j] EXCEPT !.pc = "starting", !.tries = @ - 1])

StartRun(j) == Local(j, {"queued"},
                     [job[j] EXCEPT !.pc = "starting", !.tries = @ - 1])

\* An exception ends a job for good; an inline run's handler tells the customer.
Raises(j, from) == \E sent \in BOOLEAN :
                      /\ sent => job[j].inline
                      /\ Local(j, from, [Hit(j) EXCEPT !.notice = @ \/ sent])

JobTimesOut(j) == /\ "timeout" \in Faults
                  /\ ~job[j].inline
                  /\ Local(j, Running, Hit(j))

\* Mutation: retries are not limited by max_tries.
WorkerDiesUnlimited(j) ==
    /\ "crash" \in Faults
    /\ Local(j, Running, [job[j] EXCEPT !.pc = "queued", !.hit = TRUE,
                                        !.loaded = 0, !.tokens = 0])

\* The worker dies or is shut down: the job runs again while tries are left.
WorkerDies(j) == /\ "crash" \in Faults
                 /\ Local(j, Running,
                          IF job[j].tries > 0
                          THEN [job[j] EXCEPT !.pc = "queued", !.hit = TRUE,
                                              !.loaded = 0, !.tokens = 0]
                          ELSE Hit(j))

(* run_agentic_loop *)

ToolsFail(j) == "raise" \in Faults /\ Raises(j, {"starting"})

\* The error is logged; the apology composed for the customer is returned to a
\* caller that ignores it, past the code that saves and publishes.
LLMInitFails(j) == "llm" \in Faults /\ Local(j, {"starting"}, Hit(j))

LLMInitialised(j) == Local(j, {"starting"}, [job[j] EXCEPT !.pc = "thinking"])

Think(j) == \E t \in Tokens :
               Local(j, {"thinking"}, [job[j] EXCEPT !.pc = "saving", !.tokens = t])

\* Mutation: an exception in the loop ends the run as a failed initialisation does.
ThinkFailsSilently(j) == Local(j, {"thinking"}, Ended(j))

\* Mutation: the apology is sent without being stored.
ThinkFailsUnstored(j) ==
    Local(j, {"thinking"}, [job[j] EXCEPT !.pc = "publishing", !.tokens = 0])

\* An exception in the loop becomes an apology that used no tokens.
ThinkFails(j) == Local(j, {"thinking"}, [job[j] EXCEPT !.pc = "saving", !.tokens = 0])

\* A worker's session reads the row now; an inline run's has it already.
LoadTotal(j) ==
    Local(j, {"saving"},
          [job[j] EXCEPT !.pc = "loaded",
                         !.loaded = IF job[j].inline THEN @ ELSE total])

\* Mutation: a run that stores its answer again is not charged again.
SaveChargedOnce(j) ==
    /\ Move(j, {"loaded"}, [job[j] EXCEPT !.pc = "publishing", !.saved = @ + 1])
    /\ usage' = usage + job[j].tokens
    /\ total' = IF job[j].saved > 0 THEN total ELSE job[j].loaded + job[j].tokens

\* Message and total in one transaction; the total is written if it changed.
Save(j) ==
    /\ Move(j, {"loaded"}, [job[j] EXCEPT !.pc = "publishing", !.saved = @ + 1])
    /\ usage' = usage + job[j].tokens
    /\ total' = IF job[j].tokens = 0 THEN total ELSE job[j].loaded + job[j].tokens

\* Mutation: the total is committed before the message whose save fails.
SaveFailsCharged(j) ==
    /\ "database" \in Faults
    /\ Move(j, {"loaded"}, [job[j] EXCEPT !.pc = "publishing", !.unsaved = TRUE])
    /\ total' = job[j].loaded + job[j].tokens
    /\ UNCHANGED usage

SaveFails(j) == /\ "database" \in Faults
                /\ Local(j, {"saving", "loaded"},
                         [job[j] EXCEPT !.pc = "publishing", !.unsaved = TRUE])

Publish(j) == Local(j, {"publishing"},
                    [job[j] EXCEPT !.pc = "published", !.replies = @ + 1])

PublishFails(j) == "redis" \in Faults /\ Raises(j, {"publishing"})

Acknowledge(j) == Local(j, {"published"}, Ended(j))

-------------------------------------------------------------------------------

Handler(j) == \/ ShowTyping(j) \/ HandlerDies(j)
              \/ Enqueue(j) \/ EnqueueFails(j) \/ RunInline(j)

Run(j) == \/ StartRun(j) \/ JobTimesOut(j) \/ WorkerDies(j)
          \/ ToolsFail(j) \/ LLMInitFails(j) \/ LLMInitialised(j)
          \/ Think(j) \/ ThinkFails(j) \/ LoadTotal(j) \/ Save(j) \/ SaveFails(j)
          \/ Publish(j) \/ PublishFails(j) \/ Acknowledge(j)

Next == \E j \in Jobs : Receive(j) \/ Handler(j) \/ Run(j)

Spec == Init /\ [][Next]_vars

\* The event loop and the workers keep running; customers need not write.
Fairness == \A j \in Jobs : WF_vars(Handler(j) \/ Run(j))

FairSpec == Spec /\ Fairness

-------------------------------------------------------------------------------
(* Properties *)

JobState == [pc : {"new", "read", "typing", "lost", "refused", "queued", "ended"}
                     \cup Running,
             inline : BOOLEAN, tries : 0..MaxTries, loaded : Nat, tokens : Nat,
             replies : 0..MaxTries, saved : 0..MaxTries,
             notice : BOOLEAN, unsaved : BOOLEAN, hit : BOOLEAN]

\* Type of the totals and of the jobs' local states.
TypeOK == /\ total \in Nat
          /\ usage \in Nat
          /\ job \in [Jobs -> JobState]

\* The conversation's total never charges more than the stored answers used:
\* retries store their answer again, and lost updates only lose.
TotalNeverOvercharges == total <= usage

\* A step that stores an answer without adding all of its tokens to the total.
LosesUsage == usage' - total' # usage - total

\* Job j saves a total computed from a value another run has replaced since.
SavesOverNewer(j) == /\ job[j].pc = "loaded"
                     /\ job'[j].pc = "publishing"
                     /\ job[j].loaded # total

\* Usage goes missing from the total only through a stale read: every other way
\* a run can end, fail or be retried charges exactly what it stores.
LossNeedsStaleTotal == [][LosesUsage => \E j \in Jobs : SavesOverNewer(j)]_vars

\* A customer left without any answer or notice was struck by a fault outside
\* the agent loop: an error inside the loop, or a failed save, still ends in an
\* answer.
SilenceNeedsFault ==
    \A j \in Jobs : job[j].pc = "ended" /\ job[j].replies = 0 /\ ~job[j].notice
                    => job[j].hit

\* The staff find in the history every answer the customer was sent, unless
\* its save failed: no crash or retry publishes what was not stored first.
StoredBeforeSent ==
    \A j \in Jobs : ~job[j].unsaved => job[j].replies <= job[j].saved

\* A typing indicator is shown for a message that reaches an end.
JobsSettle ==
    \A j \in Jobs : job[j].pc = "typing" ~> job[j].pc \in {"ended", "refused", "lost"}

\* A job's control point, as module Handoff knows it.
Phase(pc) == CASE pc = "typing" -> "saved"
               [] pc = "published" -> "answered"
               [] pc = "ended" -> "done"
               [] pc \in Running \ {"published"} -> "running"
               [] OTHER -> pc

AsMessage(x) == [pc |-> Phase(x.pc), seen |-> "active_ai",
                 tries |-> x.tries, answers |-> x.replies]

messages == [j \in Jobs |-> AsMessage(job[j])]

\* The detailed run implements the runs of module Handoff: the same attempts,
\* and an answer is a publish.
Conversation == INSTANCE Handoff WITH
    Staff <- {}, Superadmins <- {}, NoStaff <- "none", Requests <- {},
    Messages <- Jobs, Inline <- "nopool" \in Faults, MaxTickets <- 0,
    status <- "active_ai", assigned <- "none", users <- {},
    tickets <- [j \in Jobs |-> 0], req <- [r \in {} |-> "none"], late <- {},
    msg <- messages

\* Refinement of the hand-off's message handling (see Conversation).
RunsAsHandoff == Conversation!Spec

\* What docs/frontend/state-machine.md:14 and :33-35 say: the typing indicator
\* locks the customer's input until a reply arrives.
TypingIsAnswered ==
    \A j \in Jobs : job[j].pc = "typing" ~> job[j].replies > 0 \/ job[j].notice
===============================================================================
