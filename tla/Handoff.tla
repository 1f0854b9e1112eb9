-------------------------------- MODULE Handoff --------------------------------
(***************************************************************************)
(* One conversation row and everything that reads or writes its status:    *)
(* the staff endpoints (takeover, release, send message), the customer     *)
(* WebSocket handler, the AI runs it starts and their escalation tool, and *)
(* the deletion of a staff account.                                        *)
(*                                                                         *)
(* Every handler is a coroutine with a database session of its own: it     *)
(* reads the row, decides, and writes in a later transaction.  The ORM     *)
(* writes only the columns whose new value differs from the one it read,   *)
(* so two handlers can interleave column by column.                        *)
(*                                                                         *)
(* Left out: message texts, typing indicators and status broadcasts.       *)
(***************************************************************************)
EXTENDS Naturals

CONSTANTS Staff,        \* accounts that may handle conversations
          Superadmins,  \* those among them that may delete others
          NoStaff,      \* the NULL of assigned_user_id
          Requests,     \* staff HTTP requests that may be in flight together
          Messages,     \* customer messages
          MaxTries,     \* executions arq grants a job (WorkerSettings.max_tries)
          Inline,       \* may a process lack its arq pool?
          MaxTickets    \* bound: escalations by the runs of one message

ASSUME HandoffAssumption == /\ NoStaff \notin Staff
                            /\ Superadmins \subseteq Staff
                            /\ MaxTries \in Nat \ {0}
                            /\ Inline \in BOOLEAN
                            /\ MaxTickets \in Nat

VARIABLES status,     \* conversations.status
          assigned,   \* conversations.assigned_user_id
          users,      \* rows of the users table
          tickets,    \* tickets opened by the runs of a message
          req,        \* local state of each staff request
          msg,        \* local state of each message's handler, job and run
          late        \* history: messages read before the current human handling

vars == <<status, assigned, users, tickets, req, msg, late>>

Status == {"active_ai", "waiting_human", "human_handling"}
Assignee == Staff \cup {NoStaff}

Idle == [pc |-> "idle", user |-> NoStaff, status |-> "active_ai",
         assigned |-> NoStaff]
Unsent == [pc |-> "new", seen |-> "active_ai", tries |-> 0, answers |-> 0]

Init == /\ status = "active_ai"
        /\ assigned = NoStaff
        /\ users = Staff
        /\ tickets = [m \in Messages |-> 0]
        /\ req = [r \in Requests |-> Idle]
        /\ msg = [m \in Messages |-> Unsent]
        /\ late = {}

-------------------------------------------------------------------------------
(* The row *)

\* A flush writes a column only if its value differs from the one loaded.
Flushed(new, loaded, current) == IF new = loaded THEN current ELSE new

\* History: when human handling begins, everything read so far is late.
SetStatus(new) ==
    /\ status' = new
    /\ late' = IF new # "human_handling" THEN {}
               ELSE IF status = "human_handling" THEN late
               ELSE {m \in Messages : msg[m].pc # "new"}

RowUnchanged == UNCHANGED <<status, assigned, late>>

-------------------------------------------------------------------------------
(* Staff requests: the read with its guard, then the transaction. *)

Load(r, u, op) ==
    /\ req[r].pc = "idle"
    /\ u \in users
    /\ req' = [req EXCEPT ![r] = [pc |-> op, user |-> u, status |-> status,
                                  assigned |-> assigned]]
    /\ RowUnchanged
    /\ UNCHANGED <<users, tickets, msg>>

Return(r) == /\ req' = [req EXCEPT ![r] = Idle]
             /\ UNCHANGED <<users, tickets, msg>>

\* Mutation: the takeover endpoint forgets the other-assignee check.
TakeoverReadUnguarded(r, u) == Load(r, u, "takeover")

TakeoverRead(r, u) == assigned \in {NoStaff, u} /\ Load(r, u, "takeover")

ReleaseRead(r, u) == Load(r, u, "release")

SendRead(r, u) == status = "human_handling" /\ Load(r, u, "send")

\* Mutation: assigned_user_id without its foreign key.
TakeoverCommitNoForeignKey(r) ==
    /\ req[r].pc = "takeover"
    /\ SetStatus(Flushed("human_handling", req[r].status, status))
    /\ assigned' = Flushed(req[r].user, req[r].assigned, assigned)
    /\ Return(r)

\* The foreign key refuses an assignment to an account deleted meanwhile.
TakeoverCommit(r) ==
    /\ req[r].pc = "takeover"
    /\ IF req[r].assigned # req[r].user /\ req[r].user \notin users
       THEN RowUnchanged
       ELSE /\ SetStatus(Flushed("human_handling", req[r].status, status))
            /\ assigned' = Flushed(req[r].user, req[r].assigned, assigned)
    /\ Return(r)

ReleaseCommit(r) ==
    /\ req[r].pc = "release"
    /\ SetStatus(Flushed("active_ai", req[r].status, status))
    /\ assigned' = Flushed(NoStaff, req[r].assigned, assigned)
    /\ Return(r)

\* The inserted message leaves the conversation row alone.
SendCommit(r) == req[r].pc = "send" /\ RowUnchanged /\ Return(r)

\* A superadmin deletes an account, never their own.
DeleteUser(u) ==
    /\ u \in users
    /\ Superadmins \cap users \notin {{}, {u}}
    /\ users' = users \ {u}
    /\ assigned' = IF assigned = u THEN NoStaff ELSE assigned
    /\ UNCHANGED <<status, tickets, req, msg, late>>

-------------------------------------------------------------------------------
(* A customer message: handler, job, run.  The handler checks the status it *)
(* read before saving; the run never checks it.                             *)

Step(m, from, to) ==
    /\ msg[m].pc \in from
    /\ msg' = [msg EXCEPT ![m] = to]
    /\ RowUnchanged
    /\ UNCHANGED <<users, tickets, req>>

At(m, pc) == [msg[m] EXCEPT !.pc = pc]

\* Mutation: the conversation is fetched once per connection, not per message.
ReceiveMessageUnread(m) == Step(m, {"new"}, At(m, "read"))

ReceiveMessage(m) ==
    Step(m, {"new"}, [msg[m] EXCEPT !.pc = "read", !.seen = status])

SaveMessage(m) == Step(m, {"read"}, At(m, "saved"))

\* The save or a publish raises, or the API process dies: the handler ends.
LoseMessage(m) == Step(m, {"read", "saved"}, At(m, "lost"))

LeaveToHuman(m) == /\ msg[m].seen = "human_handling"
                   /\ Step(m, {"saved"}, At(m, "human"))

\* Mutation: the kill-switch check is gone.
EnqueueUnchecked(m) ==
    Step(m, {"saved"}, [msg[m] EXCEPT !.pc = "queued", !.tries = MaxTries])

Enqueue(m) == /\ msg[m].seen # "human_handling"
              /\ Step(m, {"saved"}, [msg[m] EXCEPT !.pc = "queued", !.tries = MaxTries])

\* enqueue_job raises: the customer gets an error message instead.
RefuseMessage(m) == /\ msg[m].seen # "human_handling"
                    /\ Step(m, {"saved"}, At(m, "refused"))

\* No arq pool: the handler runs the agent itself, once.
RunInline(m) == /\ Inline
                /\ msg[m].seen # "human_handling"
                /\ Step(m, {"saved"}, At(m, "running"))

StartRun(m) == Step(m, {"queued"}, [msg[m] EXCEPT !.pc = "running", !.tries = @ - 1])

\* Mutation: the ticket is forgotten.
EscalateWithoutTicket(m) ==
    /\ msg[m].pc = "running"
    /\ SetStatus("waiting_human")
    /\ UNCHANGED <<assigned, users, tickets, req, msg>>

\* One transaction, no look at the current status.
Escalate(m) ==
    /\ msg[m].pc = "running"
    /\ tickets[m] < MaxTickets
    /\ SetStatus("waiting_human")
    /\ tickets' = [tickets EXCEPT ![m] = @ + 1]
    /\ UNCHANGED <<assigned, users, req, msg>>

Answer(m) == Step(m, {"running"}, [msg[m] EXCEPT !.pc = "answered", !.answers = @ + 1])

\* The run returns or raises, or its job times out: arq drops the job.
EndRun(m) == Step(m, {"running", "answered"},
                  [msg[m] EXCEPT !.pc = "done", !.tries = 0])

\* Mutation: retries are not limited by max_tries.
CrashRunUnlimited(m) == Step(m, {"running", "answered"}, At(m, "queued"))

\* The worker dies before the job is acknowledged: arq runs it again.
CrashRun(m) == Step(m, {"running", "answered"},
                    At(m, IF msg[m].tries > 0 THEN "queued" ELSE "done"))

\* What the service does by itself with a message it has received.
Progress(m) == \/ SaveMessage(m) \/ LoseMessage(m) \/ LeaveToHuman(m)
               \/ Enqueue(m) \/ RefuseMessage(m) \/ RunInline(m)
               \/ StartRun(m) \/ Answer(m) \/ EndRun(m) \/ CrashRun(m)

-------------------------------------------------------------------------------

StaffNext(r) == \/ \E u \in Staff : TakeoverRead(r, u) \/ ReleaseRead(r, u) \/ SendRead(r, u)
                \/ TakeoverCommit(r) \/ ReleaseCommit(r) \/ SendCommit(r)

MessageNext(m) == ReceiveMessage(m) \/ Escalate(m) \/ Progress(m)

Next == \/ \E r \in Requests : StaffNext(r)
        \/ \E u \in Staff : DeleteUser(u)
        \/ \E m \in Messages : MessageNext(m)

Spec == Init /\ [][Next]_vars
-------------------------------------------------------------------------------
(* Properties *)

RequestState == [pc : {"idle", "takeover", "release", "send"},
                 user : Assignee, status : Status, assigned : Assignee]

MessageState == [pc : {"new", "read", "saved", "lost", "human", "refused",
                       "queued", "running", "answered", "done"},
                 seen : Status, tries : 0..MaxTries, answers : 0..MaxTries]

\* Type of the row, the accounts and the local states of the coroutines.
TypeOK ==
    /\ status \in Status
    /\ assigned \in Assignee
    /\ users \subseteq Staff
    /\ tickets \in [Messages -> 0..MaxTickets]
    /\ req \in [Requests -> RequestState]
    /\ msg \in [Messages -> MessageState]
    /\ late \subseteq Messages

\* A message the AI is working on, or about to.
OnItsWayToAI(m) == msg[m].pc \in {"queued", "running", "answered"}

\* While a human handles the conversation, every message in the queue or in a
\* run was read before that handling began: the kill switch is late by exactly
\* the messages already past the read of chat.py, never by a later one.
KillSwitchHorizon ==
    status = "human_handling" => {m \in Messages : OnItsWayToAI(m)} \subseteq late

\* The assignee of a conversation is an existing account, however takeovers and
\* account deletions interleave: the foreign key and its ON DELETE SET NULL
\* close the gap between a takeover's authentication and its commit.
AssigneeExists == assigned # NoStaff => assigned \in users

\* Handled by nobody, or locked to a staff member who may not write.
HalfHandedOver == \/ status = "human_handling" /\ assigned = NoStaff
                  \/ status # "human_handling" /\ assigned # NoStaff

Stale(r) == req[r].status # status \/ req[r].assigned # assigned

Finishes(r) == req[r].pc # "idle" /\ req'[r].pc = "idle"

Steals == assigned # NoStaff /\ assigned' \notin {assigned, NoStaff}

TearsRow == ~HalfHandedOver /\ HalfHandedOver'

SpeaksOutOfTurn ==
    \E r \in Requests : /\ req[r].pc = "send" /\ Finishes(r)
                        /\ status # "human_handling"

Released == \E r \in Requests : req[r].pc = "release" /\ Finishes(r)

EscalatedByLateRun == \E m \in late : tickets'[m] > tickets[m]

Excused == \/ \E r \in Requests : Finishes(r) /\ Stale(r)
           \/ assigned \in users \ users'
           \/ EscalatedByLateRun

\* What the staff endpoints guard against (a second staff member taking a
\* conversation over, a row half handed over, a staff message while the AI is in
\* charge) happens only when a request commits on a row that changed since it
\* read it, when the assignee's account is deleted, or when the run of a message
\* read before the human handling began escalates over it.
AnomalyNeedsStaleRead == [][Steals \/ TearsRow \/ SpeaksOutOfTurn => Excused]_vars

\* Human handling ends when a staff member releases the conversation, or when
\* the run of a message read before the handling began escalates over it.
HandlingEndsByReleaseOrLateRun ==
    [][status = "human_handling" /\ status' # "human_handling" =>
          Released \/ EscalatedByLateRun]_vars

\* A conversation that waits for a human has a ticket the staff can find.
WaitingHasTicket ==
    status = "waiting_human" => \E m \in Messages : tickets[m] > 0

\* What models/conversation.py:28-29 says: active_ai, waiting_human,
\* human_handling and back to active_ai, so that human handling is left for
\* active_ai only.
HumanHandlingReturnsToAI ==
    [][status = "human_handling" /\ status' # "human_handling" =>
          status' = "active_ai"]_vars

\* The hand-off implements the abstract kill switch: the AI answers only
\* messages whose read found the switch off, at most MaxTries times each.
Promise == INSTANCE KillSwitch WITH
    MaxAnswers <- MaxTries,
    human <- status = "human_handling",
    verdict <- [m \in Messages |->
                   IF msg[m].pc = "new" THEN "none"
                   ELSE IF msg[m].seen = "human_handling" THEN "human" ELSE "ai"],
    spoken <- [m \in Messages |-> msg[m].answers]

\* Refinement of the kill switch's specification (see Promise).
KillSwitchKept == Promise!Spec
===============================================================================
