--------------------------------- MODULE Alerts ---------------------------------
(***************************************************************************)
(* What becomes of a reported error: a row in the error log, and an alert  *)
(* to the developers' Telegram chat.  fire_telegram_alert does not wait:   *)
(* a process with a queue leaves the alert to a task that enqueues a job,  *)
(* which the worker runs at least once; a worker has no queue and leaves   *)
(* it to a task that sends it.  Nobody learns what became of either task.  *)
(* Tasks die with their process; the job of a worker that dies runs again. *)
(***************************************************************************)
CONSTANT Alerts

VARIABLES alert,  \* where each alert is
          rows    \* those in the error log, marked as sent

alertVars == <<alert, rows>>

AlertsInit == /\ alert = [a \in Alerts |-> "none"]
              /\ rows = {}

Moved(a, from, to) == /\ alert[a] = from
                      /\ alert' = [alert EXCEPT ![a] = to]

\* Mutation: without a queue the alert is not sent.
FireQueued(a, queue) == /\ alert' = [alert EXCEPT ![a] = IF queue THEN "firing" ELSE @]
                        /\ UNCHANGED rows

\* log_and_alert_error fires the alert, then writes the row: a call of its own.
Fire(a, queue) == /\ alert' = [alert EXCEPT ![a] = IF queue THEN "firing" ELSE "sending"]
                  /\ UNCHANGED rows

\* The row says that the alert was sent before anyone knows; the database may refuse it.
Log(a) == /\ rows' \in {rows, rows \cup {a}}
          /\ UNCHANGED alert

Enqueue(a) == Moved(a, "firing", "queued") /\ UNCHANGED rows

EnqueueFails(a) == Moved(a, "firing", "lost") /\ UNCHANGED rows

Post(a) == /\ Moved(a, "queued", "sent") \/ Moved(a, "sending", "sent")
           /\ UNCHANGED rows

\* No credentials, a refusal, or no answer to three requests: nobody is told.
PostFails(a) == /\ Moved(a, "queued", "lost") \/ Moved(a, "sending", "lost")
                /\ UNCHANGED rows

Pending(a) == alert[a] \in {"firing", "queued", "sending"}

AlertStep(a) == Enqueue(a) \/ EnqueueFails(a) \/ Post(a) \/ PostFails(a)

AlertsTypeOK ==
    /\ alert \in [Alerts -> {"none", "firing", "queued", "sending", "sent", "lost"}]
    /\ rows \subseteq Alerts
===============================================================================
