----------------------------- MODULE ShopifyGateway -----------------------------
(***************************************************************************)
(* Calls to Shopify: a circuit breaker around a retry around the requests  *)
(* of one attempt, and around all of it the agent's tool (in a worker) or  *)
(* the staff's sync endpoint (in the API process), which report failures.  *)
(*                                                                         *)
(* A call is for so many parts: pages of products, pages and policies, or  *)
(* the one thing a tool asks for.  Of an answer only how many parts it     *)
(* has is kept, of an error only whether network_retry takes it for        *)
(* transient.                                                              *)
(*                                                                         *)
(* A call may also end unheard: its process dies, or the worker's timeout  *)
(* cancels the job whose tool it is.                                       *)
(***************************************************************************)
EXTENDS Naturals

CONSTANTS Calls,
          MaxRetries,  \* attempts of network_retry
          FailMax,     \* failures after which the breaker opens
          MaxParts     \* bound: parts of a paged answer

ASSUME ShopifyGatewayAssumption == /\ MaxRetries \in Nat \ {0}
                                   /\ FailMax \in Nat \ {0}
                                   /\ MaxParts \in Nat \ {0}

VARIABLES operation,  \* what each call asks for
          pc,         \* where it is
          total,      \* how many parts Shopify has for it
          attempt,
          part,       \* the request of the attempt
          got,        \* parts gathered by the attempt
          error,      \* the attempt's error: see Errors
          failures,   \* the breaker's counter
          refused,    \* history: calls that took a refusal for an end
          inRow,      \* history: calls that have failed in a row
          alert,      \* where the alert of each report is
          rows        \* reports in the error log

attemptVars == <<attempt, part, got, error, refused>>
breakerVars == <<failures, inRow>>
vars == <<operation, total, pc, attemptVars, breakerVars, alert, rows>>

-------------------------------------------------------------------------------

\* A report of each attempt of a sync, and one of the handler around the call.
Reports == Calls \X (1..MaxRetries + 1)
Last(c) == <<c, MaxRetries + 1>>

INSTANCE Alerts WITH Alerts <- Reports

Tools == {"order", "products", "shop", "discounts"}
Syncs == {"catalog", "pages"}
Operations == Tools \cup Syncs

\* The parts of an answer: a tool's is there or not, and there are always policies.
Totals(o) == CASE o = "catalog" -> 1..MaxParts
               [] o = "pages" -> 2..MaxParts + 1
               [] OTHER -> {0, 1}

\* What network_retry repeats; an answer that is no JSON is a ValueError.
Errors == {"transient", "fatal", "value"}

Init == /\ operation = [c \in Calls |-> "none"]
        /\ total = [c \in Calls |-> 0]
        /\ pc = [c \in Calls |-> "idle"]
        /\ attempt = [c \in Calls |-> 1]
        /\ part = [c \in Calls |-> 1]
        /\ got = [c \in Calls |-> 0]
        /\ error = [c \in Calls |-> "none"]
        /\ refused = {}
        /\ failures = 0
        /\ inRow = 0
        /\ AlertsInit

At(c, from, to) == /\ pc[c] = from
                   /\ pc' = [pc EXCEPT ![c] = to]

(* Starting *)

\* pybreaker's decorator calls the coroutine function, and takes the coroutine that
\* this returns for a success.
Breaker == /\ failures < FailMax
           /\ failures' = 0

Start(c, o) == /\ At(c, "idle", "request")
               /\ Breaker
               /\ operation' = [operation EXCEPT ![c] = o]
               /\ \E n \in Totals(o) : total' = [total EXCEPT ![c] = n]
               /\ UNCHANGED <<attemptVars, inRow, alert, rows>>

\* Only a tool can find the credentials missing, and says so to the agent.
StartUnconfigured(c) == /\ At(c, "idle", "answered")
                        /\ Breaker
                        /\ UNCHANGED <<operation, total, attemptVars, inRow, alert, rows>>

IsSync(c) == operation[c] \in Syncs

(* One request *)

\* Another request of the same attempt.
Goes(c, next, gathered) == /\ At(c, "request", "request")
                           /\ part' = [part EXCEPT ![c] = next]
                           /\ got' = [got EXCEPT ![c] = gathered]
                           /\ UNCHANGED <<operation, total, attempt, error, breakerVars, alert, rows>>

Answers(c, gathered) == /\ At(c, "request", "answered")
                        /\ got' = [got EXCEPT ![c] = gathered]
                        /\ inRow' = 0
                        /\ UNCHANGED <<operation, total, attempt, part, error, failures, alert, rows>>

NextPart(c) == /\ operation[c] \in Syncs
               /\ part[c] < total[c]
               /\ Goes(c, part[c] + 1, got[c] + 1)
               /\ UNCHANGED refused

LastPart(c) == /\ operation[c] \in Syncs
               /\ part[c] = total[c]
               /\ Answers(c, got[c] + 1)
               /\ UNCHANGED refused

Single(c) == /\ operation[c] \in Tools
             /\ Answers(c, total[c])
             /\ UNCHANGED refused

\* No order of that name: the number is tried as an id.
TryById(c) == /\ operation[c] = "order"
              /\ part[c] = 1
              /\ Goes(c, 2, 0)
              /\ UNCHANGED refused

\* Pages that are refused end the pages: the policies are next.
PagesRefused(c) == /\ operation[c] = "pages"
                   /\ part[c] < total[c]
                   /\ Goes(c, total[c], got[c])
                   /\ refused' = refused \cup {c}

\* Refused policies, an order refused by id, or the "errors" of a GraphQL answer.
TakenForEnd(c) == /\ \/ operation[c] = "pages" /\ part[c] = total[c]
                     \/ operation[c] = "order" /\ part[c] = 2
                     \/ operation[c] \in {"products", "discounts"}
                  /\ Answers(c, got[c])
                  /\ refused' = refused \cup {c}

(* A failed attempt: network_retry, and the handlers around it *)

\* Inside a sync each attempt reports its error, and waits for the row.
AttemptFails(c, e) ==
    /\ At(c, "request", IF IsSync(c) THEN "logging" ELSE "caught")
    /\ error' = [error EXCEPT ![c] = e]
    /\ IF IsSync(c) THEN Fire(<<c, attempt[c]>>, TRUE) ELSE UNCHANGED <<alert, rows>>
    /\ UNCHANGED <<operation, total, attempt, part, got, refused, breakerVars>>

AttemptLogged(c) == /\ At(c, "logging", "caught")
                    /\ Log(<<c, attempt[c]>>)
                    /\ UNCHANGED <<operation, total, attemptVars, breakerVars>>

\* Mutation: one attempt too many.
RepeatsLate(c) == error[c] = "transient" /\ attempt[c] <= MaxRetries

Repeats(c) == error[c] = "transient" /\ attempt[c] < MaxRetries

\* Mutation: the parts gathered by the failed attempt are kept.
RetryWithParts(c) == /\ Repeats(c)
                     /\ At(c, "caught", "request")
                     /\ attempt' = [attempt EXCEPT ![c] = @ + 1]
                     /\ part' = [part EXCEPT ![c] = 1]
                     /\ UNCHANGED <<operation, total, got, error, refused, breakerVars, alert, rows>>

\* Mutation: attempts are not counted.
RetryUncounted(c) == /\ Repeats(c)
                     /\ At(c, "caught", "request")
                     /\ part' = [part EXCEPT ![c] = 1]
                     /\ got' = [got EXCEPT ![c] = 0]
                     /\ error' = [error EXCEPT ![c] = "none"]
                     /\ refused' = refused \ {c}
                     /\ UNCHANGED <<operation, total, attempt, breakerVars, alert, rows>>

\* The function starts again, with nothing gathered.
Retry(c) == /\ Repeats(c)
            /\ At(c, "caught", "request")
            /\ attempt' = [attempt EXCEPT ![c] = @ + 1]
            /\ part' = [part EXCEPT ![c] = 1]
            /\ got' = [got EXCEPT ![c] = 0]
            /\ error' = [error EXCEPT ![c] = "none"]
            /\ refused' = refused \ {c}
            /\ UNCHANGED <<operation, total, breakerVars, alert, rows>>

FailsInRow == inRow' = IF inRow < FailMax THEN inRow + 1 ELSE inRow

\* The tool's handler, or the application's around the endpoint, reports the error.
GiveUp(c) == /\ ~Repeats(c)
             /\ IsSync(c) \/ error[c] # "value"
             /\ At(c, "caught", "reporting")
             /\ FailsInRow
             /\ Fire(Last(c), IsSync(c))
             /\ UNCHANGED <<operation, total, attemptVars, failures>>

Reported(c) == /\ At(c, "reporting", "raised")
               /\ Log(Last(c))
               /\ UNCHANGED <<operation, total, attemptVars, breakerVars>>

\* A tool takes any ValueError for a missing configuration, or raises it again.
RaiseAgain(c) == /\ ~Repeats(c)
                 /\ ~IsSync(c) /\ error[c] = "value"
                 /\ At(c, "caught", "raised")
                 /\ FailsInRow
                 /\ UNCHANGED <<operation, total, attemptVars, failures, alert, rows>>

(* The end of a call *)

Mine(c) == {c} \X (1..MaxRetries + 1)
Settled(c) == \A a \in Mine(c) : ~Pending(a)

\* A task of the call's own process, not yet a job of the worker.
Dies(a) == alert[a] = IF IsSync(a[1]) THEN "firing" ELSE "sending"

\* The call's state is forgotten.
Forgotten(c) == /\ operation' = [operation EXCEPT ![c] = "none"]
                /\ total' = [total EXCEPT ![c] = 0]
                /\ attempt' = [attempt EXCEPT ![c] = 1]
                /\ part' = [part EXCEPT ![c] = 1]
                /\ got' = [got EXCEPT ![c] = 0]
                /\ error' = [error EXCEPT ![c] = "none"]
                /\ refused' = refused \ {c}

\* Bound: a call is made again once its reports have arrived or are lost.
Return(c) == /\ pc[c] \in {"answered", "raised"}
             /\ Settled(c)
             /\ pc' = [pc EXCEPT ![c] = "idle"]
             /\ Forgotten(c)
             /\ alert' = [a \in Reports |-> IF a \in Mine(c) THEN "none" ELSE alert[a]]
             /\ rows' = rows \ Mine(c)
             /\ UNCHANGED breakerVars

Crash(c) == /\ pc[c] \notin {"idle", "answered", "raised"} \/ \E a \in Mine(c) : Dies(a)
            /\ pc' = [pc EXCEPT ![c] = "raised"]
            /\ error' = [error EXCEPT ![c] = "crash"]
            /\ alert' = [a \in Reports |-> IF a \in Mine(c) /\ Dies(a) THEN "lost" ELSE alert[a]]
            /\ UNCHANGED <<operation, total, attempt, part, got, refused, breakerVars, rows>>

\* The worker's job_timeout cancels a tool wherever it waits: for an answer, before
\* another attempt, or for the row.  No handler takes a cancellation for an error.
Cancel(c) == /\ operation[c] \in Tools
             /\ pc[c] \in {"request", "reporting"} \/ (pc[c] = "caught" /\ Repeats(c))
             /\ pc' = [pc EXCEPT ![c] = "raised"]
             /\ error' = [error EXCEPT ![c] = "cancelled"]
             /\ UNCHANGED <<operation, total, attempt, part, got, refused, breakerVars, alert, rows>>

-------------------------------------------------------------------------------

Step(c) == \/ NextPart(c) \/ LastPart(c) \/ Single(c)
           \/ TryById(c) \/ PagesRefused(c) \/ TakenForEnd(c)
           \/ \E e \in Errors : AttemptFails(c, e)
           \/ AttemptLogged(c) \/ Retry(c) \/ GiveUp(c) \/ Reported(c) \/ RaiseAgain(c)

Call(c) == \/ StartUnconfigured(c)
           \/ \E o \in Operations : Start(c, o)
           \/ Step(c) \/ Return(c) \/ Crash(c) \/ Cancel(c)

Alerting(a) == AlertStep(a) /\ UNCHANGED <<operation, total, pc, attemptVars, breakerVars>>

Next == \/ \E c \in Calls : Call(c)
        \/ \E a \in Reports : Alerting(a)

Spec == Init /\ [][Next]_vars

FairSpec == Spec /\ \A c \in Calls : WF_vars(Step(c))

-------------------------------------------------------------------------------
(* Properties *)

\* Type of the calls, the breaker and the reports.
TypeOK ==
    /\ operation \in [Calls -> Operations \cup {"none"}]
    /\ total \in [Calls -> 0..MaxParts + 1]
    /\ pc \in [Calls -> {"idle", "request", "logging", "caught", "reporting", "answered", "raised"}]
    /\ attempt \in [Calls -> 1..MaxRetries]
    /\ part \in [Calls -> 1..MaxParts + 2]
    /\ got \in [Calls -> 0..MaxParts + 1]
    /\ error \in [Calls -> Errors \cup {"none", "crash", "cancelled"}]
    /\ refused \subseteq Calls
    /\ failures \in 0..FailMax
    /\ inRow \in 0..FailMax
    /\ AlertsTypeOK

\* An answer has every part Shopify has, once, whatever attempts failed before.  When
\* a refusal of Shopify was taken for the end it has none; only the store's pages then
\* pass for whole with some of their parts, and even those with none twice.
AnswerIsWhole ==
    \A c \in Calls : pc[c] = "answered" =>
        \/ got[c] = total[c]
        \/ c \in refused /\ got[c] = 0
        \/ c \in refused /\ operation[c] = "pages" /\ got[c] < total[c]

Unheard(c) == error[c] \in {"crash", "cancelled"}

\* A call that raised has been reported, and one that answered has not.  Three raise
\* without a word: their process died, the job's timeout cancelled them, or a tool took
\* the error for a missing configuration.  Whatever becomes of a sync, each attempt
\* before the last one was reported; and no row in the error log is without its alert.
RaisedIsReported ==
    /\ \A c \in Calls : pc[c] = "raised" =>
          alert[Last(c)] # "none" \/ Unheard(c) \/ (~IsSync(c) /\ error[c] = "value")
    /\ \A c \in Calls : pc[c] = "answered" => alert[Last(c)] = "none"
    /\ \A c \in Calls : IsSync(c) => \A i \in 1..attempt[c] :
          i < attempt[c] \/ (pc[c] = "raised" /\ ~Unheard(c)) => alert[<<c, i>>] # "none"
    /\ \A a \in rows : alert[a] # "none"

\* A call that has started ends: attempts, pages and reports are all bounded.
CallsEnd == \A c \in Calls : pc[c] # "idle" ~> pc[c] \in {"answered", "raised"}

\* What the comment on shopify_breaker says, "Opens after 5 failures": after so many
\* calls that failed in a row no further call goes out.
BreakerOpens == [][inRow = FailMax => \A c \in Calls : ~(pc[c] = "idle" /\ pc'[c] = "request")]_vars
===============================================================================
