------------------------- MODULE ShopifyGateway_proofs -------------------------
(***************************************************************************)
(* What holds of the calls to Shopify for any number of calls, attempts,   *)
(* parts and failures.                                                     *)
(*                                                                         *)
(* A request knows only which part it is for, so that an answer is whole   *)
(* needs Gathered: the parts gathered are those before it, unless one was  *)
(* refused, and only the store's pages go on after a refusal.  That every  *)
(* failed attempt is reported needs Told: where a call is tells which of   *)
(* its reports have been fired, and that the call's own is fired by its    *)
(* handler only.                                                           *)
(***************************************************************************)
EXTENDS ShopifyGateway, TLAPS

-------------------------------------------------------------------------------
(* The inductive invariant *)

Gathered ==
    \A c \in Calls :
        /\ IsSync(c) => total[c] >= 1
        /\ pc[c] = "idle" => /\ total[c] = 0 /\ attempt[c] = 1
                             /\ part[c] = 1 /\ got[c] = 0
                             /\ c \notin refused
        /\ pc[c] = "request" /\ c \in refused => operation[c] = "pages"
        /\ pc[c] = "request" /\ ~IsSync(c) => got[c] = 0
        /\ pc[c] = "request" /\ IsSync(c) =>
              /\ part[c] <= total[c]
              /\ got[c] < part[c]
              /\ c \notin refused => got[c] = part[c] - 1

TypeInv == TypeOK /\ Gathered

Fired(c, i) == alert[<<c, i>>] # "none"

\* The reports of attempts before the current one, of this one, and of the call.
Told == /\ \A c \in Calls : IsSync(c) =>
              \A i \in 1..MaxRetries :
                 pc[c] \in {"logging", "caught", "reporting"} /\ i <= attempt[c] => Fired(c, i)
        /\ \A c \in Calls : pc[c] = "logging" => IsSync(c)
        /\ \A c \in Calls : pc[c] = "reporting" => Fired(c, MaxRetries + 1)
        /\ \A c \in Calls : pc[c] \notin {"reporting", "raised"} => ~Fired(c, MaxRetries + 1)

Inv == TypeInv /\ AnswerIsWhole /\ Told /\ RaisedIsReported

LEMMA InitInv == Init => Inv
  <1> SUFFICES ASSUME Init
               PROVE  Inv
    OBVIOUS
  <1>1. TypeInv
    BY ShopifyGatewayAssumption DEF Init, TypeInv, TypeOK, Gathered, IsSync, Syncs,
       AlertsInit, AlertsTypeOK
  <1>2. AnswerIsWhole /\ Told /\ RaisedIsReported
    BY ShopifyGatewayAssumption DEF Init, AnswerIsWhole, Told, RaisedIsReported, Fired, Last, Reports,
       IsSync, Syncs, AlertsInit
  <1> QED
    BY <1>1, <1>2 DEF Inv

-------------------------------------------------------------------------------
(* Types and parts *)

LEMMA TotalsType ==
  ASSUME NEW o \in Operations, NEW n \in Totals(o)
  PROVE  n \in 0..MaxParts + 1 /\ (o \in Syncs => n >= 1)
  BY ShopifyGatewayAssumption DEF Totals, Operations, Tools, Syncs

LEMMA StartTypeInv ==
  ASSUME TypeInv, NEW c \in Calls,
         StartUnconfigured(c) \/ \E o \in Operations : Start(c, o)
  PROVE  TypeInv'
  <1> USE ShopifyGatewayAssumption
      DEF TypeInv, TypeOK, Gathered, At, Breaker, IsSync, attemptVars, AlertsTypeOK
  <1>1. CASE StartUnconfigured(c)
    BY <1>1 DEF StartUnconfigured
  <1>2. ASSUME NEW o \in Operations, Start(c, o)
        PROVE  TypeInv'
    <2>1. PICK n \in Totals(o) : total' = [total EXCEPT ![c] = n]
      BY <1>2 DEF Start
    <2>2. n \in 0..MaxParts + 1 /\ (o \in Syncs => n >= 1)
      BY <2>1, TotalsType
    <2> QED
      BY <1>2, <2>1, <2>2 DEF Start
  <1> QED
    BY <1>1, <1>2

LEMMA StepTypeInv ==
  ASSUME TypeInv, NEW c \in Calls, Step(c)
  PROVE  TypeInv'
  <1> USE ShopifyGatewayAssumption
      DEF TypeInv, TypeOK, Gathered, At, IsSync, attemptVars, breakerVars, AlertsTypeOK
  <1>1. CASE NextPart(c) \/ TryById(c) \/ PagesRefused(c)
    BY <1>1 DEF NextPart, TryById, PagesRefused, Goes, Syncs
  <1>2. CASE LastPart(c) \/ Single(c) \/ TakenForEnd(c)
    BY <1>2 DEF LastPart, Single, TakenForEnd, Answers
  <1>3. ASSUME NEW e \in Errors, AttemptFails(c, e)
        PROVE  TypeInv'
    BY <1>3 DEF AttemptFails, Fire, Reports
  <1>4. CASE AttemptLogged(c) \/ Reported(c)
    BY <1>4 DEF AttemptLogged, Reported, Log, Last, Reports
  <1>5. CASE Retry(c)
    BY <1>5 DEF Retry, Repeats
  <1>6. CASE GiveUp(c)
    BY <1>6 DEF GiveUp, FailsInRow, Fire, Last, Reports
  <1>7. CASE RaiseAgain(c)
    BY <1>7 DEF RaiseAgain, FailsInRow
  <1> QED
    BY <1>1, <1>2, <1>3, <1>4, <1>5, <1>6, <1>7 DEF Step

LEMMA EndTypeInv ==
  ASSUME TypeInv, NEW c \in Calls, Return(c) \/ Crash(c) \/ Cancel(c)
  PROVE  TypeInv'
  <1> USE ShopifyGatewayAssumption
      DEF TypeInv, TypeOK, Gathered, IsSync, attemptVars, breakerVars, AlertsTypeOK
  <1>1. CASE Return(c)
    BY <1>1 DEF Return, Forgotten, Syncs
  <1>2. CASE Crash(c) \/ Cancel(c)
    BY <1>2 DEF Crash, Cancel
  <1> QED
    BY <1>1, <1>2

LEMMA AlertingTypeInv ==
  ASSUME TypeInv, NEW a \in Reports, Alerting(a)
  PROVE  TypeInv'
  <1>1. UNCHANGED <<operation, total, pc, attempt, part, got, error, refused, failures, inRow>>
    BY DEF Alerting, attemptVars, breakerVars
  <1>2. AlertsTypeOK'
    BY DEF Alerting, AlertStep, Enqueue, EnqueueFails, Post, PostFails, Moved, AlertsTypeOK,
           TypeInv, TypeOK
  <1> QED
    BY <1>1, <1>2 DEF TypeInv, TypeOK, Gathered, IsSync

LEMMA NextTypeInv ==
  ASSUME TypeInv, [Next]_vars
  PROVE  TypeInv'
  <1>1. CASE UNCHANGED vars
    BY <1>1 DEF TypeInv, TypeOK, Gathered, IsSync, AlertsTypeOK, vars, attemptVars, breakerVars
  <1> QED
    BY <1>1, StartTypeInv, StepTypeInv, EndTypeInv, AlertingTypeInv DEF Next, Call

-------------------------------------------------------------------------------
(* Answers *)

LEMMA StepWhole ==
  ASSUME TypeInv, AnswerIsWhole, NEW c \in Calls, Step(c)
  PROVE  AnswerIsWhole'
  <1> USE DEF TypeInv, TypeOK, At, attemptVars, breakerVars
  <1>1. CASE LastPart(c)
    BY <1>1 DEF LastPart, Answers, Gathered, IsSync, AnswerIsWhole
  <1>2. CASE Single(c)
    BY <1>2 DEF Single, Answers, AnswerIsWhole
  <1>7. CASE TakenForEnd(c)
    <2>1. Answers(c, got[c]) /\ refused' = refused \cup {c} /\ pc[c] = "request"
      BY <1>7 DEF TakenForEnd, Answers
    <2>2. IsSync(c) => operation[c] = "pages" /\ got[c] < total[c]
      BY <1>7, <2>1 DEF TakenForEnd, IsSync, Syncs, Gathered
    <2>3. ~IsSync(c) => got[c] = 0
      BY <2>1 DEF Gathered
    <2> QED
      BY <2>1, <2>2, <2>3 DEF Answers, AnswerIsWhole
  <1>3. CASE NextPart(c) \/ TryById(c) \/ PagesRefused(c)
    BY <1>3 DEF NextPart, TryById, PagesRefused, Goes, AnswerIsWhole
  <1>4. CASE Retry(c) \/ GiveUp(c) \/ RaiseAgain(c)
    BY <1>4 DEF Retry, GiveUp, RaiseAgain, FailsInRow, AnswerIsWhole
  <1>5. ASSUME NEW e \in Errors, AttemptFails(c, e)
        PROVE  AnswerIsWhole'
    BY <1>5 DEF AttemptFails, IsSync, AnswerIsWhole
  <1>6. CASE AttemptLogged(c) \/ Reported(c)
    BY <1>6 DEF AttemptLogged, Reported, AnswerIsWhole
  <1> QED
    BY <1>1, <1>2, <1>3, <1>4, <1>5, <1>6, <1>7 DEF Step

LEMMA NextWhole ==
  ASSUME TypeInv, AnswerIsWhole, [Next]_vars
  PROVE  AnswerIsWhole'
  <1> USE DEF TypeInv, TypeOK, At, attemptVars, breakerVars
  <1>1. CASE UNCHANGED vars
    BY <1>1 DEF vars, AnswerIsWhole
  <1>2. ASSUME NEW c \in Calls, StartUnconfigured(c) \/ \E o \in Operations : Start(c, o)
        PROVE  AnswerIsWhole'
    BY <1>2 DEF StartUnconfigured, Start, Breaker, Gathered, AnswerIsWhole
  <1>3. ASSUME NEW c \in Calls, Return(c) \/ Crash(c) \/ Cancel(c)
        PROVE  AnswerIsWhole'
    BY <1>3 DEF Return, Forgotten, Crash, Cancel, AnswerIsWhole
  <1>4. ASSUME NEW a \in Reports, Alerting(a)
        PROVE  AnswerIsWhole'
    BY <1>4 DEF Alerting, AnswerIsWhole
  <1> QED
    BY <1>1, <1>2, <1>3, <1>4, StepWhole DEF Next, Call

-------------------------------------------------------------------------------
(* Reports *)

\* A report once fired stays fired until its call is made again.
LEMMA FiredStays ==
  ASSUME TypeInv, NEW a \in Reports, alert[a] # "none", [Next]_vars
  PROVE  alert'[a] # "none" \/ \E c \in Calls : Return(c) /\ a \in Mine(c)
  <1> USE DEF TypeInv, TypeOK, AlertsTypeOK, attemptVars, breakerVars
  <1>1. CASE UNCHANGED vars
    BY <1>1 DEF vars
  <1>2. ASSUME NEW c \in Calls, NEW e \in Errors, AttemptFails(c, e)
        PROVE  alert'[a] # "none"
    BY <1>2 DEF AttemptFails, Fire
  <1>3. ASSUME NEW c \in Calls, GiveUp(c)
        PROVE  alert'[a] # "none"
    BY <1>3 DEF GiveUp, Fire
  <1>4. ASSUME NEW c \in Calls, Return(c), a \notin Mine(c)
        PROVE  alert'[a] # "none"
    BY <1>4 DEF Return
  <1>5. ASSUME NEW c \in Calls, Crash(c)
        PROVE  alert'[a] # "none"
    BY <1>5 DEF Crash
  <1>6. ASSUME NEW b \in Reports, Alerting(b)
        PROVE  alert'[a] # "none"
    BY <1>6 DEF Alerting, AlertStep, Enqueue, EnqueueFails, Post, PostFails, Moved
  <1>7. ASSUME NEW c \in Calls, StartUnconfigured(c) \/ Cancel(c) \/ \E o \in Operations : Start(c, o)
        PROVE  alert' = alert
    BY <1>7 DEF StartUnconfigured, Start, Cancel
  <1>8. ASSUME NEW c \in Calls,
               \/ NextPart(c) \/ LastPart(c) \/ Single(c) \/ TryById(c) \/ PagesRefused(c)
               \/ TakenForEnd(c) \/ AttemptLogged(c) \/ Retry(c) \/ Reported(c) \/ RaiseAgain(c)
        PROVE  alert' = alert
    BY <1>8 DEF NextPart, LastPart, Single, TryById, PagesRefused, TakenForEnd, Goes, Answers,
       AttemptLogged, Retry, Reported, RaiseAgain, Log
  <1> QED
    BY <1>1, <1>2, <1>3, <1>4, <1>5, <1>6, <1>7, <1>8 DEF Next, Call, Step

\* A report is fired by its own attempt or its own call.
LEMMA FiredByItsCall ==
  ASSUME TypeInv, NEW c \in Calls, [Next]_vars,
         ~Fired(c, MaxRetries + 1), Fired(c, MaxRetries + 1)'
  PROVE  GiveUp(c)
  <1> DEFINE a == Last(c)
  <1> USE DEF TypeInv, TypeOK, AlertsTypeOK, attemptVars, breakerVars
  <1>1. a \in Reports /\ alert[a] = "none" /\ alert'[a] # "none"
    BY ShopifyGatewayAssumption DEF Fired, Last, Reports
  <1>2. \A d \in Calls : attempt[d] # MaxRetries + 1
    BY ShopifyGatewayAssumption
  <1>3. alert' # alert
    BY <1>1
  <1>4. ASSUME NEW d \in Calls, NEW e \in Errors, AttemptFails(d, e)
        PROVE  FALSE
    BY <1>1, <1>2, <1>4 DEF AttemptFails, Fire, Last
  <1>5. ASSUME NEW d \in Calls, GiveUp(d)
        PROVE  GiveUp(c)
    BY <1>1, <1>5 DEF GiveUp, Fire, Last
  <1>6. ASSUME NEW d \in Calls, Return(d) \/ Crash(d)
        PROVE  FALSE
    BY <1>1, <1>6 DEF Return, Crash, Dies
  <1>7. ASSUME NEW b \in Reports, Alerting(b)
        PROVE  FALSE
    BY <1>1, <1>7 DEF Alerting, AlertStep, Enqueue, EnqueueFails, Post, PostFails, Moved
  <1>8. ASSUME NEW d \in Calls,
               \/ StartUnconfigured(d) \/ Cancel(d) \/ \E o \in Operations : Start(d, o)
        PROVE  FALSE
    BY <1>3, <1>8 DEF StartUnconfigured, Start, Cancel
  <1>9. ASSUME NEW d \in Calls,
               \/ NextPart(d) \/ LastPart(d) \/ Single(d) \/ TryById(d) \/ PagesRefused(d)
               \/ TakenForEnd(d) \/ AttemptLogged(d) \/ Retry(d) \/ Reported(d) \/ RaiseAgain(d)
        PROVE  FALSE
    BY <1>3, <1>9 DEF NextPart, LastPart, Single, TryById, PagesRefused, TakenForEnd, Goes, Answers,
       AttemptLogged, Retry, Reported, RaiseAgain, Log
  <1>10. CASE UNCHANGED vars
    BY <1>3, <1>10 DEF vars
  <1> QED
    BY <1>4, <1>5, <1>6, <1>7, <1>8, <1>9, <1>10 DEF Next, Call, Step

\* What is told of a call whose reports stay and that does not move on.
ToldOf(c) ==
    /\ IsSync(c) => \A i \in 1..MaxRetries :
          /\ i < attempt[c] => Fired(c, i)
          /\ pc[c] \in {"logging", "caught", "reporting"} /\ i <= attempt[c] => Fired(c, i)
          /\ pc[c] = "raised" /\ ~Unheard(c) /\ i <= attempt[c] => Fired(c, i)
    /\ pc[c] = "logging" => IsSync(c)
    /\ pc[c] = "reporting" => Fired(c, MaxRetries + 1)
    /\ pc[c] = "raised" => \/ Fired(c, MaxRetries + 1) \/ Unheard(c)
                           \/ ~IsSync(c) /\ error[c] = "value"

Quiet(c) == pc[c] \notin {"reporting", "raised"} => ~Fired(c, MaxRetries + 1)

RowsFired == \A a \in rows : alert[a] # "none"

AllTold == RowsFired /\ \A c \in Calls : ToldOf(c) /\ Quiet(c)

LEMMA ToldIsOfEach == TypeInv => (Told /\ RaisedIsReported <=> AllTold)
  <1> SUFFICES ASSUME TypeInv
               PROVE  Told /\ RaisedIsReported <=> AllTold
    OBVIOUS
  <1>1. \A c \in Calls : attempt[c] \in 1..MaxRetries
    BY DEF TypeInv, TypeOK
  <1>2. \A c \in Calls : \A i \in 1..attempt[c] : i \in 1..MaxRetries /\ i <= attempt[c]
    BY <1>1, ShopifyGatewayAssumption
  <1>3. \A c \in Calls : \A i \in 1..MaxRetries : i < attempt[c] \/ i <= attempt[c] => i \in 1..attempt[c]
    BY <1>1, ShopifyGatewayAssumption
  <1>4. ASSUME NEW c \in Calls
        PROVE  (\A i \in 1..attempt[c] :
                  i < attempt[c] \/ (pc[c] = "raised" /\ ~Unheard(c)) => alert[<<c, i>>] # "none")
               <=> \A i \in 1..MaxRetries :
                     /\ i < attempt[c] => Fired(c, i)
                     /\ pc[c] = "raised" /\ ~Unheard(c) /\ i <= attempt[c] => Fired(c, i)
    BY <1>2, <1>3 DEF Fired
  <1>5. Told /\ RaisedIsReported => AllTold
    BY <1>4 DEF Told, RaisedIsReported, ToldOf, Quiet, RowsFired, AllTold, Fired, Last
  <1>6. AllTold => Told /\ RaisedIsReported
    <2> SUFFICES ASSUME AllTold
                 PROVE  Told /\ RaisedIsReported
      OBVIOUS
    <2>1. Told
      BY DEF Told, AllTold, ToldOf, Quiet
    <2>2. \A c \in Calls : pc[c] = "raised" =>
             alert[Last(c)] # "none" \/ Unheard(c) \/ (~IsSync(c) /\ error[c] = "value")
      BY DEF AllTold, ToldOf, Fired, Last
    <2>3. \A c \in Calls : pc[c] = "answered" => alert[Last(c)] = "none"
      BY DEF AllTold, Quiet, Fired, Last
    <2>4. \A c \in Calls : IsSync(c) => \A i \in 1..attempt[c] :
             i < attempt[c] \/ (pc[c] = "raised" /\ ~Unheard(c)) => alert[<<c, i>>] # "none"
      BY <1>4 DEF AllTold, ToldOf
    <2> QED
      BY <2>1, <2>2, <2>3, <2>4 DEF RaisedIsReported, AllTold, RowsFired
  <1> QED
    BY <1>5, <1>6

LEMMA NextQuiet ==
  ASSUME TypeInv, \A c \in Calls : Quiet(c), [Next]_vars, NEW c \in Calls
  PROVE  Quiet(c)'
  <1> USE DEF At, attemptVars, breakerVars
  <1> SUFFICES ASSUME pc'[c] \notin {"reporting", "raised"}, Fired(c, MaxRetries + 1)'
               PROVE  FALSE
    BY DEF Quiet
  <1>1. ~GiveUp(c)
    BY DEF GiveUp, TypeInv, TypeOK
  <1>2. Fired(c, MaxRetries + 1)
    BY <1>1, FiredByItsCall
  <1>3. pc[c] \in {"reporting", "raised"}
    BY <1>2 DEF Quiet
  <1>4. Return(c)
    <2>1. pc'[c] # pc[c]
      BY <1>3
    <2>2. CASE \E a \in Reports : Alerting(a)
      BY <2>1, <2>2 DEF Alerting
    <2>3. ASSUME NEW d \in Calls, Call(d)
          PROVE  Return(c)
      <3>1. c = d
        BY <2>1, <2>3 DEF Call, Step, StartUnconfigured, Start, NextPart, LastPart, Single, TryById,
           PagesRefused, TakenForEnd, Goes, Answers, AttemptFails, AttemptLogged, Retry, GiveUp,
           Reported, RaiseAgain, Return, Crash, Cancel, TypeInv, TypeOK
      <3>2. CASE Crash(c) \/ Cancel(c)
        BY <3>2 DEF Crash, Cancel, TypeInv, TypeOK
      <3>3. CASE Reported(c)
        BY <3>3 DEF Reported, TypeInv, TypeOK
      <3> QED
        BY <1>3, <2>3, <3>1, <3>2, <3>3 DEF Call, Step, StartUnconfigured, Start, NextPart, LastPart,
           Single, TryById, PagesRefused, TakenForEnd, Goes, Answers, AttemptFails, AttemptLogged,
           Retry, GiveUp, RaiseAgain
    <2> QED
      BY <2>1, <2>2, <2>3 DEF Next, vars
  <1>5. Last(c) \in Mine(c) /\ Last(c) \in Reports
    BY ShopifyGatewayAssumption DEF Last, Mine, Reports
  <1> QED
    BY <1>4, <1>5 DEF Return, Fired, Last

LEMMA NextTold ==
  ASSUME TypeInv, RowsFired, \A c \in Calls : ToldOf(c), [Next]_vars
  PROVE  RowsFired' /\ \A c \in Calls : ToldOf(c)'
  <1> USE DEF TypeInv, TypeOK, AlertsTypeOK, At, attemptVars, breakerVars
  <1>1. \A c \in Calls : \A i \in 1..MaxRetries + 1 : <<c, i>> \in Reports
    BY DEF Reports
  <1>2. 1..MaxRetries \subseteq 1..MaxRetries + 1 /\ MaxRetries + 1 \in 1..MaxRetries + 1
    BY ShopifyGatewayAssumption
  <1>3. ASSUME NEW c \in Calls, NEW i \in 1..MaxRetries + 1, Fired(c, i), ~Return(c)
        PROVE  Fired(c, i)'
    BY <1>1, <1>3, FiredStays DEF Fired, Mine
  <1>4. ASSUME NEW c \in Calls, pc'[c] = pc[c], operation'[c] = operation[c],
               attempt'[c] = attempt[c], error'[c] = error[c], ~Return(c)
        PROVE  ToldOf(c)'
    BY <1>2, <1>3, <1>4 DEF ToldOf, IsSync, Unheard
  <1>5. CASE UNCHANGED vars
    BY <1>5 DEF vars, ToldOf, RowsFired, Fired, IsSync, Unheard
  <1>6. ASSUME NEW a \in Reports, Alerting(a)
        PROVE  RowsFired' /\ \A c \in Calls : ToldOf(c)'
    <2>1. RowsFired'
      BY <1>6 DEF Alerting, AlertStep, Enqueue, EnqueueFails, Post, PostFails, Moved, RowsFired
    <2>2. \A c \in Calls : \A i \in 1..MaxRetries + 1 : Fired(c, i) => Fired(c, i)'
      BY <1>1, <1>6 DEF Alerting, AlertStep, Enqueue, EnqueueFails, Post, PostFails, Moved, Fired
    <2>3. UNCHANGED <<pc, operation, attempt, error>>
      BY <1>6 DEF Alerting
    <2> QED
      BY <1>2, <2>1, <2>2, <2>3 DEF ToldOf, IsSync, Unheard
  <1>7. ASSUME NEW c \in Calls, Call(c)
        PROVE  RowsFired' /\ \A d \in Calls : ToldOf(d)'
    <2>1. \A d \in Calls : d # c => /\ pc'[d] = pc[d] /\ operation'[d] = operation[d]
                                   /\ attempt'[d] = attempt[d] /\ error'[d] = error[d]
      BY <1>7 DEF Call, Step, StartUnconfigured, Start, NextPart, LastPart, Single, TryById,
         PagesRefused, TakenForEnd, Goes, Answers, AttemptFails, AttemptLogged, Retry, GiveUp,
         Reported, RaiseAgain, Return, Forgotten, Crash, Cancel
    <2>2. \A d \in Calls : d # c => ~Return(d)
      BY <2>1 DEF Return
    <2>3. \A d \in Calls : d # c => ToldOf(d)'
      BY <1>4, <2>1, <2>2
    <2>4. RowsFired'
      <3>1. \A a \in rows' : a \in Reports /\ (a \in rows \/ alert[a] # "none")
        BY <1>1, <1>2, <1>7 DEF Call, Step, StartUnconfigured, Start, NextPart, LastPart, Single,
           TryById, PagesRefused, TakenForEnd, Goes, Answers, AttemptFails, Fire, AttemptLogged,
           Retry, GiveUp, Reported, RaiseAgain, Return, Crash, Cancel, Log, Last, ToldOf, Fired
      <3>2. \A a \in rows' : ~(Return(c) /\ a \in Mine(c))
        BY DEF Return
      <3> QED
        BY <2>2, <3>1, <3>2, FiredStays DEF RowsFired
    <2>5. ToldOf(c)'
      <3>1. CASE StartUnconfigured(c) \/ Return(c) \/ \E o \in Operations : Start(c, o)
        <4>1. attempt'[c] = 1 /\ pc'[c] \in {"idle", "request", "answered"}
          BY <3>1 DEF StartUnconfigured, Return, Forgotten, Start, Gathered
        <4> QED
          BY <4>1 DEF ToldOf
      <3>2. CASE \/ NextPart(c) \/ TryById(c) \/ PagesRefused(c)
                 \/ LastPart(c) \/ Single(c) \/ TakenForEnd(c)
        <4>1. ~Return(c) /\ pc'[c] \in {"request", "answered"} /\ UNCHANGED <<operation, attempt>>
          BY <3>2 DEF NextPart, TryById, PagesRefused, LastPart, Single, TakenForEnd, Goes, Answers, Return
        <4> QED
          BY <1>2, <1>3, <4>1 DEF ToldOf, IsSync
      <3>3. CASE Crash(c) \/ Cancel(c)
        <4>1. ~Return(c) /\ pc'[c] = "raised" /\ Unheard(c)' /\ UNCHANGED <<operation, attempt>>
          <5>1. CASE Crash(c)
            BY <5>1 DEF Crash, Return, Unheard
          <5>2. CASE Cancel(c)
            BY <5>2 DEF Cancel, Return, Unheard
          <5> QED
            BY <3>3, <5>1, <5>2
        <4> QED
          BY <1>2, <1>3, <4>1 DEF ToldOf, IsSync
      <3>4. ASSUME NEW e \in Errors, AttemptFails(c, e)
            PROVE  ToldOf(c)'
        <4>1. \A i \in 1..MaxRetries : Fired(c, i) => Fired(c, i)'
          BY <1>2, <1>3, <3>4 DEF AttemptFails, Return
        <4>2. IsSync(c) => Fired(c, attempt[c])'
          BY <1>1, <1>2, <3>4 DEF AttemptFails, Fire, Fired
        <4>3. IsSync(c)' = IsSync(c) /\ attempt'[c] = attempt[c] /\ pc[c] = "request"
              /\ pc'[c] = IF IsSync(c) THEN "logging" ELSE "caught"
          BY <3>4 DEF AttemptFails, IsSync
        <4>4. \A i \in 1..MaxRetries : i <= attempt[c] => i < attempt[c] \/ i = attempt[c]
          BY ShopifyGatewayAssumption
        <4> QED
          BY <4>1, <4>2, <4>3, <4>4 DEF ToldOf
      <3>5. CASE AttemptLogged(c) \/ Retry(c) \/ Reported(c) \/ RaiseAgain(c)
        <4>1. \A i \in 1..MaxRetries + 1 : Fired(c, i) => Fired(c, i)'
          BY <1>3, <3>5 DEF AttemptLogged, Retry, Reported, RaiseAgain, Return
        <4>2. IsSync(c)' = IsSync(c)
          BY <3>5 DEF AttemptLogged, Retry, Reported, RaiseAgain, IsSync
        <4>3. CASE Retry(c)
          <5>1. /\ pc[c] = "caught" /\ pc'[c] = "request" /\ attempt'[c] = attempt[c] + 1
                /\ \A i \in 1..MaxRetries : i < attempt[c] + 1 => i <= attempt[c]
            BY <4>3, ShopifyGatewayAssumption DEF Retry, Repeats
          <5> QED
            BY <1>2, <4>1, <4>2, <5>1 DEF ToldOf
        <4>4. CASE AttemptLogged(c)
          <5>1. pc[c] = "logging" /\ pc'[c] = "caught" /\ attempt'[c] = attempt[c]
            BY <4>4 DEF AttemptLogged
          <5> QED
            BY <1>2, <4>1, <4>2, <5>1 DEF ToldOf
        <4>5. CASE Reported(c)
          <5>1. pc[c] = "reporting" /\ pc'[c] = "raised" /\ attempt'[c] = attempt[c]
            BY <4>5 DEF Reported
          <5> QED
            BY <1>2, <4>1, <4>2, <5>1 DEF ToldOf
        <4>6. CASE RaiseAgain(c)
          <5>1. /\ pc'[c] = "raised" /\ attempt'[c] = attempt[c]
                /\ ~IsSync(c) /\ error'[c] = "value"
            BY <4>6 DEF RaiseAgain
          <5> QED
            BY <4>2, <5>1 DEF ToldOf
        <4> QED
          BY <3>5, <4>3, <4>4, <4>5, <4>6
      <3>6. CASE GiveUp(c)
        <4>1. \A i \in 1..MaxRetries : Fired(c, i) => Fired(c, i)'
          BY <1>2, <1>3, <3>6 DEF GiveUp, Return
        <4>2. Fired(c, MaxRetries + 1)'
          BY <1>1, <1>2, <3>6 DEF GiveUp, Fire, Fired, Last
        <4>3. /\ pc[c] = "caught" /\ pc'[c] = "reporting" /\ attempt'[c] = attempt[c]
              /\ IsSync(c)' = IsSync(c)
          BY <3>6 DEF GiveUp, IsSync
        <4> QED
          BY <4>1, <4>2, <4>3 DEF ToldOf
      <3> QED
        BY <1>7, <3>1, <3>2, <3>3, <3>4, <3>5, <3>6 DEF Call, Step
    <2> QED
      BY <2>3, <2>4, <2>5
  <1> QED
    BY <1>5, <1>6, <1>7 DEF Next

-------------------------------------------------------------------------------
(* Theorems *)

LEMMA NextInv ==
  ASSUME Inv, [Next]_vars
  PROVE  Inv'
  <1>1. TypeInv' /\ AnswerIsWhole'
    BY NextTypeInv, NextWhole DEF Inv
  <1>2. AllTold
    BY ToldIsOfEach DEF Inv
  <1>3. AllTold'
    BY <1>2, NextTold, NextQuiet DEF Inv, AllTold
  <1>4. TypeInv' => (Told' /\ RaisedIsReported' <=> AllTold')
    BY ToldIsOfEach, PTL
  <1> QED
    BY <1>1, <1>3, <1>4 DEF Inv

LEMMA Invariance == Spec => []Inv
  BY InitInv, NextInv, PTL DEF Spec

\* The calls, the breaker and the reports keep their types.
THEOREM TypeCorrect == Spec => []TypeOK
  <1>1. Inv => TypeOK
    BY DEF Inv, TypeInv
  <1> QED
    BY <1>1, Invariance, PTL

\* However many parts an answer has and attempts failed before, it is whole, or a
\* refusal was taken for its end: then it is empty, or the pages before the refusal.
THEOREM WholeAnswers == Spec => []AnswerIsWhole
  <1>1. Inv => AnswerIsWhole
    BY DEF Inv
  <1> QED
    BY <1>1, Invariance, PTL

\* For any number of calls and attempts, a call that raised was reported unless its
\* process died, the job's timeout cancelled it, or a tool took the error for a missing
\* configuration; one that answered was not; and every attempt of a sync that failed was
\* reported, the last one too unless the process died.
THEOREM EveryFailureTold == Spec => []RaisedIsReported
  <1>1. Inv => RaisedIsReported
    BY DEF Inv
  <1> QED
    BY <1>1, Invariance, PTL

-------------------------------------------------------------------------------
(* How far a call is from its end *)

UnderWay(c) == pc[c] \in {"request", "logging", "caught", "reporting"}

\* The steps that the attempt, or what follows the last one, may yet take.
ToGo(at, n) == CASE at = "request" -> MaxParts + 6 - n
                 [] at = "logging" -> 3
                 [] at = "caught" -> 2
                 [] at = "reporting" -> 1
                 [] OTHER -> 0

ToGoBounded == \A c \in Calls : UnderWay(c) =>
                  attempt[c] \in 1..MaxRetries /\ ToGo(pc[c], part[c]) \in 1..MaxParts + 5

Still(c) == pc'[c] = pc[c] /\ attempt'[c] = attempt[c] /\ part'[c] = part[c]

Advances(c) == \/ attempt'[c] = attempt[c] + 1
               \/ /\ attempt'[c] = attempt[c]
                  /\ ToGo(pc'[c], part'[c]) < ToGo(pc[c], part[c])

CallsAdvance == [][\A c \in Calls : UnderWay(c) => Still(c) \/ Advances(c)]_vars

\* A step of the call to another place of the same attempt.
LEMMA MoveAdvances ==
  ASSUME TypeOK, NEW c \in Calls, NEW to, NEW n,
         pc' = [pc EXCEPT ![c] = to], attempt' = attempt, part' = [part EXCEPT ![c] = n],
         ToGo(to, n) < ToGo(pc[c], part[c])
  PROVE  Advances(c) /\ \A d \in Calls : d # c => Still(d)
  <1>1. /\ pc'[c] = to /\ part'[c] = n /\ attempt'[c] = attempt[c]
        /\ \A d \in Calls : d # c => pc'[d] = pc[d] /\ attempt'[d] = attempt[d] /\ part'[d] = part[d]
    BY DEF TypeOK
  <1> QED
    BY <1>1 DEF Advances, Still

LEMMA StepAdvances ==
  ASSUME TypeOK, NEW c \in Calls, Step(c)
  PROVE  Advances(c) /\ \A d \in Calls : d # c => Still(d)
  <1> USE DEF At, attemptVars, breakerVars
  <1>1. /\ attempt[c] \in 1..MaxRetries /\ part[c] \in 1..MaxParts + 2
        /\ total[c] \in 0..MaxParts + 1 /\ MaxParts \in Nat \ {0} /\ MaxRetries \in Nat
        /\ part = [part EXCEPT ![c] = part[c]]
    BY ShopifyGatewayAssumption DEF TypeOK
  <1>2. ASSUME NEW n \in 1..MaxParts + 2, NEW g, Goes(c, n, g), part[c] < n
        PROVE  Advances(c) /\ \A d \in Calls : d # c => Still(d)
    <2>1. /\ pc[c] = "request" /\ pc' = [pc EXCEPT ![c] = "request"] /\ attempt' = attempt
          /\ part' = [part EXCEPT ![c] = n]
      BY <1>2 DEF Goes
    <2>2. ToGo("request", n) < ToGo("request", part[c])
      BY <1>1, <1>2 DEF ToGo
    <2> QED
      BY <2>1, <2>2, MoveAdvances
  <1>3. CASE NextPart(c)
    <2>1. Goes(c, part[c] + 1, got[c] + 1) /\ part[c] + 1 \in 1..MaxParts + 2 /\ part[c] < part[c] + 1
      BY <1>1, <1>3 DEF NextPart
    <2> QED
      BY <1>2, <2>1
  <1>4. CASE TryById(c)
    <2>1. Goes(c, 2, 0) /\ 2 \in 1..MaxParts + 2 /\ part[c] < 2
      BY <1>1, <1>4 DEF TryById
    <2> QED
      BY <1>2, <2>1
  <1>5. CASE PagesRefused(c)
    <2>1. Goes(c, total[c], got[c]) /\ total[c] \in 1..MaxParts + 2 /\ part[c] < total[c]
      BY <1>1, <1>5 DEF PagesRefused
    <2> QED
      BY <1>2, <2>1
  <1>6. CASE LastPart(c) \/ Single(c) \/ TakenForEnd(c)
    <2>1. pc[c] = "request" /\ pc' = [pc EXCEPT ![c] = "answered"] /\ UNCHANGED <<attempt, part>>
      BY <1>6 DEF LastPart, Single, TakenForEnd, Answers
    <2>2. ToGo("answered", part[c]) < ToGo("request", part[c])
      BY <1>1 DEF ToGo
    <2> QED
      BY <1>1, <2>1, <2>2, MoveAdvances
  <1>7. CASE \E e \in Errors : AttemptFails(c, e)
    <2>1. PICK to \in {"logging", "caught"} : pc' = [pc EXCEPT ![c] = to]
      BY <1>7 DEF AttemptFails
    <2>2. pc[c] = "request" /\ UNCHANGED <<attempt, part>>
      BY <1>7 DEF AttemptFails
    <2>3. ToGo(to, part[c]) < ToGo("request", part[c])
      BY <1>1 DEF ToGo
    <2> QED
      BY <1>1, <2>1, <2>2, <2>3, MoveAdvances
  <1>8. CASE AttemptLogged(c)
    <2>1. pc[c] = "logging" /\ pc' = [pc EXCEPT ![c] = "caught"] /\ UNCHANGED <<attempt, part>>
      BY <1>8 DEF AttemptLogged
    <2>2. ToGo("caught", part[c]) < ToGo("logging", part[c])
      BY <1>1 DEF ToGo
    <2> QED
      BY <1>1, <2>1, <2>2, MoveAdvances
  <1>9. CASE Retry(c)
    <2>1. /\ pc' = [pc EXCEPT ![c] = "request"] /\ part' = [part EXCEPT ![c] = 1]
          /\ attempt' = [attempt EXCEPT ![c] = attempt[c] + 1]
      BY <1>9 DEF Retry
    <2>2. /\ attempt'[c] = attempt[c] + 1
          /\ \A d \in Calls : d # c => pc'[d] = pc[d] /\ attempt'[d] = attempt[d] /\ part'[d] = part[d]
      BY <2>1 DEF TypeOK
    <2> QED
      BY <2>2 DEF Advances, Still
  <1>10. CASE GiveUp(c)
    <2>1. pc[c] = "caught" /\ pc' = [pc EXCEPT ![c] = "reporting"] /\ UNCHANGED <<attempt, part>>
      BY <1>10 DEF GiveUp
    <2>2. ToGo("reporting", part[c]) < ToGo("caught", part[c])
      BY <1>1 DEF ToGo
    <2> QED
      BY <1>1, <2>1, <2>2, MoveAdvances
  <1>11. CASE Reported(c)
    <2>1. pc[c] = "reporting" /\ pc' = [pc EXCEPT ![c] = "raised"] /\ UNCHANGED <<attempt, part>>
      BY <1>11 DEF Reported
    <2>2. ToGo("raised", part[c]) < ToGo("reporting", part[c])
      BY <1>1 DEF ToGo
    <2> QED
      BY <1>1, <2>1, <2>2, MoveAdvances
  <1>12. CASE RaiseAgain(c)
    <2>1. pc[c] = "caught" /\ pc' = [pc EXCEPT ![c] = "raised"] /\ UNCHANGED <<attempt, part>>
      BY <1>12 DEF RaiseAgain
    <2>2. ToGo("raised", part[c]) < ToGo("caught", part[c])
      BY <1>1 DEF ToGo
    <2> QED
      BY <1>1, <2>1, <2>2, MoveAdvances
  <1> QED
    BY <1>3, <1>4, <1>5, <1>6, <1>7, <1>8, <1>9, <1>10, <1>11, <1>12 DEF Step

\* The steps that are not the call's own progress: it begins or ends, or is ended.
LEMMA EndAdvances ==
  ASSUME TypeOK, NEW c \in Calls,
         \/ StartUnconfigured(c) \/ \E o \in Operations : Start(c, o)
         \/ Return(c) \/ Crash(c) \/ Cancel(c)
  PROVE  (UnderWay(c) => Advances(c)) /\ \A d \in Calls : d # c => Still(d)
  <1> USE DEF At, attemptVars
  <1>1. CASE StartUnconfigured(c) \/ \E o \in Operations : Start(c, o)
    <2>1. /\ pc[c] = "idle" /\ \E to : pc' = [pc EXCEPT ![c] = to]
          /\ UNCHANGED <<attempt, part>>
      BY <1>1 DEF StartUnconfigured, Start
    <2> QED
      BY <2>1 DEF UnderWay, Still, TypeOK
  <1>2. CASE Return(c)
    BY <1>2 DEF Return, Forgotten, UnderWay, Still, TypeOK
  <1>3. CASE Crash(c) \/ Cancel(c)
    <2>1. pc' = [pc EXCEPT ![c] = "raised"] /\ UNCHANGED <<attempt, part>>
      BY <1>3 DEF Crash, Cancel
    <2>2. pc'[c] = "raised" /\ \A d \in Calls : d # c => Still(d)
      BY <2>1 DEF TypeOK, Still
    <2>3. part[c] \in 1..MaxParts + 2 /\ MaxParts \in Nat
      BY ShopifyGatewayAssumption DEF TypeOK
    <2>4. UnderWay(c) => ToGo("raised", part[c]) < ToGo(pc[c], part[c])
      BY <2>3 DEF UnderWay, ToGo
    <2> QED
      BY <2>1, <2>2, <2>4 DEF Advances
  <1> QED
    BY <1>1, <1>2, <1>3

\* A call that is under way takes a bounded number of steps, whatever is refused or
\* fails: each goes on to the next of network_retry's attempts, of which there are
\* MaxRetries, or brings the attempt nearer to its end; and no step of another call or
\* of an alert sets it back.  With requests that return or time out, that ends it.
THEOREM CallsAreBounded == Spec => []ToGoBounded /\ CallsAdvance
  <1>1. TypeOK => ToGoBounded
    BY ShopifyGatewayAssumption DEF TypeOK, ToGoBounded, UnderWay, ToGo
  <1>2. TypeOK /\ [Next]_vars =>
            [\A c \in Calls : UnderWay(c) => Still(c) \/ Advances(c)]_vars
    <2> SUFFICES ASSUME TypeOK, Next, NEW c \in Calls, UnderWay(c)
                 PROVE  Still(c) \/ Advances(c)
      OBVIOUS
    <2>1. CASE \E d \in Calls : Call(d)
      <3>1. PICK d \in Calls : Call(d)
        BY <2>1
      <3> QED
        BY <3>1, StepAdvances, EndAdvances DEF Call
    <2>2. CASE \E a \in Reports : Alerting(a)
      BY <2>2 DEF Alerting, attemptVars, Still
    <2> QED
      BY <2>1, <2>2 DEF Next
  <1> QED
    BY <1>1, <1>2, TypeCorrect, PTL DEF Spec, CallsAdvance
===============================================================================
