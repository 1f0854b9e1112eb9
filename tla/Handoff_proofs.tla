---------------------------- MODULE Handoff_proofs ----------------------------
(***************************************************************************)
(* What holds of the hand-off for any number of staff members, requests in *)
(* flight, customer messages and executions per job.                       *)
(*                                                                         *)
(* TypeOK is not inductive: that a job's counters stay in range needs the  *)
(* budget of executions (Budget).  KillSwitchHorizon is not inductive      *)
(* either: it needs to be said of every message past its read, and that    *)
(* the AI only ever gets messages whose read found the switch off.         *)
(***************************************************************************)
EXTENDS Handoff, TLAPS

-------------------------------------------------------------------------------
(* The inductive invariant *)

\* Executions left, answers given and the execution under way never exceed
\* what arq grants; a job in the queue has an execution left.
InBudget(x) ==
    /\ x.pc \in {"new", "read", "saved"} => x.tries = 0 /\ x.answers = 0
    /\ x.pc = "queued" => x.tries > 0
    /\ x.answers + x.tries + (IF x.pc = "running" THEN 1 ELSE 0) <= MaxTries

Budget == \A m \in Messages : InBudget(msg[m])

TypeInv == TypeOK /\ Budget

\* The AI gets messages whose read found no human in charge.
AdmittedByRead == \A m \in Messages : OnItsWayToAI(m) => msg[m].seen # "human_handling"

\* While a human is in charge, a message whose read found otherwise is late.
ReadBeforeHandling ==
    status = "human_handling" =>
        \A m \in Messages :
            msg[m].pc # "new" /\ msg[m].seen # "human_handling" => m \in late

Horizon == AdmittedByRead /\ ReadBeforeHandling

-------------------------------------------------------------------------------
(* Types and the budget of executions *)

LEMMA InitTypeInv == Init => TypeInv
  BY HandoffAssumption
  DEF Init, TypeInv, TypeOK, Budget, InBudget, Idle, Unsent, Status, Assignee,
      RequestState, MessageState

\* A step of one message touches nothing but its local state.
Moves(m) == /\ msg' = [msg EXCEPT ![m] = msg'[m]]
            /\ UNCHANGED <<status, assigned, users, tickets, req, late>>

\* Two fields of a local state replaced by values of their sets.
LEMMA UpdateRecord ==
  ASSUME NEW P, NEW S, NEW N, NEW A,
         NEW x \in [pc : P, seen : S, tries : N, answers : A],
         NEW pc \in P, NEW tries \in N, NEW answers \in A
  PROVE  /\ [x EXCEPT !.pc = pc, !.tries = tries]
                \in [pc : P, seen : S, tries : N, answers : A]
         /\ [x EXCEPT !.pc = pc, !.answers = answers]
                \in [pc : P, seen : S, tries : N, answers : A]
  OBVIOUS

LEMMA ProgressMoves ==
  ASSUME NEW m \in Messages, TypeInv, ReceiveMessage(m) \/ Progress(m)
  PROVE  Moves(m) /\ msg'[m] \in MessageState /\ InBudget(msg'[m])
  <1> DEFINE old == msg[m]
  <1>0. /\ msg \in [Messages -> MessageState]
        /\ old.pc \in {"new", "read", "saved", "lost", "human", "refused",
                       "queued", "running", "answered", "done"}
        /\ old.seen \in Status
        /\ status \in Status
        /\ old.tries \in 0..MaxTries
        /\ old.answers \in 0..MaxTries
        /\ MaxTries \in Nat \ {0}
        /\ old \in MessageState
        /\ InBudget(old)
    BY HandoffAssumption DEF TypeInv, TypeOK, Budget, MessageState
  <1>1. ASSUME NEW from, NEW to \in MessageState, Step(m, from, to)
        PROVE  Moves(m) /\ msg'[m] = to
    BY <1>0, <1>1 DEF Step, RowUnchanged, Moves
  <1>2. CASE ReceiveMessage(m)
    <2> DEFINE to == [old EXCEPT !.pc = "read", !.seen = status]
    <2>1. Step(m, {"new"}, to)
      BY <1>2 DEF ReceiveMessage
    <2>2. to \in MessageState /\ InBudget(to)
      BY <1>0, <2>1 DEF Step, MessageState, InBudget
    <2>3. QED
      BY <1>1, <2>1, <2>2
  <1>3. CASE SaveMessage(m)
    <2> DEFINE to == [old EXCEPT !.pc = "saved"]
    <2>1. Step(m, {"read"}, to)
      BY <1>3 DEF SaveMessage, At
    <2>2. to \in MessageState /\ InBudget(to)
      BY <1>0, <2>1 DEF Step, MessageState, InBudget
    <2>3. QED
      BY <1>1, <2>1, <2>2
  <1>4. CASE LoseMessage(m)
    <2> DEFINE to == [old EXCEPT !.pc = "lost"]
    <2>1. Step(m, {"read", "saved"}, to)
      BY <1>4 DEF LoseMessage, At
    <2>2. to \in MessageState /\ InBudget(to)
      BY <1>0, <2>1 DEF Step, MessageState, InBudget
    <2>3. QED
      BY <1>1, <2>1, <2>2
  <1>5. CASE LeaveToHuman(m)
    <2> DEFINE to == [old EXCEPT !.pc = "human"]
    <2>1. Step(m, {"saved"}, to)
      BY <1>5 DEF LeaveToHuman, At
    <2>2. to \in MessageState /\ InBudget(to)
      BY <1>0, <2>1 DEF Step, MessageState, InBudget
    <2>3. QED
      BY <1>1, <2>1, <2>2
  <1>6. CASE Enqueue(m)
    <2> DEFINE to == [old EXCEPT !.pc = "queued", !.tries = MaxTries]
    <2>1. Step(m, {"saved"}, to)
      BY <1>6 DEF Enqueue
    <2>2. MaxTries \in 0..MaxTries
      BY <1>0, <2>1 DEF Step, InBudget
    <2>3. to \in MessageState
      BY <1>0, <2>2, UpdateRecord DEF MessageState
    <2>4. InBudget(to)
      BY <1>0, <2>1 DEF Step, InBudget
    <2>5. QED
      BY <1>1, <2>1, <2>3, <2>4
  <1>7. CASE RefuseMessage(m)
    <2> DEFINE to == [old EXCEPT !.pc = "refused"]
    <2>1. Step(m, {"saved"}, to)
      BY <1>7 DEF RefuseMessage, At
    <2>2. to \in MessageState /\ InBudget(to)
      BY <1>0, <2>1 DEF Step, MessageState, InBudget
    <2>3. QED
      BY <1>1, <2>1, <2>2
  <1>8. CASE RunInline(m)
    <2> DEFINE to == [old EXCEPT !.pc = "running"]
    <2>1. Step(m, {"saved"}, to)
      BY <1>8 DEF RunInline, At
    <2>2. to \in MessageState /\ InBudget(to)
      BY <1>0, <2>1 DEF Step, MessageState, InBudget
    <2>3. QED
      BY <1>1, <2>1, <2>2
  <1>9. CASE StartRun(m)
    <2> DEFINE to == [old EXCEPT !.pc = "running", !.tries = @ - 1]
    <2>1. Step(m, {"queued"}, to)
      BY <1>9 DEF StartRun
    <2>2. old.tries - 1 \in 0..MaxTries
      BY <1>0, <2>1 DEF Step, InBudget
    <2>3. to \in MessageState
      BY <1>0, <2>2, UpdateRecord DEF MessageState
    <2>4. InBudget(to)
      BY <1>0, <2>1 DEF Step, InBudget
    <2>5. QED
      BY <1>1, <2>1, <2>3, <2>4
  <1>10. CASE Answer(m)
    <2> DEFINE to == [old EXCEPT !.pc = "answered", !.answers = @ + 1]
    <2>1. Step(m, {"running"}, to)
      BY <1>10 DEF Answer
    <2>2. old.answers + 1 \in 0..MaxTries
      BY <1>0, <2>1 DEF Step, InBudget
    <2>3. to \in MessageState
      BY <1>0, <2>2, UpdateRecord DEF MessageState
    <2>4. InBudget(to)
      BY <1>0, <2>1 DEF Step, InBudget
    <2>5. QED
      BY <1>1, <2>1, <2>3, <2>4
  <1>11. CASE EndRun(m)
    <2> DEFINE to == [old EXCEPT !.pc = "done", !.tries = 0]
    <2>1. Step(m, {"running", "answered"}, to)
      BY <1>11 DEF EndRun
    <2>2. 0 \in 0..MaxTries
      BY <1>0, <2>1 DEF Step, InBudget
    <2>3. to \in MessageState
      BY <1>0, <2>2, UpdateRecord DEF MessageState
    <2>4. InBudget(to)
      BY <1>0, <2>1 DEF Step, InBudget
    <2>5. QED
      BY <1>1, <2>1, <2>3, <2>4
  <1>12. CASE CrashRun(m)
    <2> DEFINE to == [old EXCEPT !.pc = IF old.tries > 0 THEN "queued" ELSE "done"]
    <2>1. Step(m, {"running", "answered"}, to)
      BY <1>12 DEF CrashRun, At
    <2>2. to \in MessageState /\ InBudget(to)
      BY <1>0, <2>1 DEF Step, MessageState, InBudget
    <2>3. QED
      BY <1>1, <2>1, <2>2
  <1>13. QED
    BY <1>2, <1>3, <1>4, <1>5, <1>6, <1>7, <1>8, <1>9, <1>10, <1>11, <1>12 DEF Progress

LEMMA MoveTypeInv ==
  ASSUME NEW m \in Messages, TypeInv, Moves(m),
         msg'[m] \in MessageState, InBudget(msg'[m])
  PROVE  TypeInv'
  <1>1. \A n \in Messages : msg'[n] = msg[n] \/ n = m
    BY DEF TypeInv, TypeOK, Moves
  <1>2. msg' \in [Messages -> MessageState]
    BY DEF TypeInv, TypeOK, Moves
  <1>3. TypeOK'
    BY <1>2 DEF TypeInv, TypeOK, Moves
  <1>4. \A n \in Messages : InBudget(msg'[n])
    BY <1>1 DEF TypeInv, Budget
  <1>5. Budget'
    BY <1>4 DEF Budget, InBudget
  <1>6. QED
    BY <1>3, <1>5 DEF TypeInv

\* Every other step leaves the messages' local states alone.
LEMMA NextTypeInv == TypeInv /\ [Next]_vars => TypeInv'
  <1> SUFFICES ASSUME TypeInv, [Next]_vars PROVE TypeInv'
    OBVIOUS
  <1> USE HandoffAssumption
  <1>1. ASSUME NEW r \in Requests, NEW u \in Staff,
               TakeoverRead(r, u) \/ ReleaseRead(r, u) \/ SendRead(r, u)
        PROVE  TypeInv'
    BY <1>1 DEF TakeoverRead, ReleaseRead, SendRead, Load, RowUnchanged,
                TypeInv, TypeOK, Budget, InBudget, RequestState, Assignee
  <1>2. ASSUME NEW r \in Requests,
               TakeoverCommit(r) \/ ReleaseCommit(r) \/ SendCommit(r)
        PROVE  TypeInv'
    <2>1. /\ req' = [req EXCEPT ![r] = Idle]
          /\ UNCHANGED <<users, tickets, msg>>
      BY <1>2 DEF TakeoverCommit, ReleaseCommit, SendCommit, Return
    <2>2. /\ status' \in Status
          /\ assigned' \in Assignee
          /\ late' \subseteq Messages
      BY <1>2 DEF TakeoverCommit, ReleaseCommit, SendCommit, RowUnchanged, SetStatus,
                  Flushed, TypeInv, TypeOK, RequestState, Status, Assignee
    <2>3. Idle \in RequestState
      BY DEF Idle, RequestState, Assignee, Status
    <2>4. QED
      BY <2>1, <2>2, <2>3 DEF TypeInv, TypeOK, Budget, InBudget
  <1>3. ASSUME NEW u \in Staff, DeleteUser(u)
        PROVE  TypeInv'
    BY <1>3 DEF DeleteUser, TypeInv, TypeOK, Budget, InBudget, Assignee
  <1>4. ASSUME NEW m \in Messages, Escalate(m)
        PROVE  TypeInv'
    BY <1>4 DEF Escalate, SetStatus, TypeInv, TypeOK, Budget, InBudget, Status
  <1>5. CASE UNCHANGED vars
    BY <1>5 DEF vars, TypeInv, TypeOK, Budget, InBudget
  <1>6. QED
    BY <1>1, <1>2, <1>3, <1>4, <1>5, ProgressMoves, MoveTypeInv DEF Next, StaffNext, MessageNext

LEMMA TypeInvariant == Spec => []TypeInv
  BY InitTypeInv, NextTypeInv, PTL DEF Spec

\* The state of the hand-off keeps its type: in particular a job is executed and
\* answers at most MaxTries times, whatever crashes and retries do.
THEOREM TypeCorrect == Spec => []TypeOK
  BY TypeInvariant, PTL DEF TypeInv

-------------------------------------------------------------------------------
(* The kill switch *)

\* A step of one message preserves Horizon if it reads the status it finds and
\* admits to the AI only a message whose read found no human in charge.
LEMMA MoveHorizon ==
  ASSUME NEW m \in Messages, TypeInv, Horizon, Moves(m),
         msg[m].pc = "new" => msg'[m].seen = status,
         msg[m].pc # "new" => msg'[m].seen = msg[m].seen,
         msg'[m].pc \in {"queued", "running", "answered"} =>
             msg'[m].seen # "human_handling"
  PROVE  Horizon'
  <1>1. \A n \in Messages : n # m => msg'[n] = msg[n]
    BY DEF TypeInv, TypeOK, Moves
  <1>2. AdmittedByRead'
    BY <1>1 DEF Horizon, AdmittedByRead, OnItsWayToAI
  <1>3. ReadBeforeHandling'
    BY <1>1 DEF Horizon, ReadBeforeHandling, Moves
  <1>4. QED
    BY <1>2, <1>3 DEF Horizon

LEMMA ProgressHorizon ==
  ASSUME NEW m \in Messages, TypeInv, Horizon, ReceiveMessage(m) \/ Progress(m)
  PROVE  Horizon'
  <1>1. msg \in [Messages -> MessageState] /\ msg[m] \in MessageState
    BY DEF TypeInv, TypeOK
  <1>2. msg[m].pc \in {"queued", "running", "answered"} =>
            msg[m].seen # "human_handling"
    BY DEF Horizon, AdmittedByRead, OnItsWayToAI
  <1>3. /\ msg[m].pc = "new" => msg'[m].seen = status
        /\ msg[m].pc # "new" => msg'[m].seen = msg[m].seen
        /\ msg'[m].pc \in {"queued", "running", "answered"} =>
               msg'[m].seen # "human_handling"
    <2>1. CASE ReceiveMessage(m)
      BY <1>1, <2>1 DEF ReceiveMessage, Step, MessageState
    <2>2. CASE SaveMessage(m) \/ LoseMessage(m) \/ LeaveToHuman(m) \/ RefuseMessage(m)
      BY <1>1, <1>2, <2>2
      DEF SaveMessage, LoseMessage, LeaveToHuman, RefuseMessage, Step, At, MessageState
    <2>3. CASE Enqueue(m) \/ RunInline(m)
      BY <1>1, <1>2, <2>3 DEF Enqueue, RunInline, Step, At, MessageState
    <2>4. CASE StartRun(m) \/ Answer(m)
      <3>1. msg[m].pc \in {"queued", "running"}
        BY <2>4 DEF StartRun, Answer, Step
      <3>2. \/ \E tries : msg'[m] = [msg[m] EXCEPT !.pc = "running", !.tries = tries]
            \/ \E answers : msg'[m] = [msg[m] EXCEPT !.pc = "answered", !.answers = answers]
        BY <1>1, <2>4 DEF StartRun, Answer, Step
      <3>3. msg'[m].seen = msg[m].seen
        BY <1>1, <3>2 DEF MessageState
      <3>4. QED
        BY <1>2, <3>1, <3>3
    <2>5. CASE EndRun(m) \/ CrashRun(m)
      BY <1>1, <1>2, <2>5 DEF EndRun, CrashRun, Step, At, MessageState
    <2>6. QED
      BY <2>1, <2>2, <2>3, <2>4, <2>5 DEF Progress
  <1>4. QED
    BY <1>3, ProgressMoves, MoveHorizon

\* A new status preserves Horizon: when human handling begins, everything read
\* so far becomes late.
LEMMA SetStatusHorizon ==
  ASSUME NEW new, Horizon, SetStatus(new), msg' = msg
  PROVE  Horizon'
  BY DEF SetStatus, Horizon, AdmittedByRead, ReadBeforeHandling, OnItsWayToAI

LEMMA InitHorizon == Init => Horizon
  BY DEF Init, Horizon, AdmittedByRead, ReadBeforeHandling, OnItsWayToAI, Unsent

LEMMA NextHorizon == TypeInv /\ Horizon /\ [Next]_vars => Horizon'
  <1> SUFFICES ASSUME TypeInv, Horizon, [Next]_vars PROVE Horizon'
    OBVIOUS
  <1> DEFINE Unmoved == UNCHANGED <<status, msg, late>>
  <1>0. Unmoved => Horizon'
    BY DEF Horizon, AdmittedByRead, ReadBeforeHandling, OnItsWayToAI
  <1>1. ASSUME NEW r \in Requests, NEW u \in Staff,
               TakeoverRead(r, u) \/ ReleaseRead(r, u) \/ SendRead(r, u)
        PROVE  Horizon'
    BY <1>0, <1>1 DEF TakeoverRead, ReleaseRead, SendRead, Load, RowUnchanged
  <1>2. ASSUME NEW r \in Requests, TakeoverCommit(r)
        PROVE  Horizon'
    BY <1>0, <1>2, SetStatusHorizon DEF TakeoverCommit, Return, RowUnchanged
  <1>3. ASSUME NEW r \in Requests, ReleaseCommit(r) \/ SendCommit(r)
        PROVE  Horizon'
    BY <1>0, <1>3, SetStatusHorizon DEF ReleaseCommit, SendCommit, Return, RowUnchanged
  <1>4. ASSUME NEW u \in Staff, DeleteUser(u)
        PROVE  Horizon'
    BY <1>0, <1>4 DEF DeleteUser
  <1>5. ASSUME NEW m \in Messages, Escalate(m)
        PROVE  Horizon'
    BY <1>5, SetStatusHorizon DEF Escalate
  <1>6. CASE UNCHANGED vars
    BY <1>0, <1>6 DEF vars
  <1>7. QED
    BY <1>1, <1>2, <1>3, <1>4, <1>5, <1>6, ProgressHorizon DEF Next, StaffNext, MessageNext

LEMMA HorizonInvariant == Spec => []Horizon
  BY InitHorizon, NextHorizon, TypeInvariant, PTL DEF Spec

\* While a human handles the conversation, the AI works only on messages whose
\* read of the row preceded that handling.
THEOREM KillSwitchHolds == Spec => []KillSwitchHorizon
  <1>1. Horizon => KillSwitchHorizon
    BY DEF Horizon, AdmittedByRead, ReadBeforeHandling, KillSwitchHorizon, OnItsWayToAI
  <1>2. QED
    BY <1>1, HorizonInvariant, PTL

\* Human handling ends by a release, or by the escalation of a late message.
THEOREM HandlingEnds == Spec => HandlingEndsByReleaseOrLateRun
  <1> DEFINE Ends == status = "human_handling" /\ status' # "human_handling" =>
                        Released \/ EscalatedByLateRun
  <1>1. TypeInv /\ Horizon /\ [Next]_vars => [Ends]_vars
    <2> SUFFICES ASSUME TypeInv, Horizon, Next, status = "human_handling",
                        status' # "human_handling"
                 PROVE  Released \/ EscalatedByLateRun
      OBVIOUS
    <2>1. CASE \E r \in Requests : StaffNext(r)
      <3>1. PICK r \in Requests : StaffNext(r)
        BY <2>1
      <3>2. ReleaseCommit(r)
        BY <3>1 DEF StaffNext, TakeoverRead, ReleaseRead, SendRead, Load, TakeoverCommit,
                    SendCommit, RowUnchanged, SetStatus, Flushed
      <3>3. req \in [Requests -> RequestState]
        BY DEF TypeInv, TypeOK
      <3>4. QED
        BY <3>2, <3>3 DEF ReleaseCommit, Return, Released, Finishes, Idle
    <2>2. CASE \E m \in Messages : MessageNext(m)
      <3>1. PICK m \in Messages : MessageNext(m)
        BY <2>2
      <3>2. ~(ReceiveMessage(m) \/ Progress(m))
        BY ProgressMoves DEF Moves
      <3>3. Escalate(m)
        BY <3>1, <3>2 DEF MessageNext
      <3>4. m \in late
        BY <3>3 DEF Escalate, Horizon, AdmittedByRead, ReadBeforeHandling, OnItsWayToAI
      <3>5. tickets'[m] > tickets[m]
        BY <3>3 DEF Escalate, TypeInv, TypeOK
      <3>6. QED
        BY <3>4, <3>5 DEF EscalatedByLateRun
    <2>3. QED
      BY <2>1, <2>2 DEF Next, DeleteUser
  <1>2. QED
    BY <1>1, TypeInvariant, HorizonInvariant, PTL DEF Spec, HandlingEndsByReleaseOrLateRun

-------------------------------------------------------------------------------
(* The row under concurrent staff requests *)

\* A request in flight passed its endpoint's guard on the row it read.
PassedGuard(x) ==
    /\ x.pc = "takeover" => x.user \in Staff /\ x.assigned \in {NoStaff, x.user}
    /\ x.pc = "send" => x.status = "human_handling"

RequestsGuarded == \A r \in Requests : PassedGuard(req[r])

LEMMA GuardedInvariant == Spec => []RequestsGuarded
  <1>1. Init => RequestsGuarded
    BY DEF Init, RequestsGuarded, PassedGuard, Idle
  <1>2. TypeInv /\ RequestsGuarded /\ [Next]_vars => RequestsGuarded'
    <2> SUFFICES ASSUME TypeInv, RequestsGuarded, [Next]_vars PROVE RequestsGuarded'
      OBVIOUS
    <2>0. req \in [Requests -> RequestState]
      BY DEF TypeInv, TypeOK
    <2>1. ASSUME NEW r \in Requests, NEW u \in Staff,
                 TakeoverRead(r, u) \/ ReleaseRead(r, u) \/ SendRead(r, u)
          PROVE  RequestsGuarded'
      BY <2>0, <2>1 DEF TakeoverRead, ReleaseRead, SendRead, Load, RequestsGuarded, PassedGuard
    <2>2. ASSUME NEW r \in Requests,
                 TakeoverCommit(r) \/ ReleaseCommit(r) \/ SendCommit(r)
          PROVE  RequestsGuarded'
      <3>1. req' = [req EXCEPT ![r] = Idle]
        BY <2>2 DEF TakeoverCommit, ReleaseCommit, SendCommit, Return
      <3>2. QED
        BY <2>0, <3>1 DEF RequestsGuarded, PassedGuard, Idle
    <2>3. CASE UNCHANGED req
      BY <2>3 DEF RequestsGuarded, PassedGuard
    <2>4. ASSUME NEW m \in Messages, MessageNext(m)
          PROVE  UNCHANGED req
      BY <2>4, ProgressMoves DEF MessageNext, Escalate, Moves
    <2>5. QED
      BY <2>1, <2>2, <2>3, <2>4 DEF Next, StaffNext, DeleteUser, vars
  <1>3. QED
    BY <1>1, <1>2, TypeInvariant, PTL DEF Spec

\* A staff member loses a conversation to another, a row is left half handed
\* over, or a staff message is saved outside human handling, only through a
\* request whose read of the row went stale, an account deletion, or the
\* escalation of a run that was under way when the handling began.
THEOREM AnomaliesAreStale == Spec => AnomalyNeedsStaleRead
  <1> DEFINE Anomaly == Steals \/ TearsRow \/ SpeaksOutOfTurn
  <1>1. TypeInv /\ Horizon /\ RequestsGuarded /\ [Next]_vars => [Anomaly => Excused]_vars
    <2> SUFFICES ASSUME TypeInv, Horizon, RequestsGuarded, Next, Anomaly PROVE Excused
      OBVIOUS
    <2>0. req \in [Requests -> RequestState]
      BY DEF TypeInv, TypeOK
    <2>1. ASSUME NEW r \in Requests, NEW u \in Staff,
                 TakeoverRead(r, u) \/ ReleaseRead(r, u) \/ SendRead(r, u)
          PROVE  FALSE
      <3>1. /\ req[r].pc = "idle"
            /\ \A q \in Requests : q # r => req'[q] = req[q]
            /\ UNCHANGED <<status, assigned>>
        BY <2>0, <2>1 DEF TakeoverRead, ReleaseRead, SendRead, Load, RowUnchanged
      <3>2. QED
        BY <3>1 DEF Steals, TearsRow, HalfHandedOver, SpeaksOutOfTurn, Finishes
    <2>2. ASSUME NEW r \in Requests,
                 TakeoverCommit(r) \/ ReleaseCommit(r) \/ SendCommit(r)
          PROVE  Excused
      <3>1. /\ req[r].pc # "idle"
            /\ req'[r].pc = "idle"
            /\ \A q \in Requests : q # r => req'[q] = req[q]
        BY <2>0, <2>2 DEF TakeoverCommit, ReleaseCommit, SendCommit, Return, Idle
      <3>2. CASE Stale(r)
        BY <3>1, <3>2 DEF Excused, Finishes
      <3>3. CASE ~Stale(r)
        <4>1. PassedGuard(req[r]) /\ req[r].status = status /\ req[r].assigned = assigned
          BY <3>3 DEF RequestsGuarded, Stale
        <4>2. ~SpeaksOutOfTurn
          BY <2>2, <3>1, <4>1 DEF SpeaksOutOfTurn, Finishes, PassedGuard, TakeoverCommit,
                                  ReleaseCommit, SendCommit
        <4>3. ~Steals /\ ~TearsRow
          BY <2>2, <4>1, HandoffAssumption
          DEF PassedGuard, TakeoverCommit, ReleaseCommit, SendCommit, SetStatus, Flushed,
              RowUnchanged, Steals, TearsRow, HalfHandedOver
        <4>4. QED
          BY <4>2, <4>3
      <3>4. QED
        BY <3>2, <3>3
    <2>3. ASSUME NEW u \in Staff, DeleteUser(u)
          PROVE  Excused
      BY <2>3 DEF DeleteUser, Steals, TearsRow, HalfHandedOver, SpeaksOutOfTurn, Finishes,
                  Excused
    <2>4. ASSUME NEW m \in Messages, ReceiveMessage(m) \/ Progress(m)
          PROVE  FALSE
      <3>1. UNCHANGED <<status, assigned, req>>
        BY <2>4, ProgressMoves DEF Moves
      <3>2. QED
        BY <3>1 DEF Steals, TearsRow, HalfHandedOver, SpeaksOutOfTurn, Finishes
    <2>5. ASSUME NEW m \in Messages, Escalate(m)
          PROVE  Excused
      <3>1. UNCHANGED <<assigned, req>> /\ status' = "waiting_human"
        BY <2>5 DEF Escalate, SetStatus
      <3>2. status = "human_handling"
        BY <3>1 DEF Steals, TearsRow, HalfHandedOver, SpeaksOutOfTurn, Finishes
      <3>3. m \in late
        BY <2>5, <3>2
        DEF Escalate, Horizon, AdmittedByRead, ReadBeforeHandling, OnItsWayToAI
      <3>4. tickets'[m] > tickets[m]
        BY <2>5 DEF Escalate, TypeInv, TypeOK
      <3>5. QED
        BY <3>3, <3>4 DEF Excused, EscalatedByLateRun
    <2>6. QED
      BY <2>1, <2>2, <2>3, <2>4, <2>5 DEF Next, StaffNext, MessageNext
  <1>2. QED
    BY <1>1, TypeInvariant, HorizonInvariant, GuardedInvariant, PTL
    DEF Spec, AnomalyNeedsStaleRead

\* An account assigned to the conversation exists.
THEOREM AssigneeStaysReal == Spec => []AssigneeExists
  <1>1. Init => AssigneeExists
    BY DEF Init, AssigneeExists
  <1>2. TypeInv /\ AssigneeExists /\ [Next]_vars => AssigneeExists'
    <2> SUFFICES ASSUME TypeInv, AssigneeExists, [Next]_vars PROVE AssigneeExists'
      OBVIOUS
    <2>1. ASSUME NEW r \in Requests, StaffNext(r)
          PROVE  AssigneeExists'
      BY <2>1 DEF StaffNext, TakeoverRead, ReleaseRead, SendRead, Load, TakeoverCommit,
                  ReleaseCommit, SendCommit, Return, RowUnchanged, SetStatus, Flushed,
                  AssigneeExists
    <2>2. ASSUME NEW u \in Staff, DeleteUser(u)
          PROVE  AssigneeExists'
      BY <2>2 DEF DeleteUser, AssigneeExists
    <2>3. ASSUME NEW m \in Messages, MessageNext(m)
          PROVE  AssigneeExists'
      BY <2>3, ProgressMoves DEF MessageNext, Escalate, Moves, AssigneeExists
    <2>4. CASE UNCHANGED vars
      BY <2>4 DEF vars, AssigneeExists
    <2>5. QED
      BY <2>1, <2>2, <2>3, <2>4 DEF Next
  <1>3. QED
    BY <1>1, <1>2, TypeInvariant, PTL DEF Spec

\* A conversation waiting for a human has a ticket.
THEOREM WaitingIsTicketed == Spec => []WaitingHasTicket
  <1>1. Init => WaitingHasTicket
    BY DEF Init, WaitingHasTicket
  <1>2. TypeInv /\ WaitingHasTicket /\ [Next]_vars => WaitingHasTicket'
    <2> SUFFICES ASSUME TypeInv, WaitingHasTicket, [Next]_vars PROVE WaitingHasTicket'
      OBVIOUS
    <2>1. ASSUME NEW r \in Requests, StaffNext(r)
          PROVE  WaitingHasTicket'
      BY <2>1 DEF StaffNext, TakeoverRead, ReleaseRead, SendRead, Load, TakeoverCommit,
                  ReleaseCommit, SendCommit, Return, RowUnchanged, SetStatus, Flushed,
                  WaitingHasTicket
    <2>2. ASSUME NEW u \in Staff, DeleteUser(u)
          PROVE  WaitingHasTicket'
      BY <2>2 DEF DeleteUser, WaitingHasTicket
    <2>3. ASSUME NEW m \in Messages, Escalate(m)
          PROVE  WaitingHasTicket'
      <3>1. tickets \in [Messages -> 0..MaxTickets]
        BY DEF TypeInv, TypeOK
      <3>2. tickets'[m] > 0
        BY <2>3, <3>1, HandoffAssumption DEF Escalate
      <3>3. QED
        BY <3>2 DEF WaitingHasTicket
    <2>4. ASSUME NEW m \in Messages, ReceiveMessage(m) \/ Progress(m)
          PROVE  WaitingHasTicket'
      BY <2>4, ProgressMoves DEF Moves, WaitingHasTicket
    <2>5. CASE UNCHANGED vars
      BY <2>5 DEF vars, WaitingHasTicket
    <2>6. QED
      BY <2>1, <2>2, <2>3, <2>4, <2>5 DEF Next, MessageNext
  <1>3. QED
    BY <1>1, <1>2, TypeInvariant, PTL DEF Spec

-------------------------------------------------------------------------------
(* The hand-off implements the abstract kill switch *)

Verdict(x) == IF x.pc = "new" THEN "none"
              ELSE IF x.seen = "human_handling" THEN "human" ELSE "ai"

\* A step that leaves the messages alone flips the switch or stutters.
LEMMA RowStepFlips ==
  ASSUME UNCHANGED msg
  PROVE  [Promise!Next]_(Promise!switchVars)
  <1>1. CASE (status' = "human_handling") = (status = "human_handling")
    BY <1>1 DEF Promise!switchVars
  <1>2. CASE (status' = "human_handling") # (status = "human_handling")
    <2>1. Promise!Flip
      BY <1>2 DEF Promise!Flip
    <2>2. QED
      BY <2>1 DEF Promise!Next
  <1>3. QED
    BY <1>1, <1>2

\* The read of the row is the abstract arrival.
LEMMA ReceiveArrives ==
  ASSUME NEW m \in Messages, TypeInv, ReceiveMessage(m)
  PROVE  Promise!Arrive(m)
  <1>1. /\ msg \in [Messages -> MessageState]
        /\ msg[m].pc = "new"
        /\ msg' = [msg EXCEPT ![m] = [msg[m] EXCEPT !.pc = "read", !.seen = status]]
        /\ status' = status
    BY DEF ReceiveMessage, Step, RowUnchanged, TypeInv, TypeOK
  <1>2. /\ \A n \in Messages : n # m => msg'[n] = msg[n]
        /\ msg'[m].pc = "read"
        /\ msg'[m].seen = status
        /\ msg'[m].answers = msg[m].answers
    BY <1>1 DEF MessageState
  <1>3. \A n \in Messages : msg'[n].answers = msg[n].answers
    BY <1>2
  <1>4. \A n \in Messages :
            Verdict(msg'[n]) = IF n = m
                               THEN IF status = "human_handling" THEN "human" ELSE "ai"
                               ELSE Verdict(msg[n])
    BY <1>2 DEF Verdict
  <1>5. QED
    BY <1>1, <1>3, <1>4 DEF Promise!Arrive, Verdict

\* An answer is the abstract one; the budget of executions allows it.
LEMMA AnswerSpeaks ==
  ASSUME NEW m \in Messages, TypeInv, Horizon, Answer(m)
  PROVE  Promise!Speak(m)
  <1>1. /\ msg \in [Messages -> MessageState]
        /\ msg[m].pc = "running"
        /\ msg' = [msg EXCEPT ![m] =
                      [msg[m] EXCEPT !.pc = "answered", !.answers = msg[m].answers + 1]]
        /\ status' = status
    BY DEF Answer, Step, RowUnchanged, TypeInv, TypeOK
  <1>2. \A n \in Messages : n # m => msg'[n] = msg[n]
    BY <1>1
  <1>3. msg'[m].answers = msg[m].answers + 1
    BY <1>1 DEF MessageState
  <1>4. msg'[m].pc = "answered"
    BY <1>1 DEF MessageState
  <1>5. msg'[m].seen = msg[m].seen
    <2>1. \E a : msg'[m] = [msg[m] EXCEPT !.pc = "answered", !.answers = a]
      BY <1>1
    <2>2. QED
      BY <1>1, <2>1 DEF MessageState
  <1>6. Verdict(msg[m]) = "ai"
    BY <1>1 DEF Horizon, AdmittedByRead, OnItsWayToAI, Verdict
  <1>7. \A n \in Messages : Verdict(msg'[n]) = Verdict(msg[n])
    BY <1>1, <1>2, <1>4, <1>5 DEF Verdict
  <1>8. msg[m].answers < MaxTries
    BY <1>1, HandoffAssumption DEF TypeInv, TypeOK, Budget, InBudget, MessageState
  <1>9. \A n \in Messages :
            msg'[n].answers = IF n = m THEN msg[m].answers + 1 ELSE msg[n].answers
    BY <1>2, <1>3
  <1>10. QED
    BY <1>1, <1>6, <1>7, <1>8, <1>9 DEF Promise!Speak, Verdict

\* Every other step of a message is invisible to the abstract switch.
LEMMA ProgressStutters ==
  ASSUME NEW m \in Messages, TypeInv, Progress(m), ~Answer(m)
  PROVE  UNCHANGED Promise!switchVars
  <1>1. msg \in [Messages -> MessageState] /\ Moves(m)
    BY ProgressMoves DEF TypeInv, TypeOK
  <1>2. /\ msg'[m].answers = msg[m].answers
        /\ msg'[m].seen = msg[m].seen
        /\ msg'[m].pc # "new" /\ msg[m].pc # "new"
    <2>1. CASE SaveMessage(m) \/ LoseMessage(m) \/ LeaveToHuman(m) \/ RefuseMessage(m)
      BY <1>1, <2>1
      DEF SaveMessage, LoseMessage, LeaveToHuman, RefuseMessage, Step, At, MessageState
    <2>2. CASE RunInline(m) \/ CrashRun(m)
      BY <1>1, <2>2 DEF RunInline, CrashRun, Step, At, MessageState
    <2>3. CASE Enqueue(m) \/ StartRun(m) \/ EndRun(m)
      <3>1. /\ msg[m].pc # "new"
            /\ \E p \in {"queued", "running", "done"} : \E t :
                   msg'[m] = [msg[m] EXCEPT !.pc = p, !.tries = t]
        BY <1>1, <2>3 DEF Enqueue, StartRun, EndRun, Step
      <3>2. QED
        BY <1>1, <3>1 DEF MessageState
    <2>4. QED
      BY <2>1, <2>2, <2>3 DEF Progress
  <1>3. \A n \in Messages : n # m => msg'[n] = msg[n]
    BY <1>1 DEF Moves
  <1>4. \A n \in Messages : /\ Verdict(msg'[n]) = Verdict(msg[n])
                            /\ msg'[n].answers = msg[n].answers
    BY <1>2, <1>3 DEF Verdict
  <1>5. QED
    BY <1>1, <1>4 DEF Promise!switchVars, Verdict, Moves

\* The AI answers only messages that arrived while no human was in charge, at
\* most MaxTries times each: the hand-off implements the abstract kill switch.
THEOREM KillSwitchRefined == Spec => KillSwitchKept
  <1>1. Init => Promise!Init
    BY DEF Init, Unsent, Promise!Init
  <1>2. TypeInv /\ Horizon /\ [Next]_vars => [Promise!Next]_(Promise!switchVars)
    <2> SUFFICES ASSUME TypeInv, Horizon, [Next]_vars
                 PROVE  [Promise!Next]_(Promise!switchVars)
      OBVIOUS
    <2>1. ASSUME NEW r \in Requests, StaffNext(r)
          PROVE  UNCHANGED msg
      BY <2>1 DEF StaffNext, TakeoverRead, ReleaseRead, SendRead, Load, TakeoverCommit,
                  ReleaseCommit, SendCommit, Return
    <2>2. ASSUME NEW m \in Messages, MessageNext(m)
          PROVE  [Promise!Next]_(Promise!switchVars)
      <3>1. CASE ReceiveMessage(m)
        BY <3>1, ReceiveArrives DEF Promise!Next
      <3>2. CASE Answer(m)
        BY <3>2, AnswerSpeaks DEF Promise!Next
      <3>3. CASE Progress(m) /\ ~Answer(m)
        BY <3>3, ProgressStutters
      <3>4. CASE Escalate(m)
        BY <3>4, RowStepFlips DEF Escalate
      <3>5. QED
        BY <2>2, <3>1, <3>2, <3>3, <3>4 DEF MessageNext
    <2>3. QED
      BY <2>1, <2>2, RowStepFlips DEF Next, DeleteUser, vars
  <1>3. QED
    BY <1>1, <1>2, TypeInvariant, HorizonInvariant, PTL DEF Spec, KillSwitchKept, Promise!Spec
===============================================================================
