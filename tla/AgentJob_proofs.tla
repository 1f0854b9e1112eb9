---------------------------- MODULE AgentJob_proofs ----------------------------
(***************************************************************************)
(* What holds of the AI runs for any number of messages, executions per    *)
(* job and tokens per call, whatever faults strike.                        *)
(*                                                                         *)
(* A run can be executed again after any of its steps, so what a job has   *)
(* stored and sent is bounded together with the executions it has left     *)
(* (Attempts).  The total stays below the usage because every value a run  *)
(* may still add to was a total, hence at most the usage (Ledger).         *)
(*                                                                         *)
(* Each step is a step of module Handoff's message or hidden there         *)
(* (JobRefines): its executions are counted alike, and a job that never    *)
(* left the handler has none to lose (Attempts).                           *)
(***************************************************************************)
EXTENDS AgentJob, TLAPS

-------------------------------------------------------------------------------
(* The inductive invariant *)

\* Answers sent, answers stored, executions left and the one under way.
Attempts(x) ==
    /\ x.pc \in {"new", "read", "typing"} => x.tries = 0 /\ x.replies = 0 /\ x.saved = 0
    /\ x.pc = "queued" => x.tries > 0
    /\ x.replies + x.tries + (IF x.pc \in Running \ {"published"} THEN 1 ELSE 0) <= MaxTries
    /\ x.saved + x.tries
         + (IF x.pc \in Running \ {"publishing", "published"} THEN 1 ELSE 0) <= MaxTries

\* An answer about to be published has been stored, unless its save failed.
Stored(x) ==
    ~x.unsaved => x.replies + (IF x.pc = "publishing" THEN 1 ELSE 0) <= x.saved

\* A run that ends without a word was struck by a fault.
Explained(x) ==
    /\ x.pc = "published" => x.replies > 0
    /\ x.pc = "ended" /\ x.replies = 0 /\ ~x.notice => x.hit

Sound(x) == Attempts(x) /\ Stored(x) /\ Explained(x)

JobsSound == \A j \in Jobs : Sound(job[j])

Ledger == total <= usage /\ \A j \in Jobs : job[j].loaded <= usage

Inv == TypeOK /\ JobsSound /\ Ledger

-------------------------------------------------------------------------------
(* One step of one job *)

\* Fields of a local state replaced by values of their sets.
LEMMA UpdateJob ==
  ASSUME NEW P, NEW B, NEW T, NEW L, NEW K, NEW R, NEW S,
         NEW x \in [pc : P, inline : B, tries : T, loaded : L, tokens : K,
                    replies : R, saved : S, notice : B, unsaved : B, hit : B],
         NEW pc \in P, NEW b \in B, NEW t \in T, NEW l \in L, NEW k \in K,
         NEW r \in R, NEW s \in S
  PROVE  LET X == [pc : P, inline : B, tries : T, loaded : L, tokens : K,
                   replies : R, saved : S, notice : B, unsaved : B, hit : B]
         IN /\ [x EXCEPT !.pc = pc] \in X
            /\ [x EXCEPT !.hit = b] \in X
            /\ [x EXCEPT !.notice = b] \in X
            /\ [x EXCEPT !.pc = pc, !.inline = b] \in X
            /\ [x EXCEPT !.pc = pc, !.unsaved = b] \in X
            /\ [x EXCEPT !.pc = pc, !.notice = b] \in X
            /\ [x EXCEPT !.pc = pc, !.loaded = l] \in X
            /\ [x EXCEPT !.pc = pc, !.tokens = k] \in X
            /\ [x EXCEPT !.pc = pc, !.replies = r] \in X
            /\ [x EXCEPT !.pc = pc, !.saved = s] \in X
            /\ [x EXCEPT !.pc = pc, !.tries = t] \in X
            /\ [x EXCEPT !.pc = pc, !.tries = t, !.loaded = l] \in X
            /\ [x EXCEPT !.pc = pc, !.tries = t, !.loaded = l, !.tokens = k] \in X
            /\ [x EXCEPT !.pc = pc, !.hit = b, !.loaded = l, !.tokens = k] \in X
  OBVIOUS

\* What a job's step may do to its own local state and to everything else.
Steps(j) == /\ job' = [job EXCEPT ![j] = job'[j]]
            /\ job'[j] \in JobState
            /\ Sound(job'[j])
            /\ job'[j].loaded \in {0, job[j].loaded, total}

\* The executions left cover what a running job may still store and send.
LEMMA EndedJob ==
  ASSUME NEW j \in Jobs, job[j] \in JobState, Sound(job[j])
  PROVE  /\ Ended(j) \in JobState
         /\ Hit(j) \in JobState
         /\ Ended(j).pc = "ended" /\ Ended(j).tries = 0 /\ Ended(j).loaded = 0
         /\ Ended(j).replies = job[j].replies /\ Ended(j).saved = job[j].saved
         /\ Ended(j).unsaved = job[j].unsaved /\ Ended(j).notice = job[j].notice
         /\ Hit(j).pc = "ended" /\ Hit(j).tries = 0 /\ Hit(j).loaded = 0
         /\ Hit(j).replies = job[j].replies /\ Hit(j).saved = job[j].saved
         /\ Hit(j).unsaved = job[j].unsaved /\ Hit(j).hit
  <1> USE AgentJobAssumption
  <1>1. "ended" \in {"new", "read", "typing", "lost", "refused", "queued", "ended"}
                      \cup Running
    BY DEF Running
  <1>2. 0 \in 0..MaxTries
    OBVIOUS
  <1>3. Ended(j) \in JobState
    BY <1>1, <1>2, UpdateJob DEF Ended, JobState
  <1>4. Hit(j) \in JobState
    BY <1>3, UpdateJob DEF Hit, JobState
  <1>5. /\ Ended(j).pc = "ended" /\ Ended(j).tries = 0 /\ Ended(j).loaded = 0
        /\ Ended(j).replies = job[j].replies /\ Ended(j).saved = job[j].saved
        /\ Ended(j).unsaved = job[j].unsaved /\ Ended(j).notice = job[j].notice
    BY DEF Ended, JobState
  <1>6. \A f \in {"pc", "tries", "loaded", "replies", "saved", "unsaved"} :
            Hit(j)[f] = Ended(j)[f]
    BY <1>3 DEF Hit, JobState
  <1>7. Hit(j).hit
    BY <1>3 DEF Hit, JobState
  <1>8. QED
    BY <1>3, <1>4, <1>5, <1>6, <1>7

\* A step of job j is known by the local state it leads to.
LEMMA StepTo ==
  ASSUME TypeOK, NEW j \in Jobs, NEW from, NEW to, Move(j, from, to),
         to \in JobState, Sound(to), to.loaded \in {0, job[j].loaded, total}
  PROVE  Steps(j)
  <1>1. job'[j] = to
    BY DEF TypeOK, Move
  <1>2. QED
    BY <1>1 DEF Steps, Move

\* Every step of a job keeps its local state well typed and sound; the total it
\* holds is the one it held, the one in the row, or none.
LEMMA JobSteps ==
  ASSUME TypeOK, JobsSound, NEW j \in Jobs, Receive(j) \/ Handler(j) \/ Run(j)
  PROVE  Steps(j)
  <1> USE AgentJobAssumption
  <1> DEFINE x == job[j]
             X == JobState
  <1>1. x \in X /\ Sound(x) /\ total \in Nat
    BY DEF TypeOK, JobsSound
  <1>2. /\ Ended(j) \in X /\ Hit(j) \in X
        /\ Ended(j).pc = "ended" /\ Ended(j).tries = 0 /\ Ended(j).loaded = 0
        /\ Ended(j).replies = x.replies /\ Ended(j).saved = x.saved
        /\ Ended(j).unsaved = x.unsaved /\ Ended(j).notice = x.notice
        /\ Hit(j).pc = "ended" /\ Hit(j).tries = 0 /\ Hit(j).loaded = 0
        /\ Hit(j).replies = x.replies /\ Hit(j).saved = x.saved
        /\ Hit(j).unsaved = x.unsaved /\ Hit(j).hit
    BY <1>1, EndedJob
  <1>3. /\ x.pc \in {"new", "read", "typing", "lost", "refused", "queued", "ended"} \cup Running
        /\ x.inline \in BOOLEAN /\ x.tries \in 0..MaxTries /\ x.loaded \in Nat
        /\ x.tokens \in Nat /\ x.replies \in 0..MaxTries /\ x.saved \in 0..MaxTries
        /\ x.notice \in BOOLEAN /\ x.unsaved \in BOOLEAN /\ x.hit \in BOOLEAN
    BY <1>1 DEF JobState
  <1>4. CASE Receive(j)
    <2>1. Move(j, {"new"}, [job[j] EXCEPT !.pc = "read", !.loaded = total])
      BY <1>4 DEF Receive, Local
    <2> DEFINE to == [job[j] EXCEPT !.pc = "read", !.loaded = total]
    <2>2. x.pc \in {"new"}
      BY <2>1 DEF Move
    <2>3. to \in X
      BY <1>1, <1>2, <1>3, <2>2, UpdateJob DEF JobState, Running
    <2>4. Sound(to)
      BY <1>1, <1>2, <1>3, <2>2
      DEF Sound, Attempts, Stored, Explained, JobState, Running
    <2>5. to.loaded \in {0, x.loaded, total}
      BY <1>1, <1>2, <1>3, <2>2 DEF JobState
    <2>6. QED
      BY <2>1, <2>3, <2>4, <2>5, StepTo
  <1>5. CASE ShowTyping(j)
    <2>1. Move(j, {"read"}, [job[j] EXCEPT !.pc = "typing"])
      BY <1>5 DEF ShowTyping, Local
    <2> DEFINE to == [job[j] EXCEPT !.pc = "typing"]
    <2>2. x.pc \in {"read"}
      BY <2>1 DEF Move
    <2>3. to \in X
      BY <1>1, <1>2, <1>3, <2>2, UpdateJob DEF JobState, Running
    <2>4. Sound(to)
      BY <1>1, <1>2, <1>3, <2>2
      DEF Sound, Attempts, Stored, Explained, JobState, Running
    <2>5. to.loaded \in {0, x.loaded, total}
      BY <1>1, <1>2, <1>3, <2>2 DEF JobState
    <2>6. QED
      BY <2>1, <2>3, <2>4, <2>5, StepTo
  <1>6. CASE HandlerDies(j)
    <2>1. Move(j, {"read", "typing"}, [Hit(j) EXCEPT !.pc = "lost"])
      BY <1>6 DEF HandlerDies, Local
    <2> DEFINE to == [Hit(j) EXCEPT !.pc = "lost"]
    <2>2. x.pc \in {"read", "typing"}
      BY <2>1 DEF Move
    <2>3. to \in X
      BY <1>1, <1>2, <1>3, <2>2, UpdateJob DEF JobState, Running
    <2>4. Sound(to)
      BY <1>1, <1>2, <1>3, <2>2
      DEF Sound, Attempts, Stored, Explained, JobState, Running
    <2>5. to.loaded \in {0, x.loaded, total}
      BY <1>1, <1>2, <1>3, <2>2 DEF JobState
    <2>6. QED
      BY <2>1, <2>3, <2>4, <2>5, StepTo
  <1>7. CASE Enqueue(j)
    <2>1. Move(j, {"typing"}, [job[j] EXCEPT !.pc = "queued", !.tries = MaxTries, !.loaded = 0])
      BY <1>7 DEF Enqueue, Local
    <2> DEFINE to == [job[j] EXCEPT !.pc = "queued", !.tries = MaxTries, !.loaded = 0]
    <2>2. x.pc \in {"typing"}
      BY <2>1 DEF Move
    <2>3. MaxTries \in 0..MaxTries
      BY <1>1, <1>3, <2>2 DEF Sound, Attempts, Running
    <2>4. to \in X
      BY <1>1, <1>3, <2>3, UpdateJob DEF JobState, Running
    <2>5. Sound(to)
      BY <1>1, <1>2, <1>3, <2>2
      DEF Sound, Attempts, Stored, Explained, JobState, Running
    <2>6. to.loaded \in {0, x.loaded, total}
      BY <1>1, <1>2, <1>3, <2>2 DEF JobState
    <2>7. QED
      BY <2>1, <2>4, <2>5, <2>6, StepTo
  <1>8. CASE EnqueueFails(j)
    <2>1. PICK sent \in BOOLEAN :
             Move(j, {"typing"}, [Hit(j) EXCEPT !.pc = "refused", !.notice = sent])
      BY <1>8 DEF EnqueueFails, Local
    <2> DEFINE to == [Hit(j) EXCEPT !.pc = "refused", !.notice = sent]
    <2>2. x.pc \in {"typing"}
      BY <2>1 DEF Move
    <2>3. to \in X
      BY <1>1, <1>2, <1>3, <2>2, UpdateJob DEF JobState, Running
    <2>4. Sound(to)
      BY <1>1, <1>2, <1>3, <2>2
      DEF Sound, Attempts, Stored, Explained, JobState, Running
    <2>5. to.loaded \in {0, x.loaded, total}
      BY <1>1, <1>2, <1>3, <2>2 DEF JobState
    <2>6. QED
      BY <2>1, <2>3, <2>4, <2>5, StepTo
  <1>9. CASE RunInline(j)
    <2>1. Move(j, {"typing"}, [job[j] EXCEPT !.pc = "starting", !.inline = TRUE])
      BY <1>9 DEF RunInline, Local
    <2> DEFINE to == [job[j] EXCEPT !.pc = "starting", !.inline = TRUE]
    <2>2. x.pc \in {"typing"}
      BY <2>1 DEF Move
    <2>3. to \in X
      BY <1>1, <1>2, <1>3, <2>2, UpdateJob DEF JobState, Running
    <2>4. Sound(to)
      BY <1>1, <1>2, <1>3, <2>2
      DEF Sound, Attempts, Stored, Explained, JobState, Running
    <2>5. to.loaded \in {0, x.loaded, total}
      BY <1>1, <1>2, <1>3, <2>2 DEF JobState
    <2>6. QED
      BY <2>1, <2>3, <2>4, <2>5, StepTo
  <1>10. CASE StartRun(j)
    <2>1. Move(j, {"queued"}, [job[j] EXCEPT !.pc = "starting", !.tries = @ - 1])
      BY <1>10 DEF StartRun, Local
    <2> DEFINE to == [job[j] EXCEPT !.pc = "starting", !.tries = @ - 1]
    <2>2. x.pc \in {"queued"}
      BY <2>1 DEF Move
    <2>3. x.tries - 1 \in 0..MaxTries
      BY <1>1, <1>3, <2>2 DEF Sound, Attempts, Running
    <2>4. to \in X
      BY <1>1, <1>3, <2>3, UpdateJob DEF JobState, Running
    <2>5. Sound(to)
      BY <1>1, <1>2, <1>3, <2>2
      DEF Sound, Attempts, Stored, Explained, JobState, Running
    <2>6. to.loaded \in {0, x.loaded, total}
      BY <1>1, <1>2, <1>3, <2>2 DEF JobState
    <2>7. QED
      BY <2>1, <2>4, <2>5, <2>6, StepTo
  <1>11. CASE JobTimesOut(j)
    <2>1. Move(j, Running, Hit(j))
      BY <1>11 DEF JobTimesOut, Local
    <2> DEFINE to == Hit(j)
    <2>2. x.pc \in Running
      BY <2>1 DEF Move
    <2>3. to \in X
      BY <1>2
    <2>4. Sound(to)
      BY <1>1, <1>2, <1>3, <2>2
      DEF Sound, Attempts, Stored, Explained, JobState, Running
    <2>5. to.loaded \in {0, x.loaded, total}
      BY <1>1, <1>2, <1>3, <2>2 DEF JobState
    <2>6. QED
      BY <2>1, <2>3, <2>4, <2>5, StepTo
  <1>12. CASE WorkerDies(j)
    <2>1. x.pc \in Running
      BY <1>12 DEF WorkerDies, Local, Move
    <2>2. CASE x.tries > 0
      <3> DEFINE to == [job[j] EXCEPT !.pc = "queued", !.hit = TRUE, !.loaded = 0, !.tokens = 0]
      <3>1. Move(j, Running, to)
        BY <1>12, <2>2 DEF WorkerDies, Local
      <3>2. to \in X
        BY <1>1, <1>3, UpdateJob DEF JobState
      <3>3. Sound(to)
        BY <1>1, <1>3, <2>1, <2>2
        DEF Sound, Attempts, Stored, Explained, JobState, Running
      <3>4. to.loaded \in {0, x.loaded, total}
        BY <1>1 DEF JobState
      <3>5. QED
        BY <3>1, <3>2, <3>3, <3>4, StepTo
    <2>3. CASE ~(x.tries > 0)
      <3>1. Move(j, Running, Hit(j))
        BY <1>12, <2>3 DEF WorkerDies, Local
      <3>2. Sound(Hit(j))
        BY <1>1, <1>2, <1>3, <2>1
        DEF Sound, Attempts, Stored, Explained, JobState, Running
      <3>3. QED
        BY <1>2, <3>1, <3>2, StepTo
    <2>4. QED
      BY <2>2, <2>3
  <1>13. CASE ToolsFail(j)
    <2>1. PICK sent \in BOOLEAN : Move(j, {"starting"}, [Hit(j) EXCEPT !.notice = @ \/ sent])
      BY <1>13 DEF ToolsFail, Raises, Local
    <2> DEFINE to == [Hit(j) EXCEPT !.notice = @ \/ sent]
    <2>2. x.pc \in {"starting"}
      BY <2>1 DEF Move
    <2>3. to \in X
      BY <1>1, <1>2, <1>3, <2>2, UpdateJob DEF JobState, Running
    <2>4. Sound(to)
      BY <1>1, <1>2, <1>3, <2>2
      DEF Sound, Attempts, Stored, Explained, JobState, Running
    <2>5. to.loaded \in {0, x.loaded, total}
      BY <1>1, <1>2, <1>3, <2>2 DEF JobState
    <2>6. QED
      BY <2>1, <2>3, <2>4, <2>5, StepTo
  <1>14. CASE LLMInitFails(j)
    <2>1. Move(j, {"starting"}, Hit(j))
      BY <1>14 DEF LLMInitFails, Local
    <2> DEFINE to == Hit(j)
    <2>2. x.pc \in {"starting"}
      BY <2>1 DEF Move
    <2>3. to \in X
      BY <1>2
    <2>4. Sound(to)
      BY <1>1, <1>2, <1>3, <2>2
      DEF Sound, Attempts, Stored, Explained, JobState, Running
    <2>5. to.loaded \in {0, x.loaded, total}
      BY <1>1, <1>2, <1>3, <2>2 DEF JobState
    <2>6. QED
      BY <2>1, <2>3, <2>4, <2>5, StepTo
  <1>15. CASE LLMInitialised(j)
    <2>1. Move(j, {"starting"}, [job[j] EXCEPT !.pc = "thinking"])
      BY <1>15 DEF LLMInitialised, Local
    <2> DEFINE to == [job[j] EXCEPT !.pc = "thinking"]
    <2>2. x.pc \in {"starting"}
      BY <2>1 DEF Move
    <2>3. to \in X
      BY <1>1, <1>2, <1>3, <2>2, UpdateJob DEF JobState, Running
    <2>4. Sound(to)
      BY <1>1, <1>2, <1>3, <2>2
      DEF Sound, Attempts, Stored, Explained, JobState, Running
    <2>5. to.loaded \in {0, x.loaded, total}
      BY <1>1, <1>2, <1>3, <2>2 DEF JobState
    <2>6. QED
      BY <2>1, <2>3, <2>4, <2>5, StepTo
  <1>16. CASE Think(j)
    <2>1. PICK t \in Tokens : Move(j, {"thinking"}, [job[j] EXCEPT !.pc = "saving", !.tokens = t])
      BY <1>16 DEF Think, Local
    <2> DEFINE to == [job[j] EXCEPT !.pc = "saving", !.tokens = t]
    <2>2. x.pc \in {"thinking"}
      BY <2>1 DEF Move
    <2>3. to \in X
      BY <1>1, <1>2, <1>3, <2>2, UpdateJob DEF JobState, Running
    <2>4. Sound(to)
      BY <1>1, <1>2, <1>3, <2>2
      DEF Sound, Attempts, Stored, Explained, JobState, Running
    <2>5. to.loaded \in {0, x.loaded, total}
      BY <1>1, <1>2, <1>3, <2>2 DEF JobState
    <2>6. QED
      BY <2>1, <2>3, <2>4, <2>5, StepTo
  <1>17. CASE ThinkFails(j)
    <2>1. Move(j, {"thinking"}, [job[j] EXCEPT !.pc = "saving", !.tokens = 0])
      BY <1>17 DEF ThinkFails, Local
    <2> DEFINE to == [job[j] EXCEPT !.pc = "saving", !.tokens = 0]
    <2>2. x.pc \in {"thinking"}
      BY <2>1 DEF Move
    <2>3. to \in X
      BY <1>1, <1>2, <1>3, <2>2, UpdateJob DEF JobState, Running
    <2>4. Sound(to)
      BY <1>1, <1>2, <1>3, <2>2
      DEF Sound, Attempts, Stored, Explained, JobState, Running
    <2>5. to.loaded \in {0, x.loaded, total}
      BY <1>1, <1>2, <1>3, <2>2 DEF JobState
    <2>6. QED
      BY <2>1, <2>3, <2>4, <2>5, StepTo
  <1>18. CASE LoadTotal(j)
    <2>1. Move(j, {"saving"},
               [job[j] EXCEPT !.pc = "loaded", !.loaded = IF job[j].inline THEN @ ELSE total])
      BY <1>18 DEF LoadTotal, Local
    <2> DEFINE to == [job[j] EXCEPT !.pc = "loaded", !.loaded = IF job[j].inline THEN @ ELSE total]
    <2>2. x.pc \in {"saving"}
      BY <2>1 DEF Move
    <2>3. to \in X
      BY <1>1, <1>2, <1>3, <2>2, UpdateJob DEF JobState, Running
    <2>4. Sound(to)
      BY <1>1, <1>2, <1>3, <2>2
      DEF Sound, Attempts, Stored, Explained, JobState, Running
    <2>5. to.loaded \in {0, x.loaded, total}
      BY <1>1, <1>2, <1>3, <2>2 DEF JobState
    <2>6. QED
      BY <2>1, <2>3, <2>4, <2>5, StepTo
  <1>19. CASE Save(j)
    <2>1. Move(j, {"loaded"}, [job[j] EXCEPT !.pc = "publishing", !.saved = @ + 1])
      BY <1>19 DEF Save, Local
    <2> DEFINE to == [job[j] EXCEPT !.pc = "publishing", !.saved = @ + 1]
    <2>2. x.pc \in {"loaded"}
      BY <2>1 DEF Move
    <2>3. x.saved + x.tries + 1 <= MaxTries
      BY <1>1, <2>2 DEF Sound, Attempts, Running
    <2>4. x.saved + 1 \in 0..MaxTries
      BY <1>3, <2>3
    <2>5. to \in X
      BY <1>1, <1>3, <2>4, UpdateJob DEF JobState, Running
    <2>6. Sound(to)
      BY <1>1, <1>2, <1>3, <2>2
      DEF Sound, Attempts, Stored, Explained, JobState, Running
    <2>7. to.loaded \in {0, x.loaded, total}
      BY <1>1, <1>2, <1>3, <2>2 DEF JobState
    <2>8. QED
      BY <2>1, <2>5, <2>6, <2>7, StepTo
  <1>20. CASE SaveFails(j)
    <2>1. Move(j, {"saving", "loaded"}, [job[j] EXCEPT !.pc = "publishing", !.unsaved = TRUE])
      BY <1>20 DEF SaveFails, Local
    <2> DEFINE to == [job[j] EXCEPT !.pc = "publishing", !.unsaved = TRUE]
    <2>2. x.pc \in {"saving", "loaded"}
      BY <2>1 DEF Move
    <2>3. to \in X
      BY <1>1, <1>2, <1>3, <2>2, UpdateJob DEF JobState, Running
    <2>4. Sound(to)
      BY <1>1, <1>2, <1>3, <2>2
      DEF Sound, Attempts, Stored, Explained, JobState, Running
    <2>5. to.loaded \in {0, x.loaded, total}
      BY <1>1, <1>2, <1>3, <2>2 DEF JobState
    <2>6. QED
      BY <2>1, <2>3, <2>4, <2>5, StepTo
  <1>21. CASE Publish(j)
    <2>1. Move(j, {"publishing"}, [job[j] EXCEPT !.pc = "published", !.replies = @ + 1])
      BY <1>21 DEF Publish, Local
    <2> DEFINE to == [job[j] EXCEPT !.pc = "published", !.replies = @ + 1]
    <2>2. x.pc \in {"publishing"}
      BY <2>1 DEF Move
    <2>3. x.replies + x.tries + 1 <= MaxTries
      BY <1>1, <2>2 DEF Sound, Attempts, Running
    <2>4. x.replies + 1 \in 0..MaxTries
      BY <1>3, <2>3
    <2>5. to \in X
      BY <1>1, <1>3, <2>4, UpdateJob DEF JobState, Running
    <2>6. Sound(to)
      BY <1>1, <1>2, <1>3, <2>2
      DEF Sound, Attempts, Stored, Explained, JobState, Running
    <2>7. to.loaded \in {0, x.loaded, total}
      BY <1>1, <1>2, <1>3, <2>2 DEF JobState
    <2>8. QED
      BY <2>1, <2>5, <2>6, <2>7, StepTo
  <1>22. CASE PublishFails(j)
    <2>1. PICK sent \in BOOLEAN : Move(j, {"publishing"}, [Hit(j) EXCEPT !.notice = @ \/ sent])
      BY <1>22 DEF PublishFails, Raises, Local
    <2> DEFINE to == [Hit(j) EXCEPT !.notice = @ \/ sent]
    <2>2. x.pc \in {"publishing"}
      BY <2>1 DEF Move
    <2>3. to \in X
      BY <1>1, <1>2, <1>3, <2>2, UpdateJob DEF JobState, Running
    <2>4. Sound(to)
      BY <1>1, <1>2, <1>3, <2>2
      DEF Sound, Attempts, Stored, Explained, JobState, Running
    <2>5. to.loaded \in {0, x.loaded, total}
      BY <1>1, <1>2, <1>3, <2>2 DEF JobState
    <2>6. QED
      BY <2>1, <2>3, <2>4, <2>5, StepTo
  <1>23. CASE Acknowledge(j)
    <2>1. Move(j, {"published"}, Ended(j))
      BY <1>23 DEF Acknowledge, Local
    <2> DEFINE to == Ended(j)
    <2>2. x.pc \in {"published"}
      BY <2>1 DEF Move
    <2>3. to \in X
      BY <1>2
    <2>4. Sound(to)
      BY <1>1, <1>2, <1>3, <2>2
      DEF Sound, Attempts, Stored, Explained, JobState, Running
    <2>5. to.loaded \in {0, x.loaded, total}
      BY <1>1, <1>2, <1>3, <2>2 DEF JobState
    <2>6. QED
      BY <2>1, <2>3, <2>4, <2>5, StepTo
  <1>24. QED
    BY <1>4, <1>5, <1>6, <1>7, <1>8, <1>9, <1>10, <1>11, <1>12, <1>13,
       <1>14, <1>15, <1>16, <1>17, <1>18, <1>19, <1>20, <1>21, <1>22, <1>23
    DEF Handler, Run

\* Only Save writes the total and the usage.
LEMMA OnlySaveCharges ==
  ASSUME NEW j \in Jobs, Receive(j) \/ Handler(j) \/ Run(j)
  PROVE  UNCHANGED <<total, usage>> \/ Save(j)
  BY DEF Receive, Handler, ShowTyping, HandlerDies, Enqueue, EnqueueFails, RunInline,
         Run, StartRun, JobTimesOut, WorkerDies, ToolsFail, LLMInitFails,
         LLMInitialised, Think, ThinkFails, LoadTotal, SaveFails, Publish,
         PublishFails, Acknowledge, Raises, Local

\* What Save charges: the tokens of the run, on top of the total it had loaded.
LEMMA SaveCharges ==
  ASSUME TypeOK, NEW j \in Jobs, Save(j)
  PROVE  /\ job[j].tokens \in Nat /\ job[j].loaded \in Nat
         /\ usage' = usage + job[j].tokens
         /\ total' \in {total, job[j].loaded + job[j].tokens}
         /\ job[j].tokens = 0 => total' = total
         /\ job[j].tokens # 0 => total' = job[j].loaded + job[j].tokens
  <1>1. job[j] \in JobState
    BY DEF TypeOK
  <1>2. job[j].tokens \in Nat /\ job[j].loaded \in Nat
    BY <1>1 DEF JobState
  <1>3. QED
    BY <1>2 DEF Save

-------------------------------------------------------------------------------
(* The invariant is inductive *)

LEMMA InvInit == Init => Inv
  <1> SUFFICES ASSUME Init
               PROVE  Inv
    OBVIOUS
  <1> USE AgentJobAssumption
  <1>1. 0 \in 0..MaxTries
    OBVIOUS
  <1>2. Fresh \in JobState
    BY <1>1 DEF Fresh, JobState
  <1>3. Sound(Fresh)
    BY DEF Fresh, Sound, Attempts, Stored, Explained, Running
  <1>4. Fresh.loaded = 0
    BY DEF Fresh
  <1>5. QED
    BY <1>2, <1>3, <1>4 DEF Init, Inv, TypeOK, JobsSound, Ledger

LEMMA InvStep == Inv /\ [Next]_vars => Inv'
  <1> SUFFICES ASSUME Inv, [Next]_vars
               PROVE  Inv'
    OBVIOUS
  <1>1. CASE UNCHANGED vars
    BY <1>1 DEF vars, Inv, TypeOK, JobsSound, Ledger
  <1>2. CASE Next
    <2>1. PICK j \in Jobs : Receive(j) \/ Handler(j) \/ Run(j)
      BY <1>2 DEF Next
    <2>2. Steps(j)
      BY <2>1, JobSteps DEF Inv
    <2>3. \A i \in Jobs \ {j} : job'[i] = job[i]
      BY <2>2 DEF Steps, Inv, TypeOK
    <2>4. job' \in [Jobs -> JobState]
      BY <2>2 DEF Steps, Inv, TypeOK
    <2>5. JobsSound'
      BY <2>2, <2>3 DEF Steps, Inv, JobsSound, Sound, Attempts, Stored, Explained
    <2>6. \A i \in Jobs : job[i].loaded \in Nat /\ job'[i].loaded \in Nat
      BY <2>4 DEF Inv, TypeOK, JobState
    <2>7. /\ total' \in Nat /\ usage' \in Nat
          /\ total' <= usage' /\ usage <= usage'
      <3>1. CASE UNCHANGED <<total, usage>>
        BY <3>1 DEF Inv, TypeOK, Ledger
      <3>2. CASE Save(j)
        BY <3>2, SaveCharges DEF Inv, TypeOK, Ledger
      <3>3. QED
        BY <2>1, <3>1, <3>2, OnlySaveCharges
    <2>8. \A i \in Jobs : job'[i].loaded <= usage
      <3>1. ASSUME NEW i \in Jobs
            PROVE  job'[i].loaded \in {0, job[i].loaded, total}
        BY <2>2, <2>3 DEF Steps
      <3>2. QED
        BY <2>6, <3>1 DEF Inv, TypeOK, Ledger
    <2>9. \A i \in Jobs : job'[i].loaded <= usage'
      BY <2>6, <2>7, <2>8 DEF Inv, TypeOK
    <2>10. QED
      BY <2>4, <2>5, <2>7, <2>9 DEF Inv, TypeOK, Ledger
  <1>3. QED
    BY <1>1, <1>2

LEMMA Invariant == Spec => []Inv
  BY InvInit, InvStep, PTL DEF Spec

-------------------------------------------------------------------------------
(* Theorems *)

\* The totals are naturals and every job stays in its states: no job answers or
\* stores more often than arq executes it (worker.py, max_tries).
THEOREM TypeCorrect == Spec => []TypeOK
  BY Invariant, PTL DEF Inv

\* Whatever retries and overlapping runs do to conversations.total_token, it
\* never exceeds the usage of the stored answers (agent_orchestrator.py,
\* run_agentic_loop's save).
THEOREM TotalIsBounded == Spec => []TotalNeverOvercharges
  <1>1. Inv => TotalNeverOvercharges
    BY DEF Inv, Ledger, TotalNeverOvercharges
  <1>2. QED
    BY <1>1, Invariant, PTL

\* A run that leaves the customer without a word was struck by a fault outside
\* the agent loop (agent_orchestrator.py, run_agentic_loop's handlers).
THEOREM SilenceIsExplained == Spec => []SilenceNeedsFault
  <1>1. Inv => SilenceNeedsFault
    BY DEF Inv, JobsSound, Sound, Explained, SilenceNeedsFault
  <1>2. QED
    BY <1>1, Invariant, PTL

\* Every answer sent was stored before, unless a save failed: crashes and
\* retries included (agent_orchestrator.py, save before send_to_customer).
THEOREM SentIsStored == Spec => []StoredBeforeSent
  <1>1. ASSUME Inv, NEW j \in Jobs, ~job[j].unsaved
        PROVE  job[j].replies <= job[j].saved
    <2>1. job[j].replies \in Nat /\ job[j].saved \in Nat
      BY <1>1 DEF Inv, TypeOK, JobState
    <2>2. Stored(job[j])
      BY <1>1 DEF Inv, JobsSound, Sound
    <2>3. QED
      BY <1>1, <2>1, <2>2 DEF Stored
  <1>2. Inv => StoredBeforeSent
    BY <1>1 DEF StoredBeforeSent
  <1>3. QED
    BY <1>2, Invariant, PTL

\* The only way usage is lost from the total: a run saves a total computed from
\* a value that is no longer the row's (agent_orchestrator.py, read at the load
\* of the conversation, written at the commit).
THEOREM LossesAreStale == Spec => LossNeedsStaleTotal
  <1>1. ASSUME Inv, [Next]_vars, LosesUsage
        PROVE  \E j \in Jobs : SavesOverNewer(j)
    <2>1. PICK j \in Jobs : Receive(j) \/ Handler(j) \/ Run(j)
      BY <1>1 DEF Next, vars, LosesUsage
    <2>2. Save(j)
      BY <1>1, <2>1, OnlySaveCharges DEF LosesUsage
    <2>3. job[j].pc = "loaded" /\ job'[j].pc = "publishing"
      <3>1. job[j].pc = "loaded"
        BY <2>2 DEF Save, Move
      <3>2. job'[j] = [job[j] EXCEPT !.pc = "publishing", !.saved = @ + 1]
        BY <1>1, <2>2 DEF Save, Move, Inv, TypeOK
      <3>3. job[j] \in JobState
        BY <1>1 DEF Inv, TypeOK
      <3>4. QED
        BY <3>1, <3>2, <3>3 DEF JobState
    <2>4. job[j].loaded # total
      BY <1>1, <2>2, SaveCharges DEF Inv, TypeOK, LosesUsage
    <2>5. QED
      BY <2>3, <2>4 DEF SavesOverNewer
  <1>2. Inv /\ [Next]_vars => [LosesUsage => \E j \in Jobs : SavesOverNewer(j)]_vars
    BY <1>1
  <1>3. QED
    BY <1>2, Invariant, PTL DEF Spec, LossNeedsStaleTotal

-------------------------------------------------------------------------------
(* The run implements the message handling of module Handoff *)

\* Where the control points of a run are in the life of a message.
LEMMA Phases ==
  /\ Phase("new") = "new" /\ Phase("read") = "read" /\ Phase("typing") = "saved"
  /\ Phase("lost") = "lost" /\ Phase("refused") = "refused" /\ Phase("queued")
     = "queued"
  /\ Phase("published") = "answered" /\ Phase("ended") = "done"
  /\ \A p \in Running \ {"published"} : Phase(p) = "running"
  BY DEF Phase, Running

\* A step of job j is a step of message j, to what the job's new state shows.
LEMMA MoveIsStep ==
  ASSUME TypeOK, NEW j \in Jobs, NEW from, NEW to, Move(j, from, to),
         NEW aFrom, Phase(job[j].pc) \in aFrom
  PROVE  Conversation!Step(j, aFrom, AsMessage(to))
  <1>1. job \in [Jobs -> JobState] /\ job' = [job EXCEPT ![j] = to]
    BY DEF TypeOK, Move
  <1>2. [i \in Jobs |-> AsMessage(job'[i])]
           = [[i \in Jobs |-> AsMessage(job[i])] EXCEPT ![j] = AsMessage(to)]
    BY <1>1
  <1>3. messages' = [i \in Jobs |-> AsMessage(job'[i])]
    BY DEF messages, AsMessage, Phase
  <1>4. messages[j].pc \in aFrom
    BY DEF messages, AsMessage
  <1> QED
    BY <1>2, <1>3, <1>4 DEF messages, Conversation!Step, Conversation!RowUnchanged

\* A step of job j that message j does not show.
LEMMA MoveIsHidden ==
  ASSUME TypeOK, NEW j \in Jobs, NEW from, NEW to, Move(j, from, to),
         AsMessage(to) = AsMessage(job[j])
  PROVE  UNCHANGED Conversation!vars
  <1>1. job \in [Jobs -> JobState] /\ job' = [job EXCEPT ![j] = to]
    BY DEF TypeOK, Move
  <1>2. [i \in Jobs |-> AsMessage(job'[i])] = [i \in Jobs |-> AsMessage(job[i])]
    BY <1>1
  <1>3. messages' = [i \in Jobs |-> AsMessage(job'[i])]
    BY DEF messages, AsMessage, Phase
  <1> QED
    BY <1>2, <1>3 DEF messages, Conversation!vars

\* Fields of a message replaced, as module Handoff does.
LEMMA UpdateMessage ==
  ASSUME NEW j \in Jobs, NEW q, NEW u
  PROVE  LET m == messages[j]
             x == job[j]
             Msg(pc, tries, answers) ==
               [pc |-> pc, seen |-> "active_ai", tries |-> tries, answers |-> answers]
         IN /\ [m EXCEPT !.pc = q] = Msg(q, x.tries, x.replies)
            /\ [m EXCEPT !.pc = q, !.seen = "active_ai"] = Msg(q, x.tries, x.replies)
            /\ [m EXCEPT !.pc = q, !.tries = u] = Msg(q, u, x.replies)
            /\ [m EXCEPT !.pc = q, !.answers = u] = Msg(q, x.tries, u)
  <1> DEFINE m == messages[j]
             x == job[j]
             k == [pc |-> q, seen |-> "active_ai", tries |-> x.tries, answers |-> x.replies]
  <1>1. [m EXCEPT !.pc = q] = k
    <2>1. [[pc |-> Phase(x.pc), seen |-> "active_ai",
            tries |-> x.tries, answers |-> x.replies] EXCEPT !.pc = q] = k
      BY SMT
    <2> QED
      BY <2>1 DEF AsMessage, messages
  <1>2. /\ [k EXCEPT !.seen = "active_ai"] = k
        /\ [k EXCEPT !.tries = u]
              = [pc |-> q, seen |-> "active_ai", tries |-> u, answers |-> x.replies]
        /\ [k EXCEPT !.answers = u]
              = [pc |-> q, seen |-> "active_ai", tries |-> x.tries, answers |-> u]
    BY SMT
  <1> HIDE DEF k
  <1>3. /\ [[m EXCEPT !.pc = q] EXCEPT !.seen = "active_ai"] = [k EXCEPT !.seen
           = "active_ai"]
        /\ [[m EXCEPT !.pc = q] EXCEPT !.tries = u] = [k EXCEPT !.tries = u]
        /\ [[m EXCEPT !.pc = q] EXCEPT !.answers = u] = [k EXCEPT !.answers = u]
    BY <1>1, Zenon
  <1> QED
    BY <1>1, <1>2, <1>3, Zenon DEF k

\* Every step of a job is a step of its message in module Handoff, or hidden: the
\* executions and answers it takes are among those that module grants.
LEMMA JobRefines ==
  ASSUME TypeOK, JobsSound, NEW j \in Jobs, Receive(j) \/ Handler(j) \/ Run(j)
  PROVE  Conversation!MessageNext(j) \/ UNCHANGED Conversation!vars
  <1> DEFINE x == job[j]
             Msg(pc, tries, answers) ==
                [pc |-> pc, seen |-> "active_ai", tries |-> tries, answers |-> answers]
  <1>1. x \in JobState /\ Sound(x)
    BY DEF TypeOK, JobsSound
  <1>2. /\ messages[j] = AsMessage(x)
        /\ messages[j].seen = "active_ai"
        /\ messages[j].tries = x.tries
        /\ messages[j].answers = x.replies
    BY DEF messages, AsMessage
  <1>3. /\ AsMessage(Hit(j)) = Msg("done", 0, x.replies)
        /\ AsMessage(Ended(j)) = Msg("done", 0, x.replies)
    <2>1. Phase(Hit(j).pc) = "done" /\ Phase(Ended(j).pc) = "done"
      BY <1>1, EndedJob, Phases
    <2> QED
      BY <1>1, <2>1, EndedJob DEF AsMessage
  <1>4. \A q, u :
           /\ [messages[j] EXCEPT !.pc = q] = Msg(q, x.tries, x.replies)
           /\ [messages[j] EXCEPT !.pc = q, !.seen = "active_ai"]
              = Msg(q, x.tries, x.replies)
           /\ [messages[j] EXCEPT !.pc = q, !.tries = u] = Msg(q, u, x.replies)
           /\ [messages[j] EXCEPT !.pc = q, !.answers = u] = Msg(q, x.tries, u)
    BY UpdateMessage, Zenon
  <1>5. ASSUME NEW from, NEW to, Move(j, from, to), AsMessage(to)
           = Msg("done", 0, x.replies),
               x.pc \in Running
        PROVE  Conversation!EndRun(j)
    <2>1. Phase(x.pc) \in {"running", "answered"}
      BY <1>5, Phases DEF Running
    <2>2. Conversation!Step(j, {"running", "answered"}, AsMessage(to))
      BY <1>5, <2>1, MoveIsStep
    <2>3. AsMessage(to) = [messages[j] EXCEPT !.pc = "done", !.tries = 0]
      BY <1>4, <1>5, Zenon
    <2> HIDE DEF x
    <2> QED
      BY <2>2, <2>3 DEF Conversation!EndRun
  <1>6. CASE Receive(j)
    <2>1. Move(j, {"new"}, [job[j] EXCEPT !.pc = "read", !.loaded = total])
      BY <1>6 DEF Receive, Local
    <2>2. Phase(x.pc) \in {"new"}
      BY <2>1, Phases DEF Move
    <2>3. AsMessage([job[j] EXCEPT !.pc = "read", !.loaded = total])
             = Msg("read", x.tries, x.replies)
      BY <1>1, Phases DEF AsMessage, JobState
    <2>4. Conversation!Step(j, {"new"},
                            [messages[j] EXCEPT !.pc = "read", !.seen = "active_ai"])
      <3>1. [messages[j] EXCEPT !.pc = "read", !.seen = "active_ai"]
               = Msg("read", x.tries, x.replies)
        BY <1>2, <1>4
      <3> QED
        BY <2>1, <2>2, <2>3, <3>1, MoveIsStep
    <2> HIDE DEF x
    <2> QED
      BY <2>4
      DEF Conversation!ReceiveMessage, Conversation!MessageNext, Conversation!Progress,
          Conversation!At
  <1>7. CASE ShowTyping(j)
    <2>1. Move(j, {"read"}, [job[j] EXCEPT !.pc = "typing"])
      BY <1>7 DEF ShowTyping, Local
    <2>2. Phase(x.pc) \in {"read"}
      BY <2>1, Phases DEF Move
    <2>3. AsMessage([job[j] EXCEPT !.pc = "typing"]) = Msg("saved", x.tries, x.replies)
      BY <1>1, Phases DEF AsMessage, JobState
    <2>4. Conversation!Step(j, {"read"}, [messages[j] EXCEPT !.pc = "saved"])
      <3>1. [messages[j] EXCEPT !.pc = "saved"] = Msg("saved", x.tries, x.replies)
        BY <1>2, <1>4
      <3> QED
        BY <2>1, <2>2, <2>3, <3>1, MoveIsStep
    <2> HIDE DEF x
    <2> QED
      BY <2>4
      DEF Conversation!SaveMessage, Conversation!MessageNext, Conversation!Progress,
          Conversation!At
  <1>8. CASE HandlerDies(j)
    <2>1. Move(j, {"read", "typing"}, [Hit(j) EXCEPT !.pc = "lost"])
      BY <1>8 DEF HandlerDies, Local
    <2>2. Phase(x.pc) \in {"read", "saved"} /\ x.tries = 0
      BY <1>1, <2>1, Phases DEF Move, Sound, Attempts
    <2>3. AsMessage([Hit(j) EXCEPT !.pc = "lost"]) = Msg("lost", x.tries, x.replies)
      BY <1>1, <2>2, EndedJob, Phases DEF AsMessage, JobState
    <2>4. Conversation!Step(j, {"read", "saved"}, [messages[j] EXCEPT !.pc = "lost"])
      <3>1. [messages[j] EXCEPT !.pc = "lost"] = Msg("lost", x.tries, x.replies)
        BY <1>2, <1>4
      <3> QED
        BY <2>1, <2>2, <2>3, <3>1, MoveIsStep
    <2> HIDE DEF x
    <2> QED
      BY <2>4
      DEF Conversation!LoseMessage, Conversation!MessageNext, Conversation!Progress,
          Conversation!At
  <1>9. CASE Enqueue(j)
    <2>1. Move(j, {"typing"}, [job[j] EXCEPT !.pc = "queued", !.tries = MaxTries, !.loaded = 0])
      BY <1>9 DEF Enqueue, Local
    <2>2. Phase(x.pc) \in {"saved"}
      BY <2>1, Phases DEF Move
    <2>3. AsMessage([job[j] EXCEPT !.pc = "queued", !.tries = MaxTries, !.loaded = 0])
             = Msg("queued", MaxTries, x.replies)
      BY <1>1, Phases DEF AsMessage, JobState
    <2>4. Conversation!Step(j, {"saved"},
                            [messages[j] EXCEPT !.pc = "queued", !.tries = MaxTries])
      <3>1. [messages[j] EXCEPT !.pc = "queued", !.tries = MaxTries]
               = Msg("queued", MaxTries, x.replies)
        BY <1>2, <1>4
      <3> QED
        BY <2>1, <2>2, <2>3, <3>1, MoveIsStep
    <2> HIDE DEF x
    <2> QED
      BY <2>4, <1>2
      DEF Conversation!Enqueue, Conversation!MessageNext, Conversation!Progress,
          Conversation!At
  <1>10. CASE EnqueueFails(j)
    <2>1. PICK sent \in BOOLEAN : Move(j, {"typing"}, [Hit(j) EXCEPT !.pc = "refused", !.notice = sent])
      BY <1>10 DEF EnqueueFails, Local
    <2>2. Phase(x.pc) \in {"saved"} /\ x.tries = 0
      BY <1>1, <2>1, Phases DEF Move, Sound, Attempts
    <2>3. AsMessage([Hit(j) EXCEPT !.pc = "refused", !.notice = sent])
             = Msg("refused", x.tries, x.replies)
      BY <1>1, <2>2, EndedJob, Phases DEF AsMessage, JobState
    <2>4. Conversation!Step(j, {"saved"}, [messages[j] EXCEPT !.pc = "refused"])
      <3>1. [messages[j] EXCEPT !.pc = "refused"] = Msg("refused", x.tries, x.replies)
        BY <1>2, <1>4
      <3> QED
        BY <2>1, <2>2, <2>3, <3>1, MoveIsStep
    <2> HIDE DEF x
    <2> QED
      BY <2>4, <1>2
      DEF Conversation!RefuseMessage, Conversation!MessageNext, Conversation!Progress,
          Conversation!At
  <1>11. CASE RunInline(j)
    <2>1. Move(j, {"typing"}, [job[j] EXCEPT !.pc = "starting", !.inline = TRUE])
      BY <1>11 DEF RunInline, Local
    <2>2. Phase(x.pc) \in {"saved"}
      BY <2>1, Phases DEF Move
    <2>3. AsMessage([job[j] EXCEPT !.pc = "starting", !.inline = TRUE])
             = Msg("running", x.tries, x.replies)
      BY <1>1, Phases DEF AsMessage, JobState, Running
    <2>4. Conversation!Step(j, {"saved"}, [messages[j] EXCEPT !.pc = "running"])
      <3>1. [messages[j] EXCEPT !.pc = "running"] = Msg("running", x.tries, x.replies)
        BY <1>2, <1>4
      <3> QED
        BY <2>1, <2>2, <2>3, <3>1, MoveIsStep
    <2> HIDE DEF x
    <2> QED
      BY <2>4, <1>2, <1>11
      DEF RunInline, Conversation!RunInline, Conversation!MessageNext,
          Conversation!Progress, Conversation!At
  <1>12. CASE StartRun(j)
    <2>1. Move(j, {"queued"}, [job[j] EXCEPT !.pc = "starting", !.tries = @ - 1])
      BY <1>12 DEF StartRun, Local
    <2>2. Phase(x.pc) \in {"queued"}
      BY <2>1, Phases DEF Move
    <2>3. AsMessage([job[j] EXCEPT !.pc = "starting", !.tries = @ - 1])
             = Msg("running", x.tries - 1, x.replies)
      BY <1>1, Phases DEF AsMessage, JobState, Running
    <2>4. Conversation!Step(j, {"queued"},
                            [messages[j] EXCEPT !.pc = "running", !.tries = messages[j].tries - 1])
      <3>1. [messages[j] EXCEPT !.pc = "running", !.tries = messages[j].tries - 1]
               = Msg("running", x.tries - 1, x.replies)
        <4>1. [messages[j] EXCEPT !.pc = "running", !.tries = messages[j].tries - 1]
                 = Msg("running", messages[j].tries - 1, x.replies)
          BY <1>4, Zenon
        <4> HIDE DEF x
        <4> QED
          BY <1>2, <4>1, Zenon
      <3> QED
        BY <2>1, <2>2, <2>3, <3>1, MoveIsStep
    <2> HIDE DEF x
    <2> QED
      BY <2>4
      DEF Conversation!StartRun, Conversation!MessageNext, Conversation!Progress,
          Conversation!At
  <1>13. CASE Publish(j)
    <2>1. Move(j, {"publishing"}, [job[j] EXCEPT !.pc = "published", !.replies = @ + 1])
      BY <1>13 DEF Publish, Local
    <2>2. Phase(x.pc) \in {"running"}
      BY <2>1, Phases DEF Move, Running
    <2>3. AsMessage([job[j] EXCEPT !.pc = "published", !.replies = @ + 1])
             = Msg("answered", x.tries, x.replies + 1)
      BY <1>1, Phases DEF AsMessage, JobState
    <2>4. Conversation!Step(j, {"running"},
                            [messages[j] EXCEPT !.pc = "answered", !.answers = messages[j].answers + 1])
      <3>1. [messages[j] EXCEPT !.pc = "answered", !.answers = messages[j].answers + 1]
               = Msg("answered", x.tries, x.replies + 1)
        <4>1. \A u : [messages[j] EXCEPT !.pc = "answered", !.answers = u]
                        = Msg("answered", x.tries, u)
          BY <1>4, Zenon
        <4>2. [messages[j] EXCEPT !.pc = "answered", !.answers = messages[j].answers + 1]
                 = Msg("answered", x.tries, messages[j].answers + 1)
          BY <4>1, Zenon
        <4> HIDE DEF x
        <4> QED
          BY <1>2, <4>2, Zenon
      <3> QED
        BY <2>1, <2>2, <2>3, <3>1, MoveIsStep
    <2> HIDE DEF x
    <2> QED
      BY <2>4
      DEF Conversation!Answer, Conversation!MessageNext, Conversation!Progress,
          Conversation!At
  <1>14. CASE JobTimesOut(j)
    <2>1. Move(j, Running, Hit(j))
      BY <1>14 DEF JobTimesOut, Local
    <2> QED
      BY <1>3, <1>5, <2>1
      DEF Move, Running, Conversation!MessageNext, Conversation!Progress
  <1>15. CASE ToolsFail(j)
    <2>1. PICK sent \in BOOLEAN : Move(j, {"starting"}, [Hit(j) EXCEPT !.notice = @ \/ sent])
      BY <1>15 DEF ToolsFail, Raises, Local
    <2>2. AsMessage([Hit(j) EXCEPT !.notice = @ \/ sent]) = AsMessage(Hit(j))
      BY <1>1, EndedJob DEF AsMessage, JobState
    <2> QED
      BY <1>3, <1>5, <2>1, <2>2
      DEF Move, Running, Conversation!MessageNext, Conversation!Progress
  <1>16. CASE LLMInitFails(j)
    <2>1. Move(j, {"starting"}, Hit(j))
      BY <1>16 DEF LLMInitFails, Local
    <2> QED
      BY <1>3, <1>5, <2>1
      DEF Move, Running, Conversation!MessageNext, Conversation!Progress
  <1>17. CASE PublishFails(j)
    <2>1. PICK sent \in BOOLEAN : Move(j, {"publishing"}, [Hit(j) EXCEPT !.notice = @ \/ sent])
      BY <1>17 DEF PublishFails, Raises, Local
    <2>2. AsMessage([Hit(j) EXCEPT !.notice = @ \/ sent]) = AsMessage(Hit(j))
      BY <1>1, EndedJob DEF AsMessage, JobState
    <2> QED
      BY <1>3, <1>5, <2>1, <2>2
      DEF Move, Running, Conversation!MessageNext, Conversation!Progress
  <1>18. CASE Acknowledge(j)
    <2>1. Move(j, {"published"}, Ended(j))
      BY <1>18 DEF Acknowledge, Local
    <2> QED
      BY <1>3, <1>5, <2>1
      DEF Move, Running, Conversation!MessageNext, Conversation!Progress
  <1>19. CASE WorkerDies(j)
    <2>1. x.pc \in Running /\ Phase(x.pc) \in {"running", "answered"}
      BY <1>19, Phases DEF WorkerDies, Local, Move, Running
    <2>2. CASE x.tries > 0
      <3> DEFINE to == [job[j] EXCEPT !.pc = "queued", !.hit = TRUE, !.loaded = 0, !.tokens = 0]
      <3>1. Move(j, Running, to)
        BY <1>19, <2>2 DEF WorkerDies, Local
      <3>2. AsMessage(to) = Msg("queued", x.tries, x.replies)
        BY <1>1, Phases DEF AsMessage, JobState
      <3>3. [messages[j] EXCEPT !.pc = "queued"] = AsMessage(to)
        BY <1>4, <3>2
      <3> HIDE DEF to
      <3>4. Conversation!Step(j, {"running", "answered"},
                              [messages[j] EXCEPT !.pc = "queued"])
        BY <2>1, <3>1, <3>3, MoveIsStep
      <3>5. messages[j].tries > 0
        BY <1>2, <2>2 DEF AsMessage
      <3> QED
        BY <3>4, <3>5
        DEF Conversation!CrashRun, Conversation!At, Conversation!MessageNext, Conversation!Progress
    <2>3. CASE ~(x.tries > 0)
      BY <1>19, <1>3, <1>5, <2>1, <2>3
      DEF WorkerDies, Local, Conversation!MessageNext, Conversation!Progress
    <2> QED
      BY <2>2, <2>3
  <1>20. CASE LLMInitialised(j)
    <2>1. Move(j, {"starting"}, [job[j] EXCEPT !.pc = "thinking"])
      BY <1>20 DEF LLMInitialised, Local
    <2>2. AsMessage([job[j] EXCEPT !.pc = "thinking"]) = AsMessage(x)
      BY <1>1, <2>1, Phases DEF AsMessage, JobState, Move, Running
    <2> QED
      BY <2>1, <2>2, MoveIsHidden
  <1>21. CASE Think(j)
    <2>1. PICK t \in Tokens : Move(j, {"thinking"}, [job[j] EXCEPT !.pc = "saving", !.tokens = t])
      BY <1>21 DEF Think, Local
    <2>2. AsMessage([job[j] EXCEPT !.pc = "saving", !.tokens = t]) = AsMessage(x)
      BY <1>1, <2>1, Phases DEF AsMessage, JobState, Move, Running
    <2> QED
      BY <2>1, <2>2, MoveIsHidden
  <1>22. CASE ThinkFails(j)
    <2>1. Move(j, {"thinking"}, [job[j] EXCEPT !.pc = "saving", !.tokens = 0])
      BY <1>22 DEF ThinkFails, Local
    <2>2. AsMessage([job[j] EXCEPT !.pc = "saving", !.tokens = 0]) = AsMessage(x)
      BY <1>1, <2>1, Phases DEF AsMessage, JobState, Move, Running
    <2> QED
      BY <2>1, <2>2, MoveIsHidden
  <1>23. CASE LoadTotal(j)
    <2>1. Move(j, {"saving"}, [job[j] EXCEPT !.pc = "loaded",
                       !.loaded = IF job[j].inline THEN @ ELSE total])
      BY <1>23 DEF LoadTotal, Local
    <2>2. AsMessage([job[j] EXCEPT !.pc = "loaded",
                       !.loaded = IF job[j].inline THEN @ ELSE total]) = AsMessage(x)
      BY <1>1, <2>1, Phases DEF AsMessage, JobState, Move, Running
    <2> QED
      BY <2>1, <2>2, MoveIsHidden
  <1>24. CASE Save(j)
    <2>1. Move(j, {"loaded"}, [job[j] EXCEPT !.pc = "publishing", !.saved = @ + 1])
      BY <1>24 DEF Save, Local
    <2>2. AsMessage([job[j] EXCEPT !.pc = "publishing", !.saved = @ + 1]) = AsMessage(x)
      BY <1>1, <2>1, Phases DEF AsMessage, JobState, Move, Running
    <2> QED
      BY <2>1, <2>2, MoveIsHidden
  <1>25. CASE SaveFails(j)
    <2>1. Move(j, {"saving", "loaded"}, [job[j] EXCEPT !.pc = "publishing", !.unsaved = TRUE])
      BY <1>25 DEF SaveFails, Local
    <2>2. AsMessage([job[j] EXCEPT !.pc = "publishing", !.unsaved = TRUE])
             = AsMessage(x)
      BY <1>1, <2>1, Phases DEF AsMessage, JobState, Move, Running
    <2> QED
      BY <2>1, <2>2, MoveIsHidden
  <1> QED
    BY <1>6, <1>7, <1>8, <1>9, <1>10, <1>11, <1>12, <1>13, <1>14, <1>15, <1>16,
       <1>17, <1>18, <1>19, <1>20, <1>21, <1>22, <1>23, <1>24, <1>25 DEF Handler, Run

\* The detailed run takes only steps that module Handoff grants a message's handler,
\* job and run, and shows its answers there one by one: no retry, fault or failed
\* save of run_agentic_loop answers more often than the hand-off lets a job answer.
THEOREM RunsRefineHandoff == Spec => RunsAsHandoff
  <1>1. Init => Conversation!Init
    <2> SUFFICES ASSUME Init
                 PROVE  Conversation!Init
      OBVIOUS
    <2>1. AsMessage(Fresh)
             = [pc |-> "new", seen |-> "active_ai", tries |-> 0, answers |-> 0]
      BY Phases DEF AsMessage, Fresh
    <2>2. messages = [j \in Jobs |-> AsMessage(Fresh)]
      BY DEF Init, messages
    <2> QED
      BY <2>1, <2>2 DEF Conversation!Init, Conversation!Unsent, Conversation!Idle
  <1>2. Inv /\ [Next]_vars => [Conversation!Next]_(Conversation!vars)
    <2> SUFFICES ASSUME Inv, [Next]_vars
                 PROVE  [Conversation!Next]_(Conversation!vars)
      OBVIOUS
    <2>1. CASE UNCHANGED vars
      BY <2>1 DEF vars, messages, AsMessage, Phase, Conversation!vars
    <2>2. CASE Next
      <3>1. PICK j \in Jobs : Receive(j) \/ Handler(j) \/ Run(j)
        BY <2>2 DEF Next
      <3>2. Conversation!MessageNext(j) \/ UNCHANGED Conversation!vars
        BY <3>1, JobRefines DEF Inv
      <3> QED
        BY <3>2 DEF Conversation!Next
    <2> QED
      BY <2>1, <2>2
  <1> QED
    BY <1>1, <1>2, Invariant, PTL DEF Spec, RunsAsHandoff, Conversation!Spec

-------------------------------------------------------------------------------
(* How much work is left *)

\* The steps a job may yet take: those of the execution under way, and seven for each
\* execution it has left.
Remaining(pc) == CASE pc = "new" -> 3
                   [] pc = "read" -> 2
                   [] pc = "typing" -> 1
                   [] pc = "starting" -> 6
                   [] pc = "thinking" -> 5
                   [] pc = "saving" -> 4
                   [] pc = "loaded" -> 3
                   [] pc = "publishing" -> 2
                   [] pc = "published" -> 1
                   [] OTHER -> 0

Weight(pc, tries) ==
    Remaining(pc) + 7 * (IF pc \in {"new", "read", "typing"} THEN MaxTries ELSE tries)

Work(x) == Weight(x.pc, x.tries)

WorkBounded == \A j \in Jobs : Work(job[j]) \in 0..7 * MaxTries + 6

WorkFalls == [][\A j \in Jobs : job'[j] = job[j] \/ Work(job'[j]) < Work(job[j])]_vars

LEMMA WorkOf ==
  ASSUME NEW x \in JobState
  PROVE  Work(x) \in 0..7 * MaxTries + 6
  <1>1. Remaining(x.pc) \in 0..6
    BY DEF Remaining
  <1>2. x.tries \in 0..MaxTries /\ MaxTries \in Nat
    BY AgentJobAssumption DEF JobState
  <1> QED
    BY <1>1, <1>2 DEF Work, Weight

\* A step that leaves the job with less weight than all control points it may come from.
LEMMA MoveWorks ==
  ASSUME TypeOK, NEW j \in Jobs, NEW from, NEW to, Move(j, from, to), NEW pc, NEW tries,
         to.pc = pc, to.tries = tries,
         \A a \in from : Weight(pc, tries) < Weight(a, job[j].tries)
  PROVE  Work(job'[j]) < Work(job[j]) /\ \A i \in Jobs : i # j => job'[i] = job[i]
  <1>1. job'[j] = to /\ job[j].pc \in from /\ \A i \in Jobs : i # j => job'[i] = job[i]
    BY DEF Move, TypeOK
  <1> QED
    BY <1>1 DEF Work

\* Whatever step a job takes, a fault's included, it has less work left.
LEMMA StepWorks ==
  ASSUME TypeOK, JobsSound, NEW j \in Jobs, Receive(j) \/ Handler(j) \/ Run(j)
  PROVE  Work(job'[j]) < Work(job[j]) /\ \A i \in Jobs : i # j => job'[i] = job[i]
  <1>1. /\ job[j] \in JobState /\ Sound(job[j])
        /\ job[j].tries \in 0..MaxTries /\ MaxTries \in Nat \ {0}
    BY AgentJobAssumption DEF TypeOK, JobsSound, JobState
  <1>2. CASE Receive(j)
    <2>1. Move(j, {"new"}, [job[j] EXCEPT !.pc = "read", !.loaded = total])
      BY <1>2 DEF Receive, Local
    <2> DEFINE to == [job[j] EXCEPT !.pc = "read", !.loaded = total]
    <2>2. to.pc = "read" /\ to.tries = job[j].tries
      BY <1>1 DEF JobState
    <2>3. Move(j, {"new"}, to)
      BY <2>1, Zenon
    <2> HIDE DEF to
    <2>4. \A a \in {"new"} : Weight("read", job[j].tries) < Weight(a, job[j].tries)
      BY <1>1, <2>2 DEF Weight, Remaining
    <2> QED
      BY <2>2, <2>3, <2>4, MoveWorks
  <1>3. CASE ShowTyping(j)
    <2>1. Move(j, {"read"}, [job[j] EXCEPT !.pc = "typing"])
      BY <1>3 DEF ShowTyping, Local
    <2> DEFINE to == [job[j] EXCEPT !.pc = "typing"]
    <2>2. to.pc = "typing" /\ to.tries = job[j].tries
      BY <1>1 DEF JobState
    <2>3. Move(j, {"read"}, to)
      BY <2>1, Zenon
    <2> HIDE DEF to
    <2>4. \A a \in {"read"} : Weight("typing", job[j].tries) < Weight(a, job[j].tries)
      BY <1>1, <2>2 DEF Weight, Remaining
    <2> QED
      BY <2>2, <2>3, <2>4, MoveWorks
  <1>4. CASE HandlerDies(j)
    <2>1. Move(j, {"read", "typing"}, [Hit(j) EXCEPT !.pc = "lost"])
      BY <1>4 DEF HandlerDies, Local
    <2> DEFINE to == [Hit(j) EXCEPT !.pc = "lost"]
    <2>2. to.pc = "lost" /\ to.tries = 0
      BY <1>1, EndedJob DEF JobState
    <2>3. Move(j, {"read", "typing"}, to)
      BY <2>1, Zenon
    <2> HIDE DEF to
    <2>4. \A a \in {"read", "typing"} : Weight("lost", 0) < Weight(a, job[j].tries)
      BY <1>1, <2>2 DEF Weight, Remaining
    <2> QED
      BY <2>2, <2>3, <2>4, MoveWorks
  <1>5. CASE Enqueue(j)
    <2>1. Move(j, {"typing"}, [job[j] EXCEPT !.pc = "queued", !.tries = MaxTries, !.loaded = 0])
      BY <1>5 DEF Enqueue, Local
    <2> DEFINE to == [job[j] EXCEPT !.pc = "queued", !.tries = MaxTries, !.loaded = 0]
    <2>2. to.pc = "queued" /\ to.tries = MaxTries
      BY <1>1 DEF JobState
    <2>3. Move(j, {"typing"}, to)
      BY <2>1, Zenon
    <2> HIDE DEF to
    <2>4. \A a \in {"typing"} : Weight("queued", MaxTries) < Weight(a, job[j].tries)
      BY <1>1, <2>2 DEF Weight, Remaining
    <2> QED
      BY <2>2, <2>3, <2>4, MoveWorks
  <1>6. CASE EnqueueFails(j)
    <2>1. PICK sent \in BOOLEAN :
             Move(j, {"typing"}, [Hit(j) EXCEPT !.pc = "refused", !.notice = sent])
      BY <1>6 DEF EnqueueFails, Local
    <2> DEFINE to == [Hit(j) EXCEPT !.pc = "refused", !.notice = sent]
    <2>2. to.pc = "refused" /\ to.tries = 0
      BY <1>1, EndedJob DEF JobState
    <2>3. Move(j, {"typing"}, to)
      BY <2>1, Zenon
    <2> HIDE DEF to
    <2>4. \A a \in {"typing"} : Weight("refused", 0) < Weight(a, job[j].tries)
      BY <1>1, <2>2 DEF Weight, Remaining
    <2> QED
      BY <2>2, <2>3, <2>4, MoveWorks
  <1>7. CASE RunInline(j)
    <2>1. Move(j, {"typing"}, [job[j] EXCEPT !.pc = "starting", !.inline = TRUE])
      BY <1>7 DEF RunInline, Local
    <2> DEFINE to == [job[j] EXCEPT !.pc = "starting", !.inline = TRUE]
    <2>2. to.pc = "starting" /\ to.tries = job[j].tries /\ job[j].tries = 0
      BY <1>1, <2>1 DEF JobState, Sound, Attempts, Move
    <2>3. Move(j, {"typing"}, to)
      BY <2>1, Zenon
    <2> HIDE DEF to
    <2>4. \A a \in {"typing"} : Weight("starting", job[j].tries) < Weight(a, job[j].tries)
      BY <1>1, <2>2 DEF Weight, Remaining
    <2> QED
      BY <2>2, <2>3, <2>4, MoveWorks
  <1>8. CASE StartRun(j)
    <2>1. Move(j, {"queued"}, [job[j] EXCEPT !.pc = "starting", !.tries = @ - 1])
      BY <1>8 DEF StartRun, Local
    <2> DEFINE to == [job[j] EXCEPT !.pc = "starting", !.tries = @ - 1]
    <2>2. to.pc = "starting" /\ to.tries = job[j].tries - 1 /\ job[j].tries > 0
      BY <1>1, <2>1 DEF JobState, Sound, Attempts, Move
    <2>3. Move(j, {"queued"}, to)
      BY <2>1, Zenon
    <2> HIDE DEF to
    <2>4. \A a \in {"queued"} : Weight("starting", job[j].tries - 1) < Weight(a, job[j].tries)
      BY <1>1, <2>2 DEF Weight, Remaining
    <2> QED
      BY <2>2, <2>3, <2>4, MoveWorks
  <1>9. CASE JobTimesOut(j)
    <2>1. Move(j, Running, Hit(j))
      BY <1>9 DEF JobTimesOut, Local
    <2> DEFINE to == Hit(j)
    <2>2. to.pc = "ended" /\ to.tries = 0
      BY <1>1, EndedJob DEF JobState
    <2>3. Move(j, Running, to)
      BY <2>1, Zenon
    <2> HIDE DEF to
    <2>4. \A a \in Running : Weight("ended", 0) < Weight(a, job[j].tries)
      BY <1>1, <2>2 DEF Weight, Remaining, Running
    <2> QED
      BY <2>2, <2>3, <2>4, MoveWorks
  <1>10. CASE ToolsFail(j)
    <2>1. PICK sent \in BOOLEAN :
             Move(j, {"starting"}, [Hit(j) EXCEPT !.notice = @ \/ sent])
      BY <1>10 DEF ToolsFail, Raises, Local
    <2> DEFINE to == [Hit(j) EXCEPT !.notice = @ \/ sent]
    <2>2. to.pc = "ended" /\ to.tries = 0
      BY <1>1, EndedJob DEF JobState
    <2>3. Move(j, {"starting"}, to)
      BY <2>1, Zenon
    <2> HIDE DEF to
    <2>4. \A a \in {"starting"} : Weight("ended", 0) < Weight(a, job[j].tries)
      BY <1>1, <2>2 DEF Weight, Remaining
    <2> QED
      BY <2>2, <2>3, <2>4, MoveWorks
  <1>11. CASE LLMInitFails(j)
    <2>1. Move(j, {"starting"}, Hit(j))
      BY <1>11 DEF LLMInitFails, Local
    <2> DEFINE to == Hit(j)
    <2>2. to.pc = "ended" /\ to.tries = 0
      BY <1>1, EndedJob DEF JobState
    <2>3. Move(j, {"starting"}, to)
      BY <2>1, Zenon
    <2> HIDE DEF to
    <2>4. \A a \in {"starting"} : Weight("ended", 0) < Weight(a, job[j].tries)
      BY <1>1, <2>2 DEF Weight, Remaining
    <2> QED
      BY <2>2, <2>3, <2>4, MoveWorks
  <1>12. CASE LLMInitialised(j)
    <2>1. Move(j, {"starting"}, [job[j] EXCEPT !.pc = "thinking"])
      BY <1>12 DEF LLMInitialised, Local
    <2> DEFINE to == [job[j] EXCEPT !.pc = "thinking"]
    <2>2. to.pc = "thinking" /\ to.tries = job[j].tries
      BY <1>1 DEF JobState
    <2>3. Move(j, {"starting"}, to)
      BY <2>1, Zenon
    <2> HIDE DEF to
    <2>4. \A a \in {"starting"} : Weight("thinking", job[j].tries) < Weight(a, job[j].tries)
      BY <1>1, <2>2 DEF Weight, Remaining
    <2> QED
      BY <2>2, <2>3, <2>4, MoveWorks
  <1>13. CASE Think(j)
    <2>1. PICK t \in Tokens :
             Move(j, {"thinking"}, [job[j] EXCEPT !.pc = "saving", !.tokens = t])
      BY <1>13 DEF Think, Local
    <2> DEFINE to == [job[j] EXCEPT !.pc = "saving", !.tokens = t]
    <2>2. to.pc = "saving" /\ to.tries = job[j].tries
      BY <1>1 DEF JobState
    <2>3. Move(j, {"thinking"}, to)
      BY <2>1, Zenon
    <2> HIDE DEF to
    <2>4. \A a \in {"thinking"} : Weight("saving", job[j].tries) < Weight(a, job[j].tries)
      BY <1>1, <2>2 DEF Weight, Remaining
    <2> QED
      BY <2>2, <2>3, <2>4, MoveWorks
  <1>14. CASE ThinkFails(j)
    <2>1. Move(j, {"thinking"}, [job[j] EXCEPT !.pc = "saving", !.tokens = 0])
      BY <1>14 DEF ThinkFails, Local
    <2> DEFINE to == [job[j] EXCEPT !.pc = "saving", !.tokens = 0]
    <2>2. to.pc = "saving" /\ to.tries = job[j].tries
      BY <1>1 DEF JobState
    <2>3. Move(j, {"thinking"}, to)
      BY <2>1, Zenon
    <2> HIDE DEF to
    <2>4. \A a \in {"thinking"} : Weight("saving", job[j].tries) < Weight(a, job[j].tries)
      BY <1>1, <2>2 DEF Weight, Remaining
    <2> QED
      BY <2>2, <2>3, <2>4, MoveWorks
  <1>15. CASE LoadTotal(j)
    <2>1. Move(j, {"saving"}, [job[j] EXCEPT !.pc = "loaded",
                            !.loaded = IF job[j].inline THEN @ ELSE total])
      BY <1>15 DEF LoadTotal, Local
    <2> DEFINE to == [job[j] EXCEPT !.pc = "loaded",
                            !.loaded = IF job[j].inline THEN @ ELSE total]
    <2>2. to.pc = "loaded" /\ to.tries = job[j].tries
      BY <1>1 DEF JobState
    <2>3. Move(j, {"saving"}, to)
      BY <2>1, Zenon
    <2> HIDE DEF to
    <2>4. \A a \in {"saving"} : Weight("loaded", job[j].tries) < Weight(a, job[j].tries)
      BY <1>1, <2>2 DEF Weight, Remaining
    <2> QED
      BY <2>2, <2>3, <2>4, MoveWorks
  <1>16. CASE Save(j)
    <2>1. Move(j, {"loaded"}, [job[j] EXCEPT !.pc = "publishing", !.saved = @ + 1])
      BY <1>16 DEF Save, Local
    <2> DEFINE to == [job[j] EXCEPT !.pc = "publishing", !.saved = @ + 1]
    <2>2. to.pc = "publishing" /\ to.tries = job[j].tries
      BY <1>1 DEF JobState
    <2>3. Move(j, {"loaded"}, to)
      BY <2>1, Zenon
    <2> HIDE DEF to
    <2>4. \A a \in {"loaded"} : Weight("publishing", job[j].tries) < Weight(a, job[j].tries)
      BY <1>1, <2>2 DEF Weight, Remaining
    <2> QED
      BY <2>2, <2>3, <2>4, MoveWorks
  <1>17. CASE SaveFails(j)
    <2>1. Move(j, {"saving", "loaded"}, [job[j] EXCEPT !.pc = "publishing", !.unsaved = TRUE])
      BY <1>17 DEF SaveFails, Local
    <2> DEFINE to == [job[j] EXCEPT !.pc = "publishing", !.unsaved = TRUE]
    <2>2. to.pc = "publishing" /\ to.tries = job[j].tries
      BY <1>1 DEF JobState
    <2>3. Move(j, {"saving", "loaded"}, to)
      BY <2>1, Zenon
    <2> HIDE DEF to
    <2>4. \A a \in {"saving", "loaded"} : Weight("publishing", job[j].tries) < Weight(a, job[j].tries)
      BY <1>1, <2>2 DEF Weight, Remaining
    <2> QED
      BY <2>2, <2>3, <2>4, MoveWorks
  <1>18. CASE Publish(j)
    <2>1. Move(j, {"publishing"}, [job[j] EXCEPT !.pc = "published", !.replies = @ + 1])
      BY <1>18 DEF Publish, Local
    <2> DEFINE to == [job[j] EXCEPT !.pc = "published", !.replies = @ + 1]
    <2>2. to.pc = "published" /\ to.tries = job[j].tries
      BY <1>1 DEF JobState
    <2>3. Move(j, {"publishing"}, to)
      BY <2>1, Zenon
    <2> HIDE DEF to
    <2>4. \A a \in {"publishing"} : Weight("published", job[j].tries) < Weight(a, job[j].tries)
      BY <1>1, <2>2 DEF Weight, Remaining
    <2> QED
      BY <2>2, <2>3, <2>4, MoveWorks
  <1>19. CASE PublishFails(j)
    <2>1. PICK sent \in BOOLEAN :
             Move(j, {"publishing"}, [Hit(j) EXCEPT !.notice = @ \/ sent])
      BY <1>19 DEF PublishFails, Raises, Local
    <2> DEFINE to == [Hit(j) EXCEPT !.notice = @ \/ sent]
    <2>2. to.pc = "ended" /\ to.tries = 0
      BY <1>1, EndedJob DEF JobState
    <2>3. Move(j, {"publishing"}, to)
      BY <2>1, Zenon
    <2> HIDE DEF to
    <2>4. \A a \in {"publishing"} : Weight("ended", 0) < Weight(a, job[j].tries)
      BY <1>1, <2>2 DEF Weight, Remaining
    <2> QED
      BY <2>2, <2>3, <2>4, MoveWorks
  <1>20. CASE Acknowledge(j)
    <2>1. Move(j, {"published"}, Ended(j))
      BY <1>20 DEF Acknowledge, Local
    <2> DEFINE to == Ended(j)
    <2>2. to.pc = "ended" /\ to.tries = 0
      BY <1>1, EndedJob DEF JobState
    <2>3. Move(j, {"published"}, to)
      BY <2>1, Zenon
    <2> HIDE DEF to
    <2>4. \A a \in {"published"} : Weight("ended", 0) < Weight(a, job[j].tries)
      BY <1>1, <2>2 DEF Weight, Remaining
    <2> QED
      BY <2>2, <2>3, <2>4, MoveWorks
  <1>21. CASE WorkerDies(j)
    <2>1. CASE job[j].tries > 0
      <3> DEFINE to == [job[j] EXCEPT !.pc = "queued", !.hit = TRUE, !.loaded = 0, !.tokens = 0]
      <3>1. Move(j, Running, to)
        BY <1>21, <2>1 DEF WorkerDies, Local
      <3>2. to.pc = "queued" /\ to.tries = job[j].tries
        BY <1>1 DEF JobState
      <3> HIDE DEF to
      <3>3. \A a \in Running : Weight("queued", job[j].tries) < Weight(a, job[j].tries)
        BY <1>1 DEF Weight, Remaining, Running
      <3> QED
        BY <3>1, <3>2, <3>3, MoveWorks
    <2>2. CASE ~(job[j].tries > 0)
      <3>1. Move(j, Running, Hit(j))
        BY <1>21, <2>2 DEF WorkerDies, Local
      <3>2. Hit(j).pc = "ended" /\ Hit(j).tries = 0
        BY <1>1, EndedJob
        <3>3. \A a \in Running : Weight("ended", 0) < Weight(a, job[j].tries)
        BY <1>1 DEF Weight, Remaining, Running
      <3> QED
        BY <3>1, <3>2, <3>3, MoveWorks
    <2> QED
      BY <2>1, <2>2
  <1> QED
    BY <1>2, <1>3, <1>4, <1>5, <1>6, <1>7, <1>8, <1>9, <1>10, <1>11, <1>12, <1>13, <1>14, <1>15, <1>16, <1>17, <1>18, <1>19, <1>20, <1>21
       DEF Handler, Run

\* A job takes a bounded number of steps, whatever fails, dies or is retried: each of
\* them, arq's repeated executions included, lowers a number that no other job's step
\* touches.  With a fair event loop and workers that is why jobs settle.
THEOREM WorkIsBounded == Spec => []WorkBounded /\ WorkFalls
  <1>1. Inv => WorkBounded
    BY WorkOf DEF Inv, TypeOK, WorkBounded
  <1>2. Inv /\ [Next]_vars =>
            [\A j \in Jobs : job'[j] = job[j] \/ Work(job'[j]) < Work(job[j])]_vars
    <2> SUFFICES ASSUME Inv, Next, NEW j \in Jobs
                 PROVE  job'[j] = job[j] \/ Work(job'[j]) < Work(job[j])
      OBVIOUS
    <2>1. PICK i \in Jobs : Receive(i) \/ Handler(i) \/ Run(i)
      BY DEF Next
    <2> QED
      BY <2>1, StepWorks DEF Inv
  <1> QED
    BY <1>1, <1>2, Invariant, PTL DEF Spec, WorkFalls
===============================================================================
