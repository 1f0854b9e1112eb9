---------------------------- MODULE Providers_proofs ----------------------------
(***************************************************************************)
(* What holds of LLMManager for any providers, lists and requests.         *)
(*                                                                         *)
(* Cooldowns.  A provider that fails does not lose an older cooldown,      *)
(* because nothing reaches further than Cooldown from now (Reach) and      *)
(* because a request that is alone finds, when its health check ends, the  *)
(* cooldown it looked at before (Alone).  Only the second write of one     *)
(* health check cuts what the first has just written.                      *)
(*                                                                         *)
(* Failures.  Each provider of a request's list is among those it has yet  *)
(* to try, those that answered it or those that failed it, from the start  *)
(* to the end of the request (Line); the first two are empty when it fails.*)
(*                                                                         *)
(* The active provider.  It comes out of a chain whose providers were free *)
(* of cooldowns when the request began (Fresh), for no request writes a    *)
(* cooldown while it keeps the provider in its chain (Line again), and the *)
(* second write of a health check finds it cleared by the first (Cleared). *)
(***************************************************************************)
EXTENDS Providers, SequenceTheorems, TLAPS

-------------------------------------------------------------------------------
(* The cooldowns *)

Numbers == /\ now \in Nat
           /\ until \in [Providers -> Nat]
           /\ pc \in [Requests -> {"idle", "trying", "checking", "unwinding", "ready", "failed"}]
           /\ kind \in [Requests -> {"llm", "embed", "static"}]
           /\ since \in [Requests -> Nat]

\* No cooldown ends later than if it began now, and no request began later.
Reach == /\ \A r \in Requests : since[r] <= now
         /\ \A p \in Providers : until[p] <= now + Cooldown

\* Until requests overlap there is one at a time, and the provider it checks does not
\* cool down as far as the request knows.
Alone == /\ \A q, r \in Requests : pc[q] \in Busy /\ pc[r] \in Busy => q = r
         /\ \A r \in Requests : pc[r] = "checking" =>
               \A p \in Providers : p = Head(rest[r]) => until[p] <= since[r]

Inv == Numbers /\ Reach /\ (~overlap => Alone)

Kept == \A p \in Providers : until[p] <= until'[p] \/ CutByOwnCheck(p)

-------------------------------------------------------------------------------
(* The steps *)

LEMMA InitInv == Init => Inv
  BY ProvidersAssumption DEF Init, Inv, Numbers, Reach, Alone, Busy

\* A request that moves without touching a cooldown.
LEMMA Moves ==
  ASSUME Inv, NEW r \in Requests, NEW to \in {"idle", "trying", "ready", "failed"},
         pc[r] \in Busy \cup {"failed"}, to = "idle" \/ to = "failed" \/ pc[r] \in Busy,
         pc' = [pc EXCEPT ![r] = to],
         \/ since' = since
         \/ since' = [since EXCEPT ![r] = 0],
         \/ kind' = kind
         \/ kind' = [kind EXCEPT ![r] = "llm"],
         UNCHANGED <<now, until, overlap>>,
         \A q \in Requests : q # r => rest'[q] = rest[q]
  PROVE  Inv'
  <1>1. Numbers' /\ Reach'
    BY DEF Inv, Numbers, Reach
  <1>2. /\ pc'[r] = to
        /\ \A q \in Requests : q # r => pc'[q] = pc[q] /\ since'[q] = since[q]
    BY DEF Inv, Numbers
  <1>3. ASSUME ~overlap
        PROVE  Alone'
    <2>1. Alone
      BY <1>3 DEF Inv
    <2> QED
      BY <1>2, <2>1 DEF Alone, Busy
  <1> QED
    BY <1>1, <1>3 DEF Inv

\* A request that cools a provider down, and is not checking one afterwards.
LEMMA CoolsDown ==
  ASSUME Inv, NEW r \in Requests, NEW p,
         NEW to \in {"trying", "unwinding", "ready", "failed"}, NEW end \in Nat,
         pc[r] \in Busy, pc' = [pc EXCEPT ![r] = to],
         until' = [until EXCEPT ![p] = end], end <= now + Cooldown,
         UNCHANGED <<now, kind, since, overlap>>
  PROVE  Inv'
  <1>1. Numbers'
    BY DEF Inv, Numbers
  <1>2. Reach'
    BY ProvidersAssumption DEF Inv, Numbers, Reach
  <1>3. ASSUME ~overlap
        PROVE  Alone'
    <2>1. Alone
      BY <1>3 DEF Inv
    <2>2. \A q \in Requests : q # r => pc[q] \notin Busy /\ pc'[q] = pc[q]
      BY <2>1 DEF Alone, Inv, Numbers
    <2>3. pc'[r] = to
      BY DEF Inv, Numbers
    <2> QED
      BY <2>2, <2>3 DEF Alone, Busy
  <1> QED
    BY <1>1, <1>2, <1>3 DEF Inv

LEMMA BeginInv ==
  ASSUME Inv, NEW r \in Requests, NEW k \in {"llm", "embed", "static"}, Begin(r, k)
  PROVE  Inv' /\ until' = until
  <1>1. Numbers' /\ Reach' /\ until' = until
    BY DEF Begin, At, stateVars, Inv, Numbers, Reach
  <1>2. ASSUME ~overlap'
        PROVE  Alone'
    <2>1. \A q \in Requests : pc[q] \notin Busy
      BY <1>2 DEF Begin, Busy
    <2>2. pc'[r] = "trying" /\ \A q \in Requests : q # r => pc'[q] = pc[q]
      BY DEF Begin, At, Inv, Numbers
    <2> QED
      BY <2>1, <2>2 DEF Alone, Busy
  <1> QED
    BY <1>1, <1>2 DEF Inv

LEMMA CheckInv ==
  ASSUME Inv, NEW r \in Requests, Check(r)
  PROVE  Inv' /\ until' = until
  <1>1. /\ Numbers' /\ Reach'
        /\ UNCHANGED <<until, since, rest, overlap>>
        /\ pc[r] = "trying" /\ pc'[r] = "checking"
        /\ \A q \in Requests : q # r => pc'[q] = pc[q]
    BY DEF Check, At, stateVars, requestVars, Inv, Numbers, Reach
  <1>2. \A p \in Providers : p = Head(rest[r]) => until[p] <= since[r]
    BY DEF Check, Cooling, Inv, Numbers
  <1>3. ASSUME ~overlap
        PROVE  Alone'
    <2>1. Alone
      BY <1>3 DEF Inv
    <2> QED
      BY <1>1, <1>2, <2>1 DEF Alone, Busy
  <1> QED
    BY <1>1, <1>3 DEF Inv

\* The steps that leave the cooldowns alone.
LEMMA OtherInv ==
  ASSUME Inv, NEW r \in Requests,
         \/ Skip(r) \/ StaticFails(r) \/ Healthy(r) \/ EmbedHealthy(r)
         \/ NoneLeft(r) \/ Choose(r) \/ InvokeSucceeds(r) \/ Raise(r)
  PROVE  Inv' /\ until' = until
  <1> USE DEF At, NextProvider, Over, stateVars, requestVars, Busy
  <1>1. CASE Skip(r) \/ Healthy(r)
    <2>1. /\ pc[r] \in Busy /\ pc' = [pc EXCEPT ![r] = "trying"]
          /\ UNCHANGED <<now, until, kind, since, overlap>> /\ rest' = [rest EXCEPT ![r] = Tail(@)]
      BY <1>1 DEF Skip, Healthy, Taken
    <2>2. \A q \in Requests : q # r => rest'[q] = rest[q]
      BY <2>1
    <2> QED
      BY <2>1, <2>2, Moves
  <1>2. CASE StaticFails(r) \/ NoneLeft(r) \/ Choose(r)
    <2>1. PICK to \in {"ready", "failed"} : pc' = [pc EXCEPT ![r] = to]
      BY <1>2 DEF StaticFails, NoneLeft, Choose
    <2>2. /\ pc[r] \in Busy /\ UNCHANGED <<now, until, kind, rest, overlap>>
          /\ since' = since \/ since' = [since EXCEPT ![r] = 0]
      BY <1>2 DEF StaticFails, NoneLeft, Choose
    <2> QED
      BY <2>1, <2>2, Moves
  <1>3. CASE EmbedHealthy(r) \/ InvokeSucceeds(r) \/ Raise(r)
    <2>1. /\ pc[r] \in Busy \cup {"failed"} /\ pc' = [pc EXCEPT ![r] = "idle"]
          /\ UNCHANGED <<now, until, overlap>> /\ rest' = [rest EXCEPT ![r] = <<>>]
          /\ since' = [since EXCEPT ![r] = 0] /\ kind' = [kind EXCEPT ![r] = "llm"]
      BY <1>3 DEF EmbedHealthy, InvokeSucceeds, Raise
    <2>2. \A q \in Requests : q # r => rest'[q] = rest[q]
      BY <2>1
    <2> QED
      BY <2>1, <2>2, Moves
  <1> QED
    BY <1>1, <1>2, <1>3

LEMMA InitFailsInv ==
  ASSUME Inv, NEW r \in Requests, InitFails(r)
  PROVE  Inv' /\ (~overlap => Kept)
  <1> DEFINE p == Head(rest[r])
  <1>1. /\ pc[r] = "trying" /\ pc' = [pc EXCEPT ![r] = "trying"]
        /\ rest' = [rest EXCEPT ![r] = Tail(@)] /\ UNCHANGED <<now, kind, since, overlap>>
    BY DEF InitFails, NextProvider
  <1>2. CASE kind[r] = "embed"
    <2>1. until' = [until EXCEPT ![p] = since[r] + Cooldown] /\ ~Cooling(r, p)
      BY <1>2 DEF InitFails, EmbedFails
    <2>2. since[r] + Cooldown \in Nat /\ since[r] + Cooldown <= now + Cooldown
      BY ProvidersAssumption DEF Inv, Numbers, Reach
    <2>3. p \in Providers => until[p] <= since[r]
      BY <1>2, <2>1 DEF Cooling, Inv, Numbers
    <2> HIDE DEF p
    <2>4. Inv'
      BY <1>1, <2>1, <2>2, CoolsDown DEF Busy
    <2>5. Kept
      BY <2>1, <2>2, <2>3, ProvidersAssumption DEF Kept, Inv, Numbers
    <2> QED
      BY <2>4, <2>5
  <1>3. CASE kind[r] # "embed"
    <2>1. until' = until
      BY <1>3 DEF InitFails, stateVars
    <2>2. \A q \in Requests : q # r => rest'[q] = rest[q]
      BY <1>1
    <2>3. Inv'
      BY <1>1, <2>1, <2>2, Moves DEF Busy
    <2> QED
      BY <2>1, <2>3 DEF Kept, Inv, Numbers
  <1> QED
    BY <1>2, <1>3

\* The callback writes the longest cooldown there can be.
LEMMA UnhealthyInv ==
  ASSUME Inv, NEW r \in Requests, Unhealthy(r)
  PROVE  Inv' /\ Kept
  <1> DEFINE p == Head(rest[r])
             end == now + Cooldown
  <1>1. /\ pc[r] = "checking" /\ pc' = [pc EXCEPT ![r] = "unwinding"]
        /\ UNCHANGED <<now, kind, since, overlap>> /\ until' = [until EXCEPT ![p] = end]
    BY DEF Unhealthy, At, LlmFails, requestVars
  <1>2. end \in Nat /\ end <= now + Cooldown /\ \A q \in Providers : until[q] <= end
    BY ProvidersAssumption DEF Inv, Numbers, Reach
  <1> HIDE DEF p, end
  <1>3. Inv'
    BY <1>1, <1>2, CoolsDown DEF Busy
  <1>4. Kept
    BY <1>1, <1>2 DEF Kept, Inv, Numbers
  <1> QED
    BY <1>3, <1>4

\* The request writes after it.
LEMMA UnwindInv ==
  ASSUME Inv, NEW r \in Requests, NEW limited \in BOOLEAN, Unwind(r, limited)
  PROVE  Inv' /\ Kept
  <1> DEFINE p == Head(rest[r])
             end == since[r] + Cooldown
  <1>1. /\ pc[r] = "unwinding" /\ pc' = [pc EXCEPT ![r] = "trying"]
        /\ UNCHANGED <<now, kind, since, overlap>> /\ rest' = [rest EXCEPT ![r] = Tail(@)]
        /\ until' = IF limited THEN [until EXCEPT ![p] = end] ELSE until
    BY DEF Unwind, NextProvider
  <1>2. end \in Nat /\ end <= now + Cooldown
    BY ProvidersAssumption DEF Inv, Numbers, Reach
  <1>3. ASSUME limited, p \in Providers
        PROVE  CutByOwnCheck(p)
    <2>1. until'[p] = end
      BY <1>1, <1>3 DEF Inv, Numbers
    <2> QED
      BY <1>1, <1>2, <2>1 DEF CutByOwnCheck
  <1> HIDE DEF p, end
  <1>4. Inv'
    <2>1. CASE limited
      BY <1>1, <1>2, <2>1, CoolsDown DEF Busy
    <2>2. CASE ~limited
      <3>1. \A q \in Requests : q # r => rest'[q] = rest[q]
        BY <1>1
      <3> QED
        BY <1>1, <2>2, <3>1, Moves DEF Busy
    <2> QED
      BY <2>1, <2>2
  <1>5. ASSUME NEW q \in Providers
        PROVE  until[q] <= until'[q] \/ CutByOwnCheck(q)
    <2>1. CASE limited /\ q = p
      BY <1>3, <2>1
    <2>2. CASE ~(limited /\ q = p)
      <3>1. until'[q] = until[q] /\ until[q] \in Nat
        BY <1>1, <2>2 DEF Inv, Numbers
      <3> QED
        BY <3>1
    <2> QED
      BY <2>1, <2>2
  <1> QED
    BY <1>4, <1>5 DEF Kept

LEMMA EmbedUnhealthyInv ==
  ASSUME Inv, NEW r \in Requests, EmbedUnhealthy(r)
  PROVE  Inv' /\ (~overlap => Kept)
  <1> DEFINE p == Head(rest[r])
             end == since[r] + Cooldown
  <1>1. /\ pc[r] = "checking" /\ pc' = [pc EXCEPT ![r] = "trying"]
        /\ UNCHANGED <<now, kind, since, overlap>> /\ until' = [until EXCEPT ![p] = end]
    BY DEF EmbedUnhealthy, NextProvider, EmbedFails
  <1>2. end \in Nat /\ end <= now + Cooldown /\ since[r] <= end
    BY ProvidersAssumption DEF Inv, Numbers, Reach
  <1>3. ~overlap /\ p \in Providers => until[p] <= since[r]
    BY <1>1 DEF Inv, Alone
  <1> HIDE DEF p, end
  <1>4. Inv'
    BY <1>1, <1>2, CoolsDown DEF Busy
  <1>5. ~overlap => Kept
    BY <1>1, <1>2, <1>3 DEF Kept, Inv, Numbers
  <1> QED
    BY <1>4, <1>5

LEMMA InvokeFailsInv ==
  ASSUME Inv, NEW r \in Requests, InvokeFails(r)
  PROVE  Inv' /\ Kept
  <1> DEFINE p == Head(chain[r])
  <1>1. PICK to \in {"ready", "failed"} : pc[r] = "ready" /\ pc' = [pc EXCEPT ![r] = to]
    BY DEF InvokeFails, At
  <1>2. UNCHANGED <<now, kind, since, rest, overlap>>
    BY DEF InvokeFails
  <1>3. CASE kind[r] = "llm"
    <2>1. until' = [until EXCEPT ![p] = now + Cooldown]
      BY <1>3 DEF InvokeFails, LlmFails
    <2>2. now + Cooldown \in Nat /\ now + Cooldown <= now + Cooldown
      BY ProvidersAssumption DEF Inv, Numbers
    <2> HIDE DEF p
    <2>3. Inv'
      BY <1>1, <1>2, <2>1, <2>2, CoolsDown DEF Busy
    <2>4. Kept
      BY <2>1 DEF Kept, Inv, Numbers, Reach
    <2> QED
      BY <2>3, <2>4
  <1>4. CASE kind[r] # "llm"
    <2>1. until' = until
      BY <1>4 DEF InvokeFails, stateVars
    <2>2. Inv'
      BY <1>1, <1>2, <2>1, Moves DEF Busy
    <2> QED
      BY <2>1, <2>2 DEF Kept, Inv, Numbers
  <1> QED
    BY <1>3, <1>4

-------------------------------------------------------------------------------
(* Cooldowns are kept *)

LEMMA NextInv == Inv /\ [Next]_vars => Inv' /\ (~overlap => Kept)
  <1> SUFFICES ASSUME Inv, [Next]_vars
               PROVE  Inv' /\ (~overlap => Kept)
    OBVIOUS
  <1>1. until' = until => Kept
    BY DEF Kept, Inv, Numbers
  <1>2. CASE UNCHANGED vars
    BY <1>1, <1>2 DEF vars, stateVars, requestVars, Inv, Numbers, Reach, Alone
  <1>3. CASE Tick
    <2>1. now' = now + 1 /\ UNCHANGED <<until, pc, kind, since, rest, overlap>>
      BY <1>3 DEF Tick, stateVars, requestVars
    <2>2. Numbers' /\ Reach'
      BY <2>1, ProvidersAssumption DEF Inv, Numbers, Reach
    <2> QED
      BY <1>1, <2>1, <2>2 DEF Inv, Alone
  <1>4. ASSUME NEW r \in Requests,
               \/ \E k \in {"llm", "embed", "static"} : Begin(r, k)
               \/ Trying(r) \/ Invoking(r) \/ Raise(r)
        PROVE  Inv' /\ (~overlap => Kept)
    BY <1>1, <1>4, BeginInv, CheckInv, OtherInv, InitFailsInv, UnhealthyInv, UnwindInv,
       EmbedUnhealthyInv, InvokeFailsInv
       DEF Trying, Invoking
  <1> QED
    BY <1>2, <1>3, <1>4 DEF Next

LEMMA Invariance == Spec => []Inv
  <1> QED
    BY InitInv, NextInv, PTL DEF Spec

\* For any lists of providers a cooldown is cut short only by requests that overlap, or
\* by the second write of the health check whose first write it is, to no less than
\* Cooldown from the start of the request; what earlier requests left is never cut.
THEOREM CooldownsAreKept == Spec => CooldownKept
  <1>1. Inv /\ [Next]_vars =>
          [\A p \in Providers : until'[p] < until[p] => overlap \/ CutByOwnCheck(p)]_vars
    <2> SUFFICES ASSUME Inv, [Next]_vars, NEW p \in Providers, until'[p] < until[p], ~overlap
                 PROVE  CutByOwnCheck(p)
      OBVIOUS
    <2>1. /\ until[p] <= until'[p] \/ CutByOwnCheck(p)
          /\ until[p] \in Nat /\ until'[p] \in Nat
      BY NextInv DEF Kept, Inv, Numbers
    <2> QED
      BY <2>1
  <1> QED
    BY <1>1, Invariance, PTL DEF Spec, CooldownKept

-------------------------------------------------------------------------------
(* Lists of providers *)

Once(q) == \A i, j \in DOMAIN q : q[i] = q[j] => i = j

LEMMA AppendElements ==
  ASSUME NEW S, NEW q \in Seq(S), NEW x \in S
  PROVE  Append(q, x) \in Seq(S) /\ Append(q, x) # <<>> /\ Elements(Append(q, x)) = Elements(q) \cup {x}
  <1> DEFINE a == Append(q, x)
  <1>1. /\ Len(q) \in Nat /\ DOMAIN q = 1..Len(q)
        /\ a \in Seq(S) /\ a # <<>> /\ Len(a) = Len(q) + 1
        /\ \A i \in 1..Len(q) : a[i] = q[i]
        /\ a[Len(q) + 1] = x
    BY AppendProperties, LenProperties
  <1> HIDE DEF a
  <1>2. DOMAIN a = 1..(Len(q) + 1)
    BY <1>1, LenProperties
  <1>3. Elements(a) = Elements(q) \cup {x}
    BY <1>1, <1>2 DEF Elements
  <1> QED
    BY <1>1, <1>3 DEF a

LEMMA TailElements ==
  ASSUME NEW S, NEW q \in Seq(S), q # <<>>
  PROVE  /\ Head(q) \in S /\ Tail(q) \in Seq(S)
         /\ Len(q) = 1 <=> Tail(q) = <<>>
         /\ Elements(q) = {Head(q)} \cup Elements(Tail(q))
         /\ Once(q) => Once(Tail(q)) /\ Head(q) \notin Elements(Tail(q))
  <1> DEFINE t == Tail(q)
  <1>1. /\ Len(q) \in Nat /\ Len(q) # 0 /\ DOMAIN q = 1..Len(q)
        /\ Head(q) \in S /\ t \in Seq(S) /\ Len(t) = Len(q) - 1
        /\ \A i \in 1..Len(t) : t[i] = q[i + 1]
        /\ Head(q) = q[1]
    BY HeadTailProperties, LenProperties, EmptySeq
  <1>2. Len(t) = 0 <=> t = <<>>
    BY <1>1, EmptySeq
  <1> HIDE DEF t
  <1>3. DOMAIN t = 1..(Len(q) - 1)
    BY <1>1, LenProperties
  <1>4. /\ 1 \in DOMAIN q
        /\ \A i \in DOMAIN t : i + 1 \in DOMAIN q /\ t[i] = q[i + 1] /\ i + 1 # 1
        /\ \A i \in DOMAIN q : i # 1 => i - 1 \in DOMAIN t /\ q[i] = t[i - 1]
    BY <1>1, <1>3
  <1>5. Elements(q) = {Head(q)} \cup Elements(t)
    <2>1. \A i \in DOMAIN q : q[i] \in {Head(q)} \cup Elements(t)
      BY <1>1, <1>4 DEF Elements
    <2>2. \A x \in {Head(q)} \cup Elements(t) : \E i \in DOMAIN q : x = q[i]
      BY <1>1, <1>4 DEF Elements
    <2> QED
      BY <2>1, <2>2 DEF Elements
  <1>6. ASSUME Once(q)
        PROVE  Once(t) /\ Head(q) \notin Elements(t)
    <2>1. ASSUME NEW i \in DOMAIN t, NEW j \in DOMAIN t, t[i] = t[j]
          PROVE  i = j
      <3>1. i + 1 = j + 1
        BY <1>4, <1>6, <2>1 DEF Once
      <3> QED
        BY <1>3, <3>1
    <2>2. Head(q) \notin Elements(t)
      <3>1. \A i \in DOMAIN t : t[i] # Head(q)
        BY <1>1, <1>4, <1>6 DEF Once
      <3> QED
        BY <3>1 DEF Elements
    <2> QED
      BY <2>1, <2>2 DEF Once
  <1> QED
    BY <1>1, <1>2, <1>5, <1>6 DEF t

\* Putting a provider first keeps the list's members, each named once.
LEMMA First ==
  ASSUME NEW p \in Providers \cup {NoProvider}, NEW list \in Seq(Providers), Once(list)
  PROVE  /\ ActiveFirst(p, list) \in Seq(Providers)
         /\ Elements(ActiveFirst(p, list)) = Elements(list)
         /\ Once(ActiveFirst(p, list))
  <1>1. CASE p \notin Elements(list)
    BY <1>1 DEF ActiveFirst
  <1>2. CASE p \in Elements(list)
    <2> DEFINE i == CHOOSE i \in DOMAIN list : list[i] = p
               a == SubSeq(list, 1, i - 1)
               b == SubSeq(list, i + 1, Len(list))
               w == a \o b
               f == <<p>> \o w
    <2>1. i \in DOMAIN list /\ list[i] = p
      BY <1>2 DEF Elements
    <2>2. ActiveFirst(p, list) = f
      BY <1>2 DEF ActiveFirst, WithoutActive
    <2> HIDE DEF i
    <2>3. Len(list) \in Nat /\ DOMAIN list = 1..Len(list) /\ \A k \in 1..Len(list) : list[k] \in Providers
      BY LenProperties, ElementOfSeq
    <2>4. i \in 1..Len(list) /\ p \in Providers
      BY <2>1, <2>3
    <2>5. /\ a \in Seq(Providers) /\ Len(a) = i - 1
          /\ \A k \in 1..(i - 1) : a[k] = list[k]
      <3>1. /\ a \in Seq(Providers) /\ Len(a) = IF 1 <= i - 1 THEN (i - 1) - 1 + 1 ELSE 0
            /\ \A k \in 1..((i - 1) - 1 + 1) : a[k] = list[1 + k - 1]
        BY <2>3, <2>4, SubSeqProperties
      <3> HIDE DEF a
      <3> QED
        BY <2>3, <2>4, <3>1
    <2>6. /\ b \in Seq(Providers) /\ Len(b) = Len(list) - i
          /\ \A k \in 1..(Len(list) - i) : b[k] = list[i + k]
      <3>1. /\ b \in Seq(Providers)
            /\ Len(b) = IF i + 1 <= Len(list) THEN Len(list) - (i + 1) + 1 ELSE 0
            /\ \A k \in 1..(Len(list) - (i + 1) + 1) : b[k] = list[(i + 1) + k - 1]
        BY <2>3, <2>4, SubSeqProperties
      <3> HIDE DEF b
      <3>2. i \in Int /\ Len(list) \in Int /\ i <= Len(list)
        BY <2>3, <2>4
      <3>3. Len(b) = Len(list) - i
        BY <3>1, <3>2
      <3>4. ASSUME NEW k \in 1..(Len(list) - i)
            PROVE  b[k] = list[i + k]
        <4>1. k \in 1..(Len(list) - (i + 1) + 1) /\ (i + 1) + k - 1 = i + k
          BY <3>2
        <4> QED
          BY <3>1, <4>1
      <3> QED
        BY <3>1, <3>3, <3>4
    <2> HIDE DEF a, b
    <2>7. /\ w \in Seq(Providers) /\ Len(w) = Len(list) - 1
          /\ \A k \in 1..(Len(list) - 1) : w[k] = IF k <= i - 1 THEN list[k] ELSE list[k + 1]
      <3>1. /\ w \in Seq(Providers) /\ Len(w) = Len(a) + Len(b)
            /\ \A k \in 1..(Len(a) + Len(b)) : w[k] = IF k <= Len(a) THEN a[k] ELSE b[k - Len(a)]
        BY <2>5, <2>6, ConcatProperties
      <3> HIDE DEF w
      <3>2. Len(a) + Len(b) = Len(list) - 1
        BY <2>3, <2>4, <2>5, <2>6
      <3>3. ASSUME NEW k \in 1..(Len(list) - 1)
            PROVE  w[k] = IF k <= i - 1 THEN list[k] ELSE list[k + 1]
        <4>1. CASE k <= i - 1
          <5>1. k \in 1..(i - 1) /\ w[k] = a[k]
            BY <2>3, <2>4, <2>5, <3>1, <3>2, <4>1
          <5> QED
            BY <2>5, <4>1, <5>1
        <4>2. CASE ~(k <= i - 1)
          <5>1. w[k] = b[k - (i - 1)]
            BY <2>5, <3>1, <3>2, <4>2
          <5>2. k - (i - 1) \in 1..(Len(list) - i) /\ i + (k - (i - 1)) = k + 1
            BY <2>3, <2>4, <4>2
          <5>3. b[k - (i - 1)] = list[i + (k - (i - 1))]
            BY <2>6, <5>2
          <5> QED
            BY <4>2, <5>1, <5>2, <5>3
        <4> QED
          BY <4>1, <4>2
      <3> QED
        BY <3>1, <3>2, <3>3
    <2> HIDE DEF w
    <2>8. /\ f \in Seq(Providers) /\ Len(f) = Len(list)
          /\ \A k \in 1..Len(list) : f[k] = IF k = 1 THEN p ELSE w[k - 1]
      <3> DEFINE o == <<p>>
      <3>1. o \in Seq(Providers) /\ Len(o) = 1 /\ o[1] = p
        BY <2>4
      <3> HIDE DEF o
      <3>2. /\ f \in Seq(Providers) /\ Len(f) = Len(o) + Len(w)
            /\ \A k \in 1..(Len(o) + Len(w)) : f[k] = IF k <= Len(o) THEN o[k] ELSE w[k - Len(o)]
        BY <2>7, <3>1, ConcatProperties DEF o
      <3> HIDE DEF f
      <3> QED
        BY <2>3, <2>4, <2>7, <3>1, <3>2
    <2> HIDE DEF f
    <2>9. DOMAIN f = 1..Len(list)
      BY <2>8, LenProperties
    <2> DEFINE from(k) == IF k = 1 THEN i ELSE IF k <= i THEN k - 1 ELSE k
    <2>10. \A k \in 1..Len(list) : from(k) \in 1..Len(list) /\ f[k] = list[from(k)]
      BY <2>1, <2>3, <2>4, <2>7, <2>8
    <2>11. \A k, l \in 1..Len(list) : from(k) = from(l) => k = l
      BY <2>3, <2>4
    <2>12. \A n \in 1..Len(list) : \E k \in 1..Len(list) : from(k) = n
      <3> TAKE n \in 1..Len(list)
      <3>1. CASE n = i
        BY <2>4, <3>1
      <3>2. CASE n < i
        <4>1. n + 1 \in 1..Len(list) /\ from(n + 1) = n
          BY <2>3, <2>4, <3>2
        <4> QED
          BY <4>1
      <3>3. CASE i < n
        BY <2>3, <2>4, <3>3
      <3> QED
        BY <2>3, <2>4, <3>1, <3>2, <3>3
    <2> HIDE DEF from
    <2>13. Elements(f) = Elements(list)
      BY <2>3, <2>9, <2>10, <2>12 DEF Elements
    <2>14. Once(f)
      BY <2>3, <2>9, <2>10, <2>11 DEF Once
    <2> QED
      BY <2>2, <2>8, <2>13, <2>14
  <1> QED
    BY <1>1, <1>2

-------------------------------------------------------------------------------
(* The types, and what is left of each request's list *)

\* A request at a place, of a kind, with providers it has yet to try, a chain and
\* providers that failed it.  Until it is over each provider of its priority list is
\* in one of the three.
Line(at, k, left, able, out) ==
    /\ at = "idle" => left = <<>> /\ able = <<>>
    /\ at \in {"checking", "unwinding"} => left # <<>>
    /\ at = "checking" /\ k = "llm" => Head(left) \in LlmMap
    /\ at = "ready" => left = <<>> /\ able # <<>>
    /\ at = "failed" /\ k # "static" => left = <<>> /\ able = <<>>
    /\ k = "embed" => able = <<>>
    /\ k = "llm" => /\ Once(left)
                    /\ Elements(left) \cap Elements(able) = {}
                    /\ Elements(able) \subseteq LlmMap
    /\ at # "idle" /\ k = "llm" =>
          Elements(LlmPriority) \subseteq Elements(left) \cup Elements(able) \cup out
    /\ at # "idle" /\ k = "embed" =>
          Elements(EmbedPriority) \subseteq Elements(left) \cup Elements(able) \cup out

Lines == \A r \in Requests : Line(pc[r], kind[r], rest[r], chain[r], failed[r])

Places == {"idle", "trying", "checking", "unwinding", "ready", "failed"}
Asking == {"trying", "checking", "unwinding"}
Kinds == {"llm", "embed", "static"}

Shared == /\ now \in 0..MaxTime
          /\ until \in [Providers -> 0..MaxTime + Cooldown]
          /\ activeLlm \in Providers \cup {NoProvider}
          /\ activeEmbed \in Providers \cup {NoProvider}
          /\ overlap \in BOOLEAN
          /\ crossed \in BOOLEAN

Asked == /\ pc \in [Requests -> Places]
         /\ kind \in [Requests -> Kinds]
         /\ since \in [Requests -> 0..MaxTime]
         /\ rest \in [Requests -> Seq(Providers)]
         /\ chain \in [Requests -> Seq(Providers)]
         /\ failed \in [Requests -> SUBSET Providers]

Book == Shared /\ Asked /\ Lines

LEMMA Nothing == Once(<<>>) /\ Elements(<<>>) = {}
  BY DEF Once, Elements

LEMMA InitBook == Init => Book
  <1> SUFFICES ASSUME Init
               PROVE  Book
    OBVIOUS
  <1>1. Shared
    <2>1. 0 \in 0..MaxTime /\ 0 \in 0..MaxTime + Cooldown
      BY ProvidersAssumption
    <2> QED
      BY <2>1 DEF Init, Shared
  <1>2. Asked
    <2>1. <<>> \in Seq(Providers)
      BY EmptySeq
    <2> QED
      BY <2>1, ProvidersAssumption DEF Init, Asked, Places, Kinds
  <1>3. Lines
    BY Nothing DEF Init, Lines, Line
  <1> QED
    BY <1>1, <1>2, <1>3 DEF Book

\* A request moves to another place, perhaps of another kind, and the others stay.
LEMMA MoveBook ==
  ASSUME Book, NEW r \in Requests,
         NEW at \in Places,
         NEW k \in Kinds, NEW t \in 0..MaxTime,
         NEW left \in Seq(Providers), NEW able \in Seq(Providers), NEW out \in SUBSET Providers,
         pc' = [pc EXCEPT ![r] = at],
         kind' = [kind EXCEPT ![r] = k],
         since' = [since EXCEPT ![r] = t],
         rest' = [rest EXCEPT ![r] = left],
         chain' = [chain EXCEPT ![r] = able],
         failed' = [failed EXCEPT ![r] = out],
         Line(at, k, left, able, out)
  PROVE  Asked' /\ Lines'
  <1>1. Asked'
    BY DEF Book, Asked
  <1>2. /\ pc'[r] = at /\ kind'[r] = k /\ rest'[r] = left /\ chain'[r] = able /\ failed'[r] = out
        /\ \A q \in Requests : q # r => /\ pc'[q] = pc[q] /\ kind'[q] = kind[q]
                                      /\ rest'[q] = rest[q] /\ chain'[q] = chain[q]
                                      /\ failed'[q] = failed[q]
    BY DEF Book, Asked
  <1>3. ASSUME NEW q \in Requests
        PROVE  Line(pc'[q], kind'[q], rest'[q], chain'[q], failed'[q])
    <2>1. CASE q = r
      BY <1>2, <2>1
    <2>2. CASE q # r
      <3>1. Line(pc[q], kind[q], rest[q], chain[q], failed[q])
        BY DEF Book, Lines
      <3> QED
        BY <1>2, <2>2, <3>1
    <2> QED
      BY <2>1, <2>2
  <1> QED
    BY <1>1, <1>3 DEF Lines

\* What is known of a request, and what an update that changes nothing amounts to.
LEMMA AtBook ==
  ASSUME Book, NEW r \in Requests
  PROVE  /\ pc[r] \in Places
         /\ kind[r] \in Kinds /\ since[r] \in 0..MaxTime
         /\ rest[r] \in Seq(Providers) /\ chain[r] \in Seq(Providers) /\ failed[r] \in SUBSET Providers
         /\ Line(pc[r], kind[r], rest[r], chain[r], failed[r])
         /\ kind = [kind EXCEPT ![r] = kind[r]]
         /\ since = [since EXCEPT ![r] = since[r]]
         /\ rest = [rest EXCEPT ![r] = rest[r]]
         /\ chain = [chain EXCEPT ![r] = chain[r]]
         /\ failed = [failed EXCEPT ![r] = failed[r]]
  <1>1. Line(pc[r], kind[r], rest[r], chain[r], failed[r])
    BY DEF Book, Lines
  <1> QED
    BY <1>1 DEF Book, Asked

LEMMA BeginBook ==
  ASSUME Book, NEW r \in Requests, NEW k \in Kinds, Begin(r, k)
  PROVE  Book'
  <1>1. /\ pc[r] = "idle" /\ pc' = [pc EXCEPT ![r] = "trying"]
        /\ kind' = [kind EXCEPT ![r] = k]
        /\ since' = [since EXCEPT ![r] = IF k = "static" THEN 0 ELSE now]
        /\ UNCHANGED <<now, until, activeLlm, activeEmbed, chain, failed, crossed>>
    BY DEF Begin, At, stateVars
  <1>2. PICK left \in Lists(k) : rest' = [rest EXCEPT ![r] = left]
    BY DEF Begin
  <1>3. Shared'
    BY <1>1 DEF Begin, Book, Shared
  <1>4. chain[r] = <<>>
    BY <1>1, AtBook DEF Line
  <1>5. (IF k = "static" THEN 0 ELSE now) \in 0..MaxTime
    BY ProvidersAssumption DEF Book, Shared
  <1>6. left \in Seq(Providers) /\ Line("trying", k, left, chain[r], failed[r])
    <2>1. CASE k = "llm"
      <3>1. left = ActiveFirst(activeLlm, LlmPriority)
        BY <1>2, <2>1 DEF Lists
      <3>2. left \in Seq(Providers) /\ Once(left) /\ Elements(left) = Elements(LlmPriority)
        BY <3>1, First, ProvidersAssumption DEF Once, Book, Shared
      <3> QED
        BY <1>4, <2>1, <3>2, Nothing DEF Line
    <2>2. CASE k = "embed"
      <3>1. left = ActiveFirst(activeEmbed, EmbedPriority)
        BY <1>2, <2>2 DEF Lists
      <3>2. left \in Seq(Providers) /\ Elements(left) = Elements(EmbedPriority)
        BY <3>1, First, ProvidersAssumption DEF Once, Book, Shared
      <3> QED
        BY <1>4, <2>2, <3>2 DEF Line
    <2>3. CASE k = "static"
      <3>1. PICK p \in Providers : left = <<p>> \o Fallbacks
        BY <1>2, <2>3 DEF Lists
      <3>2. left \in Seq(Providers)
        BY <3>1, ProvidersAssumption, ConcatProperties
      <3> QED
        BY <2>3, <3>2 DEF Line
    <2> QED
      BY <2>1, <2>2, <2>3 DEF Kinds
  <1>7. Asked' /\ Lines'
    <2> DEFINE t == IF k = "static" THEN 0 ELSE now
    <2>1. t \in 0..MaxTime /\ since' = [since EXCEPT ![r] = t]
      BY <1>1, <1>5
    <2>2. /\ chain[r] \in Seq(Providers) /\ failed[r] \in SUBSET Providers
          /\ chain' = [chain EXCEPT ![r] = chain[r]] /\ failed' = [failed EXCEPT ![r] = failed[r]]
      BY <1>1, AtBook
    <2>3. "trying" \in Places
      BY DEF Places
    <2>4. pc' = [pc EXCEPT ![r] = "trying"] /\ kind' = [kind EXCEPT ![r] = k]
      BY <1>1
    <2>5. left \in Seq(Providers) /\ Line("trying", k, left, chain[r], failed[r])
      BY <1>6
    <2> HIDE DEF t
    <2> QED
      BY <1>2, <2>1, <2>2, <2>3, <2>4, <2>5, MoveBook, Zenon
  <1> QED
    BY <1>3, <1>7 DEF Book

\* A request that moves with its lists as they are.
LEMMA PlaceBook ==
  ASSUME Book, NEW r \in Requests, NEW at \in Places,
         NEW t \in 0..MaxTime,
         pc' = [pc EXCEPT ![r] = at], since' = [since EXCEPT ![r] = t],
         UNCHANGED <<kind, rest, chain, failed>>,
         Line(at, kind[r], rest[r], chain[r], failed[r])
  PROVE  Asked' /\ Lines'
  <1>1. Asked'
    BY DEF Book, Asked
  <1>2. /\ pc'[r] = at
        /\ \A q \in Requests : q # r => pc'[q] = pc[q]
        /\ kind' = kind /\ rest' = rest /\ chain' = chain /\ failed' = failed
    BY DEF Book, Asked
  <1>3. ASSUME NEW q \in Requests
        PROVE  Line(pc'[q], kind'[q], rest'[q], chain'[q], failed'[q])
    <2>1. Line(pc[q], kind[q], rest[q], chain[q], failed[q])
      BY DEF Book, Lines
    <2> QED
      BY <1>2, <2>1
  <1> QED
    BY <1>1, <1>3 DEF Lines

LEMMA PlacesBook ==
  ASSUME Book, NEW r \in Requests,
         StaticFails(r) \/ Check(r) \/ NoneLeft(r) \/ Choose(r)
  PROVE  Book'
  <1>1. /\ kind[r] \in Kinds /\ since[r] \in 0..MaxTime /\ 0 \in 0..MaxTime
        /\ chain[r] \in Seq(Providers) /\ since = [since EXCEPT ![r] = since[r]]
        /\ Line(pc[r], kind[r], rest[r], chain[r], failed[r])
    BY AtBook, ProvidersAssumption
  <1>2. CASE StaticFails(r)
    <2>1. /\ kind[r] = "static" /\ pc' = [pc EXCEPT ![r] = "failed"]
          /\ UNCHANGED <<kind, since, rest, chain, failed>>
          /\ UNCHANGED <<now, until, activeLlm, activeEmbed, overlap, crossed>>
      BY <1>2 DEF StaticFails, At, stateVars, requestVars
    <2>2. Line("failed", kind[r], rest[r], chain[r], failed[r])
      BY <2>1 DEF Line
    <2>3. Asked' /\ Lines'
      BY <1>1, <2>1, <2>2, PlaceBook DEF Places
    <2> QED
      BY <2>1, <2>3 DEF Book, Shared
  <1>3. CASE Check(r)
    <2>1. /\ kind[r] # "static" /\ pc[r] = "trying" /\ pc' = [pc EXCEPT ![r] = "checking"]
          /\ rest[r] # <<>> /\ Head(rest[r]) \in Map(kind[r])
          /\ UNCHANGED <<kind, since, rest, chain, failed>>
          /\ UNCHANGED <<now, until, activeLlm, activeEmbed, overlap, crossed>>
      BY <1>3 DEF Check, Usable, At, stateVars, requestVars
    <2>2. Line("checking", kind[r], rest[r], chain[r], failed[r])
      BY <1>1, <2>1 DEF Line, Map
    <2>3. Asked' /\ Lines'
      BY <1>1, <2>1, <2>2, PlaceBook DEF Places
    <2> QED
      BY <2>1, <2>3 DEF Book, Shared
  <1>4. CASE NoneLeft(r)
    <2>1. /\ rest[r] = <<>> /\ chain[r] = <<>> /\ pc[r] = "trying" /\ pc' = [pc EXCEPT ![r] = "failed"]
          /\ UNCHANGED <<kind, since, rest, chain, failed>>
          /\ UNCHANGED <<now, until, activeLlm, activeEmbed, overlap, crossed>>
      BY <1>4 DEF NoneLeft, At, stateVars, requestVars
    <2>2. Line("failed", kind[r], rest[r], chain[r], failed[r])
      BY <1>1, <2>1 DEF Line
    <2>3. Asked' /\ Lines'
      BY <1>1, <2>1, <2>2, PlaceBook DEF Places
    <2> QED
      BY <2>1, <2>3 DEF Book, Shared
  <1>5. CASE Choose(r)
    <2>1. /\ rest[r] = <<>> /\ chain[r] # <<>> /\ pc[r] = "trying" /\ pc' = [pc EXCEPT ![r] = "ready"]
          /\ since' = [since EXCEPT ![r] = 0]
          /\ activeLlm' = IF kind[r] = "llm" THEN Head(chain[r]) ELSE activeLlm
          /\ UNCHANGED <<kind, rest, chain, failed>>
          /\ UNCHANGED <<now, until, activeEmbed, overlap, crossed>>
      BY <1>5 DEF Choose, At
    <2>2. Line("ready", kind[r], rest[r], chain[r], failed[r])
      BY <1>1, <2>1 DEF Line
    <2>3. Asked' /\ Lines'
      BY <1>1, <2>1, <2>2, PlaceBook DEF Places
    <2>4. Head(chain[r]) \in Providers
      BY <1>1, <2>1, TailElements
    <2> QED
      BY <2>1, <2>3, <2>4 DEF Book, Shared
  <1> QED
    BY <1>2, <1>3, <1>4, <1>5

LEMMA OverBook ==
  ASSUME Book, NEW r \in Requests, EmbedHealthy(r) \/ InvokeSucceeds(r) \/ Raise(r)
  PROVE  Book'
  <1>1. /\ pc' = [pc EXCEPT ![r] = "idle"] /\ kind' = [kind EXCEPT ![r] = "llm"]
        /\ since' = [since EXCEPT ![r] = 0] /\ rest' = [rest EXCEPT ![r] = <<>>]
        /\ chain' = [chain EXCEPT ![r] = <<>>] /\ failed' = [failed EXCEPT ![r] = {}]
    BY DEF EmbedHealthy, InvokeSucceeds, Raise, Over
  <1>2. Line("idle", "llm", <<>>, <<>>, {})
    BY Nothing DEF Line
  <1>3. 0 \in 0..MaxTime /\ <<>> \in Seq(Providers) /\ {} \in SUBSET Providers
    BY ProvidersAssumption, EmptySeq
  <1>4. Asked' /\ Lines'
    BY <1>1, <1>2, <1>3, MoveBook DEF Places, Kinds
  <1>5. Shared'
    <2>1. CASE EmbedHealthy(r)
      <3>1. Head(rest[r]) \in Providers
        BY <2>1, AtBook, TailElements DEF EmbedHealthy, Line
      <3> QED
        BY <2>1, <3>1 DEF EmbedHealthy, Book, Shared
    <2>2. CASE InvokeSucceeds(r) \/ Raise(r)
      BY <2>2 DEF InvokeSucceeds, Raise, stateVars, Book, Shared
    <2> QED
      BY <2>1, <2>2
  <1> QED
    BY <1>4, <1>5 DEF Book

\* The next provider: the last one failed, or joins the chain.
LEMMA NextBook ==
  ASSUME Book, NEW r \in Requests, pc[r] \in Asking, rest[r] # <<>>,
         NEW out, NextProvider(r, out),
         \/ out = {Head(rest[r])} /\ UNCHANGED chain
         \/ /\ out = {} /\ kind[r] # "embed"
            /\ kind[r] = "llm" => Head(rest[r]) \in LlmMap
            /\ chain' = [chain EXCEPT ![r] = Append(@, Head(rest[r]))]
  PROVE  Asked' /\ Lines'
  <1>1. /\ kind[r] \in Kinds /\ since[r] \in 0..MaxTime
        /\ rest[r] \in Seq(Providers) /\ chain[r] \in Seq(Providers) /\ failed[r] \in SUBSET Providers
        /\ Line(pc[r], kind[r], rest[r], chain[r], failed[r])
    BY AtBook
  <1>2. /\ Head(rest[r]) \in Providers /\ Tail(rest[r]) \in Seq(Providers)
        /\ Elements(rest[r]) = {Head(rest[r])} \cup Elements(Tail(rest[r]))
        /\ Once(rest[r]) => Once(Tail(rest[r])) /\ Head(rest[r]) \notin Elements(Tail(rest[r]))
    BY <1>1, TailElements
  <1> DEFINE able == IF out = {} THEN Append(chain[r], Head(rest[r])) ELSE chain[r]
             bad == failed[r] \cup out
  <1>3. /\ able \in Seq(Providers) /\ bad \in SUBSET Providers
        /\ chain' = [chain EXCEPT ![r] = able]
        /\ Elements(able) \cup out = Elements(chain[r]) \cup {Head(rest[r])}
        /\ kind[r] = "embed" => able = chain[r]
        /\ kind[r] = "llm" => Elements(able) \subseteq Elements(chain[r]) \cup ({Head(rest[r])} \cap LlmMap)
    <2>1. CASE out = {Head(rest[r])} /\ UNCHANGED chain
      <3>1. able = chain[r] /\ bad \in SUBSET Providers
        BY <1>1, <1>2, <2>1
      <3>2. chain' = [chain EXCEPT ![r] = chain[r]]
        BY <2>1, AtBook
      <3> HIDE DEF able, bad
      <3> QED
        BY <1>1, <2>1, <3>1, <3>2
    <2>2. CASE /\ out = {} /\ kind[r] # "embed"
               /\ kind[r] = "llm" => Head(rest[r]) \in LlmMap
               /\ chain' = [chain EXCEPT ![r] = Append(@, Head(rest[r]))]
      <3>1. able = Append(chain[r], Head(rest[r])) /\ bad = failed[r]
        BY <2>2
      <3>2. able \in Seq(Providers) /\ Elements(able) = Elements(chain[r]) \cup {Head(rest[r])}
        BY <1>1, <1>2, <3>1, AppendElements
      <3>3. chain' = [chain EXCEPT ![r] = able]
        BY <2>2, <3>1
      <3> HIDE DEF able, bad
      <3> QED
        BY <1>1, <2>2, <3>1, <3>2, <3>3
    <2> QED
      BY <2>1, <2>2
  <1>4. /\ pc' = [pc EXCEPT ![r] = "trying"] /\ rest' = [rest EXCEPT ![r] = Tail(rest[r])]
        /\ failed' = [failed EXCEPT ![r] = bad]
        /\ kind' = [kind EXCEPT ![r] = kind[r]] /\ since' = [since EXCEPT ![r] = since[r]]
    BY AtBook DEF NextProvider
  <1>5. bad = failed[r] \cup out
    OBVIOUS
  <1> HIDE DEF able, bad
  <1>6. Line("trying", kind[r], Tail(rest[r]), able, bad)
    BY <1>1, <1>2, <1>3, <1>5 DEF Line, Asking
  <1>7. "trying" \in Places
    BY DEF Places
  <1> QED
    BY <1>1, <1>2, <1>3, <1>4, <1>6, <1>7, MoveBook, Zenon

LEMMA SkipBook ==
  ASSUME Book, NEW r \in Requests, Skip(r)
  PROVE  Book'
  <1> DEFINE out == {Head(rest[r])}
  <1>1. /\ pc[r] \in Asking /\ rest[r] # <<>>
        /\ NextProvider(r, out) /\ out = {Head(rest[r])} /\ UNCHANGED chain
    BY DEF Skip, Asking
  <1> HIDE DEF out
  <1>2. Asked' /\ Lines'
    BY <1>1, NextBook
  <1>3. UNCHANGED <<now, until, activeLlm, activeEmbed, overlap, crossed>>
    BY DEF Skip, NextProvider, stateVars
  <1> QED
    BY <1>2, <1>3 DEF Book, Shared

\* What a cooldown that is written leaves of the shared state.
LEMMA CoolBook ==
  ASSUME Shared, NEW p \in Providers, NEW end \in 0..MaxTime + Cooldown,
         until' = [until EXCEPT ![p] = end], UNCHANGED <<now, overlap>>,
         activeLlm' \in {activeLlm, NoProvider}, activeEmbed' \in {activeEmbed, NoProvider},
         crossed' \in BOOLEAN
  PROVE  Shared'
  <1>1. until' \in [Providers -> 0..MaxTime + Cooldown]
    BY DEF Shared
  <1> QED
    BY <1>1 DEF Shared

LEMMA FailsBook ==
  ASSUME Book, NEW r \in Requests,
         InitFails(r) \/ EmbedUnhealthy(r) \/ \E limited \in BOOLEAN : Unwind(r, limited)
  PROVE  Book'
  <1> DEFINE p == Head(rest[r])
             end == since[r] + Cooldown
  <1>1. /\ rest[r] \in Seq(Providers) /\ since[r] \in 0..MaxTime
        /\ pc[r] \in {"checking", "unwinding"} => rest[r] # <<>>
    BY AtBook DEF Line
  <1>2. /\ pc[r] \in Asking /\ rest[r] # <<>>
        /\ NextProvider(r, {p}) /\ UNCHANGED chain
    BY <1>1 DEF InitFails, EmbedUnhealthy, Unwind, Asking
  <1>3. Asked' /\ Lines'
    <2> DEFINE out == {p}
    <2>1. NextProvider(r, out) /\ out = {Head(rest[r])}
      BY <1>2
    <2> HIDE DEF out
    <2> QED
      BY <1>2, <2>1, NextBook
  <1>4. p \in Providers
    BY <1>1, <1>2, TailElements
  <1>5. UNCHANGED <<now, overlap>>
    BY <1>2 DEF NextProvider
  <1>6. end \in 0..MaxTime + Cooldown /\ Shared
    BY <1>1, ProvidersAssumption DEF Book, Shared
  <1>7. \/ UNCHANGED <<stateVars, crossed>>
        \/ EmbedFails(r, p)
        \/ /\ until' = [until EXCEPT ![p] = end]
           /\ UNCHANGED <<activeLlm, activeEmbed, crossed>>
    <2>1. CASE InitFails(r)
      BY <2>1 DEF InitFails
    <2>2. CASE EmbedUnhealthy(r)
      BY <2>2 DEF EmbedUnhealthy
    <2>3. CASE \E limited \in BOOLEAN : Unwind(r, limited)
      BY <2>3 DEF Unwind, stateVars
    <2> QED
      BY <2>1, <2>2, <2>3
  <1>8. Shared'
    <2>1. CASE UNCHANGED <<stateVars, crossed>>
      BY <1>5, <1>6, <2>1 DEF Shared, stateVars
    <2>2. CASE EmbedFails(r, p)
      <3>1. crossed' \in BOOLEAN
        BY <1>6, <2>2 DEF EmbedFails, Shared
      <3>2. /\ until' = [until EXCEPT ![p] = end]
            /\ activeLlm' \in {activeLlm, NoProvider} /\ activeEmbed' \in {activeEmbed, NoProvider}
        BY <2>2 DEF EmbedFails, Without
      <3> HIDE DEF p, end
      <3> QED
        BY <1>4, <1>5, <1>6, <3>1, <3>2, CoolBook
    <2>3. CASE /\ until' = [until EXCEPT ![p] = end]
               /\ UNCHANGED <<activeLlm, activeEmbed, crossed>>
      <3>1. crossed' \in BOOLEAN
        BY <1>6, <2>3 DEF Shared
      <3> HIDE DEF p, end
      <3> QED
        BY <1>4, <1>5, <1>6, <2>3, <3>1, CoolBook
    <2> QED
      BY <1>7, <2>1, <2>2, <2>3
  <1> QED
    BY <1>3, <1>8 DEF Book

LEMMA UnhealthyBook ==
  ASSUME Book, NEW r \in Requests, Unhealthy(r)
  PROVE  Book'
  <1> DEFINE p == Head(rest[r])
  <1>1. /\ kind[r] = "llm" /\ pc[r] = "checking" /\ pc' = [pc EXCEPT ![r] = "unwinding"]
        /\ LlmFails(p, now + Cooldown)
        /\ UNCHANGED <<now, kind, since, rest, chain, failed, overlap, crossed>>
    BY DEF Unhealthy, At, requestVars
  <1>2. /\ rest[r] \in Seq(Providers) /\ since[r] \in 0..MaxTime
        /\ since' = [since EXCEPT ![r] = since[r]]
        /\ Line("checking", kind[r], rest[r], chain[r], failed[r])
    BY <1>1, AtBook
  <1>3. Line("unwinding", kind[r], rest[r], chain[r], failed[r])
    BY <1>2 DEF Line
  <1>4. "unwinding" \in Places
    BY DEF Places
  <1>5. Asked' /\ Lines'
    BY <1>1, <1>2, <1>3, <1>4, PlaceBook
  <1>6. p \in Providers
    BY <1>2, TailElements DEF Line
  <1>7. /\ Shared /\ now + Cooldown \in 0..MaxTime + Cooldown /\ crossed' \in BOOLEAN
        /\ until' = [until EXCEPT ![p] = now + Cooldown]
        /\ activeLlm' \in {activeLlm, NoProvider} /\ activeEmbed' \in {activeEmbed, NoProvider}
    BY <1>1, ProvidersAssumption DEF Book, Shared, LlmFails, Without
  <1> HIDE DEF p
  <1> QED
    BY <1>1, <1>5, <1>6, <1>7, CoolBook DEF Book

LEMMA HealthyBook ==
  ASSUME Book, NEW r \in Requests, Healthy(r)
  PROVE  Book'
  <1>1. /\ pc[r] \in Asking /\ rest[r] # <<>>
        /\ kind[r] = "llm" => Head(rest[r]) \in LlmMap
    BY AtBook DEF Healthy, Taken, Line, Asking
  <1>2. /\ kind[r] # "embed" /\ NextProvider(r, {})
        /\ chain' = [chain EXCEPT ![r] = Append(@, Head(rest[r]))]
        /\ UNCHANGED <<now, until, activeLlm, activeEmbed, overlap, crossed>>
    BY DEF Healthy, NextProvider, stateVars
  <1>3. Asked' /\ Lines'
    <2> DEFINE out == {}
    <2>1. NextProvider(r, out) /\ out = {}
      BY <1>2
    <2> HIDE DEF out
    <2> QED
      BY <1>1, <1>2, <2>1, NextBook
  <1> QED
    BY <1>2, <1>3 DEF Book, Shared

LEMMA InvokeFailsBook ==
  ASSUME Book, NEW r \in Requests, InvokeFails(r)
  PROVE  Book'
  <1> DEFINE p == Head(chain[r])
             at == IF Len(chain[r]) = 1 THEN "failed" ELSE "ready"
             able == Tail(chain[r])
             bad == failed[r] \cup {p}
  <1>1. /\ kind[r] \in Kinds /\ since[r] \in 0..MaxTime
        /\ rest[r] \in Seq(Providers) /\ chain[r] \in Seq(Providers) /\ failed[r] \in SUBSET Providers
        /\ Line(pc[r], kind[r], rest[r], chain[r], failed[r])
    BY AtBook
  <1>2. pc[r] = "ready" /\ chain[r] # <<>> /\ rest[r] = <<>>
    BY <1>1 DEF InvokeFails, At, Line
  <1>3. /\ p \in Providers /\ able \in Seq(Providers)
        /\ Len(chain[r]) = 1 <=> able = <<>>
        /\ Elements(chain[r]) = {p} \cup Elements(able)
    BY <1>1, <1>2, TailElements
  <1>4. bad \in SUBSET Providers
    BY <1>1, <1>3
  <1>5. at \in {"ready", "failed"} /\ (at = "failed" <=> able = <<>>)
    BY <1>3
  <1>6. /\ pc' = [pc EXCEPT ![r] = at] /\ chain' = [chain EXCEPT ![r] = able]
        /\ failed' = [failed EXCEPT ![r] = bad]
        /\ kind' = [kind EXCEPT ![r] = kind[r]] /\ since' = [since EXCEPT ![r] = since[r]]
        /\ rest' = [rest EXCEPT ![r] = rest[r]]
    BY AtBook DEF InvokeFails, At
  <1>7. Elements(rest[r]) = {} /\ bad = failed[r] \cup {p}
    BY <1>2, Nothing
  <1>8. Shared'
    <2>1. Shared /\ UNCHANGED <<now, overlap, crossed>>
      BY DEF Book, InvokeFails
    <2>2. CASE kind[r] = "llm"
      <3>1. LlmFails(p, now + Cooldown)
        BY <2>2 DEF InvokeFails
      <3> HIDE DEF p
      <3>2. /\ now + Cooldown \in 0..MaxTime + Cooldown /\ crossed' \in BOOLEAN
            /\ until' = [until EXCEPT ![p] = now + Cooldown]
            /\ activeLlm' \in {activeLlm, NoProvider} /\ activeEmbed' \in {activeEmbed, NoProvider}
        BY <2>1, <3>1, ProvidersAssumption DEF Shared, LlmFails, Without
      <3> QED
        BY <1>3, <2>1, <3>2, CoolBook
    <2>3. CASE kind[r] # "llm"
      BY <2>1, <2>3 DEF InvokeFails, stateVars, Shared
    <2> QED
      BY <2>2, <2>3
  <1> HIDE DEF p, at, able, bad
  <1>9. Line(at, kind[r], rest[r], able, bad)
    <2>1. kind[r] # "embed"
      BY <1>1, <1>2 DEF Line
    <2> QED
      BY <1>1, <1>2, <1>3, <1>5, <1>7, <2>1 DEF Line
  <1>10. at \in Places
    BY <1>5 DEF Places
  <1>11. Asked' /\ Lines'
    BY <1>1, <1>3, <1>4, <1>6, <1>9, <1>10, MoveBook, Zenon
  <1> QED
    BY <1>8, <1>11 DEF Book

LEMMA NextBookStep == Book /\ [Next]_vars => Book'
  <1> SUFFICES ASSUME Book, [Next]_vars
               PROVE  Book'
    OBVIOUS
  <1>1. CASE UNCHANGED vars
    BY <1>1 DEF vars, stateVars, requestVars, Book, Shared, Asked, Lines
  <1>2. CASE Tick
    <2>1. now' \in 0..MaxTime
      BY <1>2, ProvidersAssumption DEF Tick, Book, Shared
    <2>2. UNCHANGED <<stateVars, pc, requestVars, overlap, crossed>>
      BY <1>2 DEF Tick
    <2>3. Shared'
      BY <2>1, <2>2 DEF stateVars, Book, Shared
    <2> QED
      BY <2>2, <2>3 DEF requestVars, Book, Asked, Lines
  <1>3. ASSUME NEW r \in Requests, \E k \in {"llm", "embed", "static"} : Begin(r, k)
        PROVE  Book'
    BY <1>3, BeginBook DEF Kinds
  <1>4. ASSUME NEW r \in Requests, Trying(r) \/ Invoking(r) \/ Raise(r)
        PROVE  Book'
    BY <1>4, SkipBook, FailsBook, UnhealthyBook, PlacesBook, HealthyBook, OverBook, InvokeFailsBook
       DEF Trying, Invoking
  <1> QED
    BY <1>1, <1>2, <1>3, <1>4 DEF Next

LEMMA Books == Spec => []Book
  <1> QED
    BY InitBook, NextBookStep, PTL DEF Spec

\* The manager's state and the requests keep their types for any lists of providers:
\* a cooldown never ends later than Cooldown after the clock's bound, and what a
\* request tries next, adopts as active provider or invokes is always a provider.
THEOREM TypeCorrect == Spec => []TypeOK
  <1>1. Book => TypeOK
    BY DEF Book, Shared, Asked, Places, Kinds, Busy, TypeOK
  <1> QED
    BY <1>1, Books, PTL

\* However requests interleave and whatever fails, one fails as a whole only when every
\* provider of its list has failed it, was cooling down or was not set up: the loops of
\* get_auto_llm and get_auto_embed_model and the fallbacks never drop a provider.
THEOREM FailuresHaveCauses == Spec => []FailedHasCause
  <1>1. Book => FailedHasCause
    <2> SUFFICES ASSUME Book, NEW r \in Requests, pc[r] = "failed"
                 PROVE  /\ kind[r] = "llm" => Elements(LlmPriority) \subseteq failed[r]
                        /\ kind[r] = "embed" => Elements(EmbedPriority) \subseteq failed[r]
      BY DEF FailedHasCause
    <2>1. Line(pc[r], kind[r], rest[r], chain[r], failed[r])
      BY AtBook
    <2>2. kind[r] # "static" => Elements(rest[r]) = {} /\ Elements(chain[r]) = {}
      BY <2>1, Nothing DEF Line
    <2> QED
      BY <2>1, <2>2 DEF Line
  <1> QED
    BY <1>1, Books, PTL

-------------------------------------------------------------------------------
(* The active provider *)

ActiveKnown == activeLlm # NoProvider => activeLlm \in LlmMap

\* Until requests overlap, the second write of a health check finds its provider no
\* longer active: the first has cleared it.
Cleared == ~overlap => \A r \in Requests : pc[r] = "unwinding" => activeLlm # Head(rest[r])

LEMMA InitCleared == Init => Cleared
  BY DEF Init, Cleared

LEMMA MoveCleared ==
  ASSUME Inv, Cleared, NEW r \in Requests,
         overlap => overlap',
         \A q \in Requests : q # r => pc'[q] = pc[q] /\ rest'[q] = rest[q],
         activeLlm' = activeLlm \/ pc[r] \in Busy,
         pc'[r] = "unwinding" => activeLlm' # Head(rest'[r])
  PROVE  Cleared'
  <1> SUFFICES ASSUME ~overlap', NEW q \in Requests, pc'[q] = "unwinding"
               PROVE  activeLlm' # Head(rest'[q])
    BY DEF Cleared
  <1>1. CASE q = r
    BY <1>1
  <1>2. CASE q # r
    <2>1. pc[q] = "unwinding" /\ rest'[q] = rest[q]
      BY <1>2
    <2>2. activeLlm' = activeLlm
      BY <1>2, <2>1 DEF Inv, Alone, Busy
    <2> QED
      BY <2>1, <2>2 DEF Cleared
  <1> QED
    BY <1>1, <1>2

LEMMA StepCleared ==
  ASSUME Inv, Book, Cleared, NEW r \in Requests,
         \/ \E k \in {"llm", "embed", "static"} : Begin(r, k)
         \/ Trying(r) \/ Invoking(r) \/ Raise(r)
  PROVE  Cleared'
  <1> USE DEF At, stateVars, requestVars, Inv, Numbers, Book, Asked
  <1>1. CASE \E k \in {"llm", "embed", "static"} : Begin(r, k)
    <2>1. /\ overlap => overlap'
          /\ pc' = [pc EXCEPT ![r] = "trying"] /\ activeLlm' = activeLlm
          /\ \E list : rest' = [rest EXCEPT ![r] = list]
      BY <1>1 DEF Begin
    <2> QED
      BY <2>1, MoveCleared
  <1>2. CASE Skip(r) \/ InitFails(r) \/ Healthy(r) \/ EmbedUnhealthy(r)
             \/ \E limited \in BOOLEAN : Unwind(r, limited)
    <2>1. /\ pc' = [pc EXCEPT ![r] = "trying"] /\ rest' = [rest EXCEPT ![r] = Tail(@)]
          /\ overlap' = overlap
      BY <1>2 DEF Skip, InitFails, Healthy, EmbedUnhealthy, Unwind, NextProvider
    <2>2. activeLlm' = activeLlm
      BY <1>2 DEF Skip, InitFails, Healthy, EmbedUnhealthy, Unwind, EmbedFails
    <2> QED
      BY <2>1, <2>2, MoveCleared
  <1>3. CASE StaticFails(r) \/ Check(r) \/ NoneLeft(r) \/ Choose(r) \/ InvokeFails(r)
    <2>1. \E to \in {"failed", "checking", "ready"} : pc' = [pc EXCEPT ![r] = to]
      BY <1>3 DEF StaticFails, Check, NoneLeft, Choose, InvokeFails
    <2>2. rest' = rest /\ overlap' = overlap /\ pc[r] \in Busy
      BY <1>3 DEF StaticFails, Check, NoneLeft, Choose, InvokeFails, Busy
    <2> QED
      BY <2>1, <2>2, MoveCleared
  <1>4. CASE EmbedHealthy(r) \/ InvokeSucceeds(r) \/ Raise(r)
    <2>1. /\ pc' = [pc EXCEPT ![r] = "idle"] /\ rest' = [rest EXCEPT ![r] = <<>>]
          /\ activeLlm' = activeLlm /\ overlap' = overlap
      BY <1>4 DEF EmbedHealthy, InvokeSucceeds, Raise, Over
    <2> QED
      BY <2>1, MoveCleared
  <1>5. CASE Unhealthy(r)
    <2>1. /\ pc[r] = "checking" /\ pc' = [pc EXCEPT ![r] = "unwinding"]
          /\ rest' = rest /\ overlap' = overlap
          /\ activeLlm' = Without(Head(rest[r]), activeLlm)
      BY <1>5 DEF Unhealthy, LlmFails
    <2>2. Head(rest[r]) \in Providers
      BY <2>1, AtBook, TailElements DEF Line
    <2>3. activeLlm' # Head(rest[r])
      BY <2>1, <2>2, ProvidersAssumption DEF Without
    <2>4. pc[r] \in Busy
      BY <2>1 DEF Busy
    <2> QED
      BY <2>1, <2>3, <2>4, MoveCleared
  <1> QED
    BY <1>1, <1>2, <1>3, <1>4, <1>5 DEF Trying, Invoking

LEMMA NextCleared == Inv /\ Book /\ Cleared /\ [Next]_vars => Cleared'
  <1> SUFFICES ASSUME Inv, Book, Cleared, [Next]_vars
               PROVE  Cleared'
    OBVIOUS
  <1>1. CASE UNCHANGED vars \/ Tick
    BY <1>1 DEF Tick, vars, stateVars, requestVars, Cleared
  <1> QED
    BY <1>1, StepCleared DEF Next

\* Until requests overlap, none of the providers that answered a request's health
\* check cools down as far as the request knows.
ChainFresh == ~overlap => \A r \in Requests :
    kind[r] = "llm" /\ pc[r] \in Asking =>
        \A p \in Elements(chain[r]) : until[p] <= since[r]

Fresh == ActiveKnown /\ ChainFresh /\ ActiveCoolingHasCause

LEMMA InitFresh == Init => Fresh
  BY DEF Asking, Init, Fresh, ActiveKnown, ChainFresh, ActiveCoolingHasCause

\* The chains stay fresh if that of the request that moves does: until requests
\* overlap, no other has a chain when it writes a cooldown.
LEMMA MoveFresh ==
  ASSUME Inv, ChainFresh, NEW r \in Requests,
         overlap => overlap',
         \A q \in Requests : q # r => /\ pc'[q] = pc[q] /\ kind'[q] = kind[q]
                                     /\ since'[q] = since[q] /\ chain'[q] = chain[q],
         until' = until \/ pc[r] \in Busy,
         ~overlap /\ kind'[r] = "llm" /\ pc'[r] \in Asking =>
             \A p \in Elements(chain'[r]) : until'[p] <= since'[r]
  PROVE  ChainFresh'
  <1> SUFFICES ASSUME ~overlap', NEW q \in Requests,
                      kind'[q] = "llm", pc'[q] \in Asking,
                      NEW p \in Elements(chain'[q])
               PROVE  until'[p] <= since'[q]
    BY DEF ChainFresh
  <1>1. CASE q = r
    BY <1>1
  <1>2. CASE q # r
    <2>1. pc[q] = pc'[q] /\ kind[q] = "llm" /\ since'[q] = since[q] /\ p \in Elements(chain[q])
      BY <1>2
    <2>2. until' = until
      BY <1>2, <2>1 DEF Asking, Inv, Alone, Busy
    <2> QED
      BY <2>1, <2>2 DEF ChainFresh
  <1> QED
    BY <1>1, <1>2

\* The steps of a request that leave the cooldowns and the active provider alone.
LEMMA CalmFresh ==
  ASSUME Inv, Book, Fresh, NEW r \in Requests, UNCHANGED <<now, until, activeLlm>>,
         overlap => overlap', crossed => crossed',
         \A q \in Requests : q # r => /\ pc'[q] = pc[q] /\ kind'[q] = kind[q]
                                     /\ since'[q] = since[q] /\ chain'[q] = chain[q],
         ~overlap /\ kind'[r] = "llm" /\ pc'[r] \in Asking =>
             \A p \in Elements(chain'[r]) : until'[p] <= since'[r]
  PROVE  Fresh'
  <1>1. ChainFresh'
    BY MoveFresh DEF Fresh
  <1> QED
    BY <1>1 DEF Fresh, ActiveKnown, ActiveCoolingHasCause

LEMMA CalmStepsFresh ==
  ASSUME Inv, Book, Fresh, NEW r \in Requests,
         \/ \E k \in {"llm", "embed", "static"} : Begin(r, k)
         \/ Skip(r) \/ StaticFails(r) \/ Check(r) \/ NoneLeft(r)
         \/ EmbedHealthy(r) \/ InvokeSucceeds(r) \/ Raise(r)
  PROVE  Fresh'
  <1>1. /\ UNCHANGED <<now, until, activeLlm>> /\ (overlap => overlap') /\ (crossed => crossed')
        /\ \A q \in Requests : q # r => /\ pc'[q] = pc[q] /\ kind'[q] = kind[q]
                                       /\ since'[q] = since[q] /\ chain'[q] = chain[q]
    <2> USE DEF At, stateVars, requestVars, Inv, Numbers, Book, Asked
    <2>1. CASE \E k \in {"llm", "embed", "static"} : Begin(r, k)
      <3>1. overlap => overlap'
        BY <2>1 DEF Begin
      <3>2. PICK k \in {"llm", "embed", "static"} :
                /\ pc' = [pc EXCEPT ![r] = "trying"] /\ kind' = [kind EXCEPT ![r] = k]
                /\ since' = [since EXCEPT ![r] = IF k = "static" THEN 0 ELSE now]
                /\ UNCHANGED <<now, until, activeLlm, chain, crossed>>
        BY <2>1 DEF Begin
      <3> QED
        BY <3>1, <3>2
    <2>2. CASE Skip(r)
      BY <2>2 DEF Skip, NextProvider
    <2>3. CASE StaticFails(r) \/ Check(r) \/ NoneLeft(r)
      <3>1. /\ \E to : pc' = [pc EXCEPT ![r] = to]
            /\ UNCHANGED <<now, until, activeLlm, overlap, crossed, kind, since, chain>>
        BY <2>3 DEF StaticFails, Check, NoneLeft
      <3> QED
        BY <3>1
    <2>4. CASE EmbedHealthy(r) \/ InvokeSucceeds(r) \/ Raise(r)
      BY <2>4 DEF EmbedHealthy, InvokeSucceeds, Raise, Over
    <2> QED
      BY <2>1, <2>2, <2>3, <2>4
  <1>2. ASSUME ~overlap, kind'[r] = "llm", pc'[r] \in Asking,
               NEW p \in Elements(chain'[r])
        PROVE  until'[p] <= since'[r]
    <2>1. CASE \E k \in {"llm", "embed", "static"} : Begin(r, k)
      <3>1. pc[r] = "idle" /\ chain' = chain
        BY <2>1 DEF Begin, At
      <3>2. Elements(chain[r]) = {}
        BY <3>1, AtBook, Nothing DEF Line
      <3> QED
        BY <1>2, <3>1, <3>2
    <2>2. CASE Skip(r) \/ StaticFails(r) \/ Check(r) \/ NoneLeft(r)
      <3>1. pc[r] = "trying" /\ UNCHANGED <<kind, since, chain>>
        BY <2>2 DEF Skip, StaticFails, Check, NoneLeft, At, NextProvider, requestVars
      <3> QED
        BY <1>1, <1>2, <3>1 DEF Asking, Fresh, ChainFresh
    <2>3. CASE EmbedHealthy(r) \/ InvokeSucceeds(r) \/ Raise(r)
      <3>1. pc' = [pc EXCEPT ![r] = "idle"]
        BY <2>3 DEF EmbedHealthy, InvokeSucceeds, Raise, Over
      <3> QED
        BY <1>2, <3>1 DEF Asking, Inv, Numbers
    <2> QED
      BY <2>1, <2>2, <2>3
  <1> QED
    BY <1>1, <1>2, CalmFresh

LEMMA HealthyFresh ==
  ASSUME Inv, Book, Fresh, NEW r \in Requests, Healthy(r)
  PROVE  Fresh'
  <1> DEFINE p == Head(rest[r])
  <1>1. /\ UNCHANGED <<now, until, activeLlm, overlap, crossed, kind, since>>
        /\ pc' = [pc EXCEPT ![r] = "trying"] /\ chain' = [chain EXCEPT ![r] = Append(chain[r], p)]
    BY DEF Healthy, NextProvider, stateVars
  <1>2. kind[r] = "llm" => pc[r] = "checking"
    BY DEF Healthy, Taken
  <1>3. ASSUME ~overlap, kind'[r] = "llm"
        PROVE  \A q \in Elements(chain'[r]) : until'[q] <= since'[r]
    <2>1. pc[r] = "checking" /\ kind[r] = "llm"
      BY <1>1, <1>2, <1>3
    <2>2. p \in Providers /\ chain[r] \in Seq(Providers)
      <3>1. rest[r] \in Seq(Providers) /\ rest[r] # <<>> /\ chain[r] \in Seq(Providers)
        BY <2>1, AtBook DEF Line
      <3> QED
        BY <3>1, TailElements
    <2>3. until[p] <= since[r]
      BY <1>3, <2>1, <2>2 DEF Inv, Alone
    <2>4. chain'[r] = Append(chain[r], p)
      BY <1>1 DEF Book, Asked
    <2>5. Elements(Append(chain[r], p)) = Elements(chain[r]) \cup {p}
      BY <2>2, AppendElements
    <2>6. \A q \in Elements(chain[r]) : until[q] <= since[r]
      BY <1>3, <2>1 DEF Asking, Fresh, ChainFresh
    <2> QED
      BY <1>1, <2>3, <2>4, <2>5, <2>6
  <1>4. \A q \in Requests : q # r => /\ pc'[q] = pc[q] /\ kind'[q] = kind[q]
                                    /\ since'[q] = since[q] /\ chain'[q] = chain[q]
    BY <1>1 DEF Inv, Numbers, Book, Asked
  <1> QED
    BY <1>1, <1>3, <1>4, CalmFresh

\* The provider that becomes the active one was healthy when it was asked.
LEMMA ChooseFresh ==
  ASSUME Inv, Book, Fresh, NEW r \in Requests, Choose(r)
  PROVE  Fresh'
  <1>1. /\ chain[r] # <<>> /\ pc[r] = "trying" /\ pc' = [pc EXCEPT ![r] = "ready"]
        /\ activeLlm' = (IF kind[r] = "llm" THEN Head(chain[r]) ELSE activeLlm)
        /\ since' = [since EXCEPT ![r] = 0]
        /\ UNCHANGED <<now, until, kind, chain, overlap, crossed>>
    BY DEF Choose, At
  <1>2. pc'[r] = "ready" /\ \A q \in Requests : q # r => /\ pc'[q] = pc[q] /\ kind'[q] = kind[q]
                                                        /\ since'[q] = since[q] /\ chain'[q] = chain[q]
    BY <1>1 DEF Inv, Numbers
  <1>3. ChainFresh'
    BY <1>1, <1>2, MoveFresh DEF Asking, Fresh
  <1>4. CASE kind[r] = "llm"
    <2>1. Head(chain[r]) \in Elements(chain[r]) /\ Head(chain[r]) \in Providers
      BY <1>1, AtBook, TailElements
    <2>2. Elements(chain[r]) \subseteq LlmMap
      BY <1>4, AtBook DEF Line
    <2>3. ~overlap => until[Head(chain[r])] <= now
      <3>1. ~overlap => until[Head(chain[r])] <= since[r]
        BY <1>1, <1>4, <2>1 DEF Asking, Fresh, ChainFresh
      <3>2. /\ since[r] \in Nat /\ now \in Nat /\ until[Head(chain[r])] \in Nat
            /\ since[r] <= now
        BY <2>1 DEF Inv, Numbers, Reach
      <3> QED
        BY <3>1, <3>2
    <2>4. until[Head(chain[r])] \in Nat /\ now \in Nat
      BY <2>1 DEF Inv, Numbers
    <2> QED
      BY <1>1, <1>3, <1>4, <2>1, <2>2, <2>3, <2>4 DEF Fresh, ActiveKnown, ActiveCoolingHasCause
  <1>5. CASE kind[r] # "llm"
    BY <1>1, <1>3, <1>5 DEF Fresh, ActiveKnown, ActiveCoolingHasCause
  <1> QED
    BY <1>4, <1>5

\* The active provider after p fails: it is not p, or the failure was that of an
\* embedding request.
LEMMA LlmFailsActive ==
  ASSUME Inv, Shared, Fresh, NEW p \in Providers, NEW end, LlmFails(p, end),
         UNCHANGED <<now, overlap, crossed>>
  PROVE  ActiveKnown' /\ ActiveCoolingHasCause'
  <1>1. /\ until' = [until EXCEPT ![p] = end]
        /\ activeLlm' # NoProvider => activeLlm' = activeLlm /\ activeLlm # p
    BY DEF LlmFails, Without
  <1>2. ASSUME activeLlm' # NoProvider
        PROVE  activeLlm' = activeLlm /\ activeLlm \in Providers /\ until'[activeLlm] = until[activeLlm]
    BY <1>1, <1>2 DEF Shared
  <1> QED
    BY <1>2 DEF Fresh, ActiveKnown, ActiveCoolingHasCause

LEMMA EmbedFailsActive ==
  ASSUME Inv, Shared, Fresh, NEW r, NEW p \in Providers, EmbedFails(r, p),
         UNCHANGED <<now, overlap>>
  PROVE  ActiveKnown' /\ ActiveCoolingHasCause'
  <1>1. /\ until' = [until EXCEPT ![p] = since[r] + Cooldown] /\ activeLlm' = activeLlm
        /\ crossed' = (crossed \/ p \in LlmMap)
    BY DEF EmbedFails
  <1>2. CASE activeLlm = p
    BY <1>1, <1>2 DEF Fresh, ActiveKnown, ActiveCoolingHasCause
  <1>3. CASE activeLlm # p
    <2>1. activeLlm # NoProvider => until'[activeLlm] = until[activeLlm]
      BY <1>1, <1>3 DEF Shared
    <2> QED
      BY <1>1, <2>1 DEF Fresh, ActiveKnown, ActiveCoolingHasCause
  <1> QED
    BY <1>2, <1>3

\* A health check's second write cools down a provider that the first has cleared.
LEMMA UnwindActive ==
  ASSUME Inv, Shared, Fresh, NEW p, NEW end,
         until' = until \/ until' = [until EXCEPT ![p] = end],
         ~overlap => activeLlm # p, UNCHANGED <<now, activeLlm, overlap, crossed>>
  PROVE  ActiveKnown' /\ ActiveCoolingHasCause'
  <1>1. ~overlap /\ activeLlm # NoProvider => until'[activeLlm] = until[activeLlm]
    BY DEF Shared
  <1> QED
    BY <1>1 DEF Fresh, ActiveKnown, ActiveCoolingHasCause

LEMMA FailsFresh ==
  ASSUME Inv, Book, Cleared, Fresh, NEW r \in Requests,
         \/ InitFails(r) \/ Unhealthy(r) \/ EmbedUnhealthy(r)
         \/ \E limited \in BOOLEAN : Unwind(r, limited)
  PROVE  Fresh'
  <1> DEFINE p == Head(rest[r])
  <1>1. /\ rest[r] \in Seq(Providers) /\ Line(pc[r], kind[r], rest[r], chain[r], failed[r])
        /\ pc[r] \in {"checking", "unwinding"} => rest[r] # <<>>
    BY AtBook DEF Line
  <1>2. /\ pc[r] \in Asking /\ rest[r] # <<>>
        /\ \E to \in {"trying", "unwinding"} : pc' = [pc EXCEPT ![r] = to]
        /\ UNCHANGED <<now, kind, since, chain, overlap>>
    <2>1. CASE InitFails(r) \/ EmbedUnhealthy(r) \/ \E limited \in BOOLEAN : Unwind(r, limited)
      BY <1>1, <2>1 DEF InitFails, EmbedUnhealthy, Unwind, NextProvider, Asking
    <2>2. CASE Unhealthy(r)
      BY <1>1, <2>2 DEF Unhealthy, At, requestVars, Asking
    <2> QED
      BY <2>1, <2>2
  <1>3. p \in Providers /\ p \in Elements(rest[r])
    BY <1>1, <1>2, TailElements
  <1>4. \/ kind[r] # "embed" /\ UNCHANGED <<stateVars, crossed>>
        \/ kind[r] = "embed" /\ EmbedFails(r, p)
        \/ \E end : LlmFails(p, end) /\ UNCHANGED crossed
        \/ /\ until' = until \/ \E end : until' = [until EXCEPT ![p] = end]
           /\ UNCHANGED <<activeLlm, crossed>>
           /\ ~overlap => activeLlm # p
    <2>1. CASE InitFails(r)
      BY <2>1 DEF InitFails
    <2>2. CASE Unhealthy(r)
      BY <2>2 DEF Unhealthy
    <2>3. CASE EmbedUnhealthy(r)
      BY <2>3 DEF EmbedUnhealthy
    <2>4. CASE \E limited \in BOOLEAN : Unwind(r, limited)
      BY <2>4 DEF Unwind, Cleared
    <2> QED
      BY <2>1, <2>2, <2>3, <2>4
  <1>5. kind[r] = "llm" => p \notin Elements(chain[r])
    BY <1>1, <1>3 DEF Line
  <1>6. Shared
    BY DEF Book
  <1> HIDE DEF p
  <1>7. ActiveKnown' /\ ActiveCoolingHasCause'
    <2>1. CASE UNCHANGED <<stateVars, crossed>>
      BY <1>2, <2>1 DEF stateVars, Fresh, ActiveKnown, ActiveCoolingHasCause
    <2>2. CASE EmbedFails(r, p)
      BY <1>2, <1>3, <1>6, <2>2, EmbedFailsActive
    <2>3. CASE \E end : LlmFails(p, end) /\ UNCHANGED crossed
      BY <1>2, <1>3, <1>6, <2>3, LlmFailsActive
    <2>4. CASE /\ until' = until \/ \E end : until' = [until EXCEPT ![p] = end]
               /\ UNCHANGED <<activeLlm, crossed>>
               /\ ~overlap => activeLlm # p
      BY <1>2, <1>6, <2>4, UnwindActive
    <2> QED
      BY <1>4, <2>1, <2>2, <2>3, <2>4
  <1>8. ASSUME ~overlap, kind[r] = "llm"
        PROVE  \A q \in Elements(chain[r]) : until'[q] <= since[r]
    <2>1. until' = until \/ \E end : until' = [until EXCEPT ![p] = end]
      BY <1>4 DEF stateVars, EmbedFails, LlmFails
    <2>2. \A q \in Elements(chain[r]) : until'[q] = until[q]
      <3>1. chain[r] \in Seq(Providers)
        BY AtBook
      <3>2. \A q \in Elements(chain[r]) : q \in Providers
        BY <3>1, LenProperties, ElementOfSeq DEF Elements
      <3> QED
        BY <1>5, <1>8, <2>1, <3>2 DEF Inv, Numbers
    <2> QED
      BY <1>2, <1>8, <2>2 DEF Fresh, ChainFresh
  <1>9. pc[r] \in Busy /\ \A q \in Requests : q # r => pc'[q] = pc[q]
    BY <1>2 DEF Asking, Busy, Inv, Numbers
  <1>10. ChainFresh'
    BY <1>2, <1>8, <1>9, MoveFresh DEF Fresh
  <1> QED
    BY <1>7, <1>10 DEF Fresh

LEMMA InvokeFailsFresh ==
  ASSUME Inv, Book, Fresh, NEW r \in Requests, InvokeFails(r)
  PROVE  Fresh'
  <1> DEFINE p == Head(chain[r])
  <1>1. /\ pc[r] = "ready" /\ UNCHANGED <<now, kind, since, rest, overlap, crossed>>
        /\ chain' = [chain EXCEPT ![r] = Tail(chain[r])]
    BY DEF InvokeFails, At
  <1>2. PICK to \in {"ready", "failed"} : pc' = [pc EXCEPT ![r] = to]
    BY DEF InvokeFails, At
  <1>3. p \in Providers
    BY <1>1, AtBook, TailElements DEF Line
  <1>4. Shared
    BY DEF Book
  <1>5. LlmFails(p, now + Cooldown) \/ UNCHANGED stateVars
    BY DEF InvokeFails
  <1> HIDE DEF p
  <1>6. ActiveKnown' /\ ActiveCoolingHasCause'
    <2>1. CASE LlmFails(p, now + Cooldown)
      BY <1>1, <1>3, <1>4, <2>1, LlmFailsActive
    <2>2. CASE UNCHANGED stateVars
      BY <1>1, <2>2 DEF stateVars, Fresh, ActiveKnown, ActiveCoolingHasCause
    <2> QED
      BY <1>5, <2>1, <2>2
  <1>7. /\ pc[r] \in Busy /\ pc'[r] \notin Asking
        /\ \A q \in Requests : q # r => /\ pc'[q] = pc[q] /\ kind'[q] = kind[q]
                                       /\ since'[q] = since[q] /\ chain'[q] = chain[q]
    BY <1>1, <1>2 DEF Asking, Busy, Inv, Numbers, Book, Asked
  <1>8. ChainFresh'
    BY <1>1, <1>7, MoveFresh DEF Fresh
  <1> QED
    BY <1>6, <1>8 DEF Fresh

LEMMA NextFresh == Inv /\ Book /\ Cleared /\ Fresh /\ [Next]_vars => Fresh'
  <1> SUFFICES ASSUME Inv, Book, Cleared, Fresh, [Next]_vars
               PROVE  Fresh'
    OBVIOUS
  <1>1. CASE UNCHANGED vars
    BY <1>1 DEF vars, stateVars, requestVars, Fresh, ActiveKnown, ChainFresh, ActiveCoolingHasCause
  <1>2. CASE Tick
    <2>1. now' = now + 1 /\ UNCHANGED <<until, activeLlm, pc, kind, since, chain, overlap, crossed>>
      BY <1>2 DEF Tick, stateVars, requestVars
    <2>2. ActiveKnown' /\ ChainFresh'
      BY <2>1 DEF Fresh, ActiveKnown, ChainFresh
    <2>3. ActiveCoolingHasCause'
      <3>1. activeLlm # NoProvider => until[activeLlm] \in Nat
        BY DEF Inv, Numbers, Book, Shared
      <3> QED
        BY <2>1, <3>1 DEF Inv, Numbers, Fresh, ActiveCoolingHasCause
    <2> QED
      BY <2>2, <2>3 DEF Fresh
  <1>3. ASSUME NEW r \in Requests,
               \/ \E k \in {"llm", "embed", "static"} : Begin(r, k)
               \/ Trying(r) \/ Invoking(r) \/ Raise(r)
        PROVE  Fresh'
    BY <1>3, CalmStepsFresh, HealthyFresh, ChooseFresh, FailsFresh, InvokeFailsFresh
       DEF Trying, Invoking
  <1> QED
    BY <1>1, <1>2, <1>3 DEF Next

\* The provider that chat requests are sent to first cools down only if requests have
\* overlapped, or an embedding request wrote the cooldown that both kinds share: a
\* provider that becomes active was free of a cooldown when its request began, and
\* whatever cools it down clears it.
THEOREM ActiveCoolingCauses == Spec => []ActiveCoolingHasCause
  <1>1. Fresh => ActiveCoolingHasCause
    BY DEF Fresh
  <1> QED
    BY InitFresh, NextFresh, InitCleared, NextCleared, <1>1, Invariance, Books, PTL DEF Spec

===============================================================================
