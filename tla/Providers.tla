-------------------------------- MODULE Providers --------------------------------
(***************************************************************************)
(* LLMManager in one process: which provider of chat or embedding models a *)
(* request gets, from class-level state that all requests share.           *)
(*                                                                         *)
(* get_auto_llm and get_auto_embed_model try the providers in order, the   *)
(* active one first, skip those that cool down, and wait for each one's    *)
(* health check, where requests interleave.  The model an LLM request gets *)
(* falls back from one provider to the next when it is invoked.            *)
(* get_static_llm takes its providers as they are configured.              *)
(*                                                                         *)
(* A health check that fails tells the callback of the chat model first,   *)
(* and then the request: two steps that may both write the cooldown.       *)
(***************************************************************************)
EXTENDS Naturals, Sequences

CONSTANTS Providers,
          NoProvider,
          LlmPriority, EmbedPriority,  \* the priority lists of the settings
          Fallbacks,                   \* fallback_providers of static requests
          LlmMap, EmbedMap,            \* providers the manager knows
          Configured,                  \* those with a model name and an API key
          Requests,
          Cooldown,
          MaxTime                      \* bound

Elements(s) == {s[i] : i \in DOMAIN s}

ASSUME ProvidersAssumption ==
    /\ NoProvider \notin Providers
    /\ \A list \in {LlmPriority, EmbedPriority, Fallbacks} :
          list \in Seq(Providers) /\ \A i, j \in DOMAIN list : list[i] = list[j] => i = j
    /\ Cooldown \in Nat /\ MaxTime \in Nat

VARIABLES now,
          until,        \* _rate_limited_providers: when each cooldown ends
          activeLlm,    \* _active_llm_provider
          activeEmbed,  \* _active_embed_provider
          pc,           \* where each request is
          kind,         \* "llm", "embed" or "static"
          since,        \* its current_time
          rest,         \* providers it has yet to try
          chain,        \* available_llms; then those it has yet to invoke
          failed,       \* history: providers that failed it, or were cooling down
          overlap,      \* history: did two requests ever overlap?
          crossed       \* history: did an embedding request cool down an LLM provider?

stateVars == <<until, activeLlm, activeEmbed>>
requestVars == <<kind, since, rest, chain, failed>>
vars == <<now, stateVars, pc, requestVars, overlap, crossed>>

-------------------------------------------------------------------------------

Init == /\ now = 0
        /\ until = [p \in Providers |-> 0]
        /\ activeLlm = NoProvider
        /\ activeEmbed = NoProvider
        /\ pc = [r \in Requests |-> "idle"]
        /\ kind = [r \in Requests |-> "llm"]
        /\ since = [r \in Requests |-> 0]
        /\ rest = [r \in Requests |-> <<>>]
        /\ chain = [r \in Requests |-> <<>>]
        /\ failed = [r \in Requests |-> {}]
        /\ overlap = FALSE
        /\ crossed = FALSE

Busy == {"trying", "checking", "unwinding", "ready"}

At(r, from, to) == /\ pc[r] = from
                   /\ pc' = [pc EXCEPT ![r] = to]

\* The request is over; its process goes on to other requests.
Over(r) == /\ pc' = [pc EXCEPT ![r] = "idle"]
           /\ kind' = [kind EXCEPT ![r] = "llm"]
           /\ since' = [since EXCEPT ![r] = 0]
           /\ rest' = [rest EXCEPT ![r] = <<>>]
           /\ chain' = [chain EXCEPT ![r] = <<>>]
           /\ failed' = [failed EXCEPT ![r] = {}]

Tick == /\ now < MaxTime
        /\ now' = now + 1
        /\ UNCHANGED <<stateVars, pc, requestVars, overlap, crossed>>

\* The list without p, which it names once; alone, a mutation of the next definition:
\* the active provider is taken out of the list and not put first.
WithoutActive(p, list) ==
    IF p \in Elements(list)
    THEN LET i == CHOOSE i \in DOMAIN list : list[i] = p
         IN SubSeq(list, 1, i - 1) \o SubSeq(list, i + 1, Len(list))
    ELSE list

ActiveFirst(p, list) ==
    IF p \in Elements(list) THEN <<p>> \o WithoutActive(p, list) ELSE list

Lists(k) == CASE k = "llm" -> {ActiveFirst(activeLlm, LlmPriority)}
              [] k = "embed" -> {ActiveFirst(activeEmbed, EmbedPriority)}
              [] OTHER -> {<<p>> \o Fallbacks : p \in Providers \ Elements(Fallbacks)}

Begin(r, k) == /\ At(r, "idle", "trying")
               /\ kind' = [kind EXCEPT ![r] = k]
               /\ since' = [since EXCEPT ![r] = IF k = "static" THEN 0 ELSE now]
               /\ \E list \in Lists(k) : rest' = [rest EXCEPT ![r] = list]
               /\ overlap' = (overlap \/ \E q \in Requests : pc[q] \in Busy)
               /\ UNCHANGED <<now, stateVars, chain, failed, crossed>>

Map(k) == IF k = "embed" THEN EmbedMap ELSE LlmMap

Cooling(r, p) == kind[r] # "static" /\ since[r] < until[p]
Usable(r, p) == p \in Map(kind[r]) \cap Configured

\* The request goes on to the next provider; what has failed is remembered.
NextProvider(r, out) == /\ pc' = [pc EXCEPT ![r] = "trying"]
                        /\ rest' = [rest EXCEPT ![r] = Tail(@)]
                        /\ failed' = [failed EXCEPT ![r] = @ \cup out]
                        /\ UNCHANGED <<now, kind, since, overlap>>

Skip(r) == /\ pc[r] = "trying"
           /\ rest[r] # <<>>
           /\ LET p == Head(rest[r]) IN Cooling(r, p) \/ p \notin Map(kind[r])
           /\ kind[r] = "static" => chain[r] # <<>>
           /\ NextProvider(r, {Head(rest[r])})
           /\ UNCHANGED <<stateVars, chain, crossed>>

Without(p, active) == IF active = p THEN NoProvider ELSE active

\* An embedding provider cools down whatever the error, for LLM requests too.
EmbedFails(r, p) == /\ until' = [until EXCEPT ![p] = since[r] + Cooldown]
                    /\ activeEmbed' = Without(p, activeEmbed)
                    /\ crossed' = (crossed \/ p \in LlmMap)
                    /\ UNCHANGED activeLlm

\* A provider without model name or key.  A static request without its first is lost.
InitFails(r) == /\ pc[r] = "trying"
                /\ rest[r] # <<>>
                /\ LET p == Head(rest[r]) IN
                   /\ ~Cooling(r, p) /\ p \in Map(kind[r]) \ Configured
                   /\ kind[r] = "static" => chain[r] # <<>>
                   /\ NextProvider(r, {p})
                   /\ IF kind[r] = "embed" THEN EmbedFails(r, p)
                                           ELSE UNCHANGED <<stateVars, crossed>>
                /\ UNCHANGED chain

StaticFails(r) == /\ kind[r] = "static"
                  /\ chain[r] = <<>> /\ rest[r] # <<>>
                  /\ ~Usable(r, Head(rest[r]))
                  /\ At(r, "trying", "failed")
                  /\ UNCHANGED <<now, stateVars, requestVars, overlap, crossed>>

\* A provider that does not cool down is asked for an answer, and waited for.
Check(r) == /\ kind[r] # "static"
            /\ rest[r] # <<>>
            /\ ~Cooling(r, Head(rest[r])) /\ Usable(r, Head(rest[r]))
            /\ At(r, "trying", "checking")
            /\ UNCHANGED <<now, stateVars, requestVars, overlap, crossed>>

\* A static request takes its providers unasked.
Taken(r) == IF kind[r] = "static"
            THEN pc[r] = "trying" /\ rest[r] # <<>> /\ Usable(r, Head(rest[r]))
            ELSE pc[r] = "checking"

Healthy(r) == /\ kind[r] # "embed"
              /\ Taken(r)
              /\ NextProvider(r, {})
              /\ chain' = [chain EXCEPT ![r] = Append(@, Head(rest[r]))]
              /\ UNCHANGED <<stateVars, crossed>>

\* Mutation: the active provider is not cleared.
KeepsActive(p, end) == /\ until' = [until EXCEPT ![p] = end]
                       /\ UNCHANGED <<activeLlm, activeEmbed>>

\* Mutation: the cooldowns of the other providers are forgotten.
ForgetsOthers(p, end) == /\ until' = [q \in Providers |-> IF q = p THEN end ELSE 0]
                         /\ activeLlm' = Without(p, activeLlm)
                         /\ UNCHANGED activeEmbed

\* Mutation: a provider that fails again cools down for the sum.
AddsUp(p, end) == /\ until' = [until EXCEPT ![p] = @ + end]
                  /\ activeLlm' = Without(p, activeLlm)
                  /\ UNCHANGED activeEmbed

\* FallbackErrorHandler.on_llm_error
LlmFails(p, end) == /\ until' = [until EXCEPT ![p] = end]
                    /\ activeLlm' = Without(p, activeLlm)
                    /\ UNCHANGED activeEmbed

\* The health check fails; the callback hears of it first.
Unhealthy(r) == /\ kind[r] = "llm"
                /\ At(r, "checking", "unwinding")
                /\ LlmFails(Head(rest[r]), now + Cooldown)
                /\ UNCHANGED <<now, requestVars, overlap, crossed>>

\* Then the request: after a rate limit or a refused key it counts the cooldown from
\* its own start.
Unwind(r, limited) == /\ pc[r] = "unwinding"
                      /\ NextProvider(r, {Head(rest[r])})
                      /\ until' = IF limited
                                  THEN [until EXCEPT ![Head(rest[r])] = since[r] + Cooldown]
                                  ELSE until
                      /\ UNCHANGED <<activeLlm, activeEmbed, chain, crossed>>

EmbedUnhealthy(r) == /\ kind[r] = "embed"
                     /\ pc[r] = "checking"
                     /\ NextProvider(r, {Head(rest[r])})
                     /\ EmbedFails(r, Head(rest[r]))
                     /\ UNCHANGED chain

EmbedHealthy(r) == /\ kind[r] = "embed"
                   /\ pc[r] = "checking" /\ Over(r)
                   /\ activeEmbed' = Head(rest[r])
                   /\ UNCHANGED <<now, until, activeLlm, overlap, crossed>>

NoneLeft(r) == /\ rest[r] = <<>> /\ chain[r] = <<>>
               /\ At(r, "trying", "failed")
               /\ UNCHANGED <<now, stateVars, requestVars, overlap, crossed>>

\* The first that is available becomes the active one.
Choose(r) == /\ rest[r] = <<>> /\ chain[r] # <<>>
             /\ At(r, "trying", "ready")
             /\ activeLlm' = IF kind[r] = "llm" THEN Head(chain[r]) ELSE activeLlm
             /\ since' = [since EXCEPT ![r] = 0]
             /\ UNCHANGED <<now, until, activeEmbed, kind, rest, chain, failed, overlap, crossed>>

(* Using the model: with_fallbacks *)

InvokeFails(r) == /\ At(r, "ready", IF Len(chain[r]) = 1 THEN "failed" ELSE "ready")
                  /\ chain' = [chain EXCEPT ![r] = Tail(@)]
                  /\ failed' = [failed EXCEPT ![r] = @ \cup {Head(chain[r])}]
                  /\ IF kind[r] = "llm" THEN LlmFails(Head(chain[r]), now + Cooldown)
                                        ELSE UNCHANGED stateVars
                  /\ UNCHANGED <<now, kind, since, rest, overlap, crossed>>

InvokeSucceeds(r) == /\ pc[r] = "ready" /\ Over(r)
                     /\ UNCHANGED <<now, stateVars, overlap, crossed>>

Raise(r) == /\ pc[r] = "failed" /\ Over(r)
            /\ UNCHANGED <<now, stateVars, overlap, crossed>>

-------------------------------------------------------------------------------

Trying(r) == \/ Skip(r) \/ InitFails(r) \/ StaticFails(r) \/ Check(r)
             \/ Healthy(r) \/ EmbedHealthy(r) \/ Unhealthy(r) \/ EmbedUnhealthy(r)
             \/ \E limited \in BOOLEAN : Unwind(r, limited)
             \/ NoneLeft(r) \/ Choose(r)

Invoking(r) == InvokeFails(r) \/ InvokeSucceeds(r)

Next == \/ Tick
        \/ \E r \in Requests :
              \/ \E k \in {"llm", "embed", "static"} : Begin(r, k)
              \/ Trying(r) \/ Invoking(r) \/ Raise(r)

Spec == Init /\ [][Next]_vars

-------------------------------------------------------------------------------
(* Properties *)

\* Type of the manager's state and of the requests.
TypeOK ==
    /\ now \in 0..MaxTime
    /\ until \in [Providers -> 0..MaxTime + Cooldown]
    /\ activeLlm \in Providers \cup {NoProvider}
    /\ activeEmbed \in Providers \cup {NoProvider}
    /\ pc \in [Requests -> Busy \cup {"idle", "failed"}]
    /\ kind \in [Requests -> {"llm", "embed", "static"}]
    /\ since \in [Requests -> 0..MaxTime]
    /\ rest \in [Requests -> Seq(Providers)]
    /\ chain \in [Requests -> Seq(Providers)]
    /\ failed \in [Requests -> SUBSET Providers]
    /\ overlap \in BOOLEAN
    /\ crossed \in BOOLEAN

\* The provider that requests are sent to first is not one that cools down, unless
\* requests overlapped or an embedding request cooled it down: the two kinds share
\* their cooldowns and not their active providers.
ActiveCoolingHasCause ==
    activeLlm # NoProvider /\ now < until[activeLlm] => overlap \/ crossed

CutByOwnCheck(p) == \E r \in Requests : /\ pc[r] = "unwinding" /\ p = Head(rest[r])
                                        /\ until'[p] >= since[r] + Cooldown

\* A cooldown is cut short by requests that overlap, one of which counts it from an
\* earlier start than another.  A request alone cuts only the one that its own health
\* check has just written, to no less than Cooldown from its start; what requests
\* before it and other providers left stays.
CooldownKept ==
    [][\A p \in Providers : until'[p] < until[p] => overlap \/ CutByOwnCheck(p)]_vars

\* A request fails only when every provider of its list has failed it, cools down,
\* or is not set up; one that is set up and well is never passed over.
FailedHasCause ==
    \A r \in Requests : pc[r] = "failed" =>
        /\ kind[r] = "llm" => Elements(LlmPriority) \subseteq failed[r]
        /\ kind[r] = "embed" => Elements(EmbedPriority) \subseteq failed[r]
===============================================================================
