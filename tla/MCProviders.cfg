SPECIFICATION Spec
CONSTANTS
    openai = openai
    groq = groq
    google = google
    Providers = {openai, groq, google}
    NoProvider = NoProvider
    LlmPriority <- MCLlmPriority
    EmbedPriority <- MCEmbedPriority
    Fallbacks <- MCFallbacks
    LlmMap <- MCLlmMap
    EmbedMap <- MCEmbedMap
    Configured = {groq, google}
    Requests = {r1, r2}
    Cooldown = 2
    MaxTime = 3
INVARIANTS
    TypeOK
    ActiveCoolingHasCause
    FailedHasCause
PROPERTIES
    CooldownKept
SYMMETRY Symmetry
