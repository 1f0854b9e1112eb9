------------------------------ MODULE MCProviders ------------------------------
(***************************************************************************)
(* TLC's instance of Providers, cut from the default settings: one name in *)
(* the LLM priority list is no LLM provider, one provider has no key, and  *)
(* one serves both lists.                                                  *)
(***************************************************************************)
EXTENDS Providers, TLC

CONSTANTS openai, groq, google

MCLlmPriority == <<openai, groq, google>>
MCEmbedPriority == <<openai, google>>
MCFallbacks == <<groq>>
MCLlmMap == {groq, google}
MCEmbedMap == {openai, google}

Symmetry == Permutations(Requests)
===============================================================================
