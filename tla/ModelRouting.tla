---------------------------- MODULE ModelRouting ----------------------------
(***************************************************************************)
(* What the configuration means: its defaults and its check                *)
(* (internal/config/config.go), the level traces are recorded at           *)
(* (internal/trace/trace.go), and how a request's model and reasoning      *)
(* level are resolved against it (internal/model/resolve.go,               *)
(* internal/protocol/reasoning.go, internal/api/openai.go).                *)
(*                                                                         *)
(* These are functions of the configuration and of a request.  Names are   *)
(* strings; "" is a field that is not set.  Gateway uses them.             *)
(***************************************************************************)
EXTENDS Naturals

CONSTANTS
    Hours,         \* Hours[s]: the duration that the string s parses to
    Retention,     \* fallback of debug.retention, 168 hours in the code
    FullRetention  \* fallback of debug.full_retention, 24 hours in the code

ASSUME DurationAssumption ==
    /\ \A s \in DOMAIN Hours : Hours[s] \in Nat
    /\ Retention \in Nat /\ FullRetention \in Nat

-----------------------------------------------------------------------------
(* The configuration.                                                      *)

\* strings.ToLower, on the words in use.
LowerCase == [OFF |-> "off", Full |-> "full", HIGH |-> "high"]
Lower(s)  == IF s \in DOMAIN LowerCase THEN LowerCase[s] ELSE s

ParseDuration(s, fallback) == IF s \in DOMAIN Hours THEN Hours[s] ELSE fallback

\* What Load makes of a file; paths are left out.
ApplyDefaults(f) ==
    [f EXCEPT !.level          = IF @ = "" THEN "metadata" ELSE @,
              !.retention      = ParseDuration(@, Retention),
              !.full_retention = ParseDuration(@, FullRetention)]

\* Mutant: the models' references are not checked.
ValidProviders(c) ==
    /\ Lower(c.level) \in {"off", "metadata", "full"}
    /\ \A p \in DOMAIN c.providers : c.providers[p].plugin \in c.plugins

Valid(c) ==
    /\ Lower(c.level) \in {"off", "metadata", "full"}
    /\ \A a \in DOMAIN c.models :
        /\ c.models[a].provider # ""
        /\ c.models[a].provider \in DOMAIN c.providers
    /\ \A p \in DOMAIN c.providers :
        /\ c.providers[p].plugin # ""
        /\ c.providers[p].plugin \in c.plugins
        /\ c.providers[p].credential \in c.credentials \cup {""}

\* The level traces are recorded at.  The check ignores case, this does not: a
\* level that is not written in lower case counts as metadata.
TraceLevel(c) == IF c.level \in {"off", "full"} THEN c.level ELSE "metadata"

-----------------------------------------------------------------------------
(* A request.                                                              *)

ParseReasoningLevel(s) ==
    LET word == Lower(s) IN
    CASE word \in {"", "default"}          -> "default"
      [] word \in {"off", "none"}          -> "off"
      [] word \in {"low", "medium", "high"} -> word
      [] word \in {"max", "xhigh"}         -> "max"
      [] OTHER                             -> "invalid"

\* ask.effort is reasoning_effort, ask.object is reasoning.effort.  The second
\* is looked at only when the first is not wrong, and wins when it is set.
RequestReasoning(ask) ==
    IF ask.object = "" \/ ParseReasoningLevel(ask.effort) = "invalid"
      THEN ParseReasoningLevel(ask.effort)
      ELSE ParseReasoningLevel(ask.object)

Refused(code) == [provider |-> "", reasoning |-> code]

\* A level of the request goes before the alias's, but for "default".
Resolve(c, model, level) ==
    IF model \notin DOMAIN c.models THEN Refused("model_not_found")
    ELSE LET alias == ParseReasoningLevel(c.models[model].reasoning) IN
         IF alias = "invalid" THEN Refused("invalid_request")
         ELSE [provider  |-> c.models[model].provider,
               reasoning |-> IF level = "default" THEN alias ELSE level]

\* chatCompletions, up to the instance it asks the manager for.
Route(c, ask) ==
    IF RequestReasoning(ask) = "invalid" THEN Refused("invalid_request")
    ELSE Resolve(c, ask.model, RequestReasoning(ask))
=============================================================================
