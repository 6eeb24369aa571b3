---------------------------- MODULE ServiceSections ----------------------------
(***************************************************************************)
(* The sections of the configuration about what the program talks to: the  *)
(* web search, MCP, telemetry, the HTTP transport and the public API, the  *)
(* auxiliary models, ensembles and round tables, guardrails.  Laid out as  *)
(* MemorySections.  Secrets, which are kept elsewhere, are left out.       *)
(***************************************************************************)
EXTENDS SettingKinds

SearchReads == All(Text, {"backend", "searxng_url", "backends"})
               @@ [max_results |-> Positive, fetch_pages |-> Flag]
SearchDefaults == [fetch_pages |-> -1]
SearchSetters == {"max_results", "fetch_pages"}
SearchTextSetters == {"backend", "searxng_url", "backends"}
SearchWritten(c) == NonEmpty(c, SearchTextSetters) \cup Above0(c, {"max_results"})
                    \cup When(c.fetch_pages >= 0, {"fetch_pages"})

DogfoodReads == All(Flag, {"enabled", "commit_raw", "inline_tagging"}) @@ ("log_dir" :> Text)
DogfoodDefaults == [enabled |-> 1]
DogfoodSetters == {"enabled", "commit_raw", "inline_tagging"}
DogfoodTextSetters == {"log_dir"}
DogfoodWritten(c) ==
  When(c.enabled = 0 \/ c.log_dir # "" \/ On(c, {"commit_raw", "inline_tagging"}) # {},
       {"enabled", "commit_raw", "inline_tagging"} \cup NonEmpty(c, {"log_dir"}))

IdentityReads == [enabled |-> Flag, fields |-> AnyText]
IdentityDefaults == [enabled |-> 1]
IdentitySetters == {"enabled"}
IdentityWritten(c) ==
  When(c.enabled # 0 \/ c.fields # "", {"enabled"} \cup NonEmpty(c, {"fields"}))
\* On by default, and written only when on or with fields.
IdentityLost(c) == When(c.enabled = 0 /\ c.fields = "", {"enabled"})

OsvReads == All(Flag, {"enabled", "offline", "enforce"})
            @@ [cache_ttl_hours |-> Positive, endpoint |-> Text, allow |-> AnyText]
OsvDefaults == [enabled |-> 1, enforce |-> 1, cache_ttl_hours |-> 24, endpoint |-> "osv.dev"]
OsvSetters == {"enabled", "offline", "enforce", "cache_ttl_hours"}
OsvTextSetters == {"endpoint"}
OsvWritten(c) ==
  When(Differing(c, Filled(OsvReads, OsvDefaults)) # {},
       (DOMAIN OsvReads \ {"allow"}) \cup NonEmpty(c, {"allow"}))

OtelReads == All(Text, {"endpoint", "service_name"})
OtelSetters == {"endpoint", "service_name"}
OtelWritten(c) == When(c.endpoint # "", NonEmpty(c, DOMAIN OtelReads))
OtelLost(c) == When(c.endpoint = "", NonEmpty(c, {"service_name"}))

TransportFlags == {"kb_pool_enabled", "server_keepalive_enabled", "thinclient_gzip_enabled",
                   "kb_gzip_enabled"}
\* cache_aware_rewrite, within transport; hard_context_threshold in thousandths.
CacheAwareSizes == {"min_savings_tokens", "hard_context_threshold", "max_defer_turns",
                    "segment_check_turns"}
CacheAwareReads ==
  All(NonNegative, CacheAwareSizes \ {"hard_context_threshold"})
  @@ [enabled |-> Flag, hard_context_threshold |-> AtLeast(1)]
TransportReads == All(Flag, TransportFlags) @@ CacheAwareReads
CacheAwareDefaults == [min_savings_tokens |-> 500, hard_context_threshold |-> 850,
                       max_defer_turns |-> 20, segment_check_turns |-> 5]
TransportDefaults == [kb_pool_enabled |-> 1, server_keepalive_enabled |-> 1]
CacheAwareSetters == DOMAIN CacheAwareReads
\* The pool has no generated setter.
TransportSetters == TransportFlags \ {"kb_pool_enabled"}
TransportOpens(c) ==
  On(c, TransportFlags \cup {"enabled"}) # {} \/ Differing(c, CacheAwareDefaults) # {}
TransportWritten(c) == When(TransportOpens(c), DOMAIN TransportReads)
\* The pool and the keepalive are on by default: when both are turned off and
\* nothing else is set, no transport section is written and both are on again.
TransportLost(c) == When(~TransportOpens(c), DOMAIN TransportDefaults)

CostRewardReads == [enabled |-> Flag, lambda_pct |-> NonNegative, ref_usd_milli |-> Positive]
CostRewardDefaults == [lambda_pct |-> 30, ref_usd_milli |-> 500]
CostRewardSetters == DOMAIN CostRewardReads
CostRewardWritten(c) ==
  When(c.enabled # 0 \/ Differing(c, CostRewardDefaults) # {}, DOMAIN CostRewardReads)

\* reasoning_cap, extended_thinking: one flag each, off by default.
SwitchReads == [enabled |-> Flag]
ReasoningCapSetters == {"enabled"}
ReasoningCapWritten(c) == On(c, {"enabled"})
ExtendedThinkingLost(c) == On(c, {"enabled"})

DedupReads == [enabled |-> Flag, window_seconds |-> Positive]
DedupDefaults == [enabled |-> 1, window_seconds |-> 5]
DedupSetters == {"enabled", "window_seconds"}
DedupWritten(c) == When(Differing(c, DedupDefaults) # {}, DOMAIN DedupReads)

CacheShapingReads == [enabled |-> Flag, min_chars |-> NonNegative]
CacheShapingDefaults == [enabled |-> 1, min_chars |-> 0]
CacheShapingSetters == {"enabled", "min_chars"}
CacheShapingWritten(c) == When(Differing(c, CacheShapingDefaults) # {}, DOMAIN CacheShapingReads)

IngressReads == All(Flag, {"usage_accounting_enabled", "audit_async"})
IngressDefaults == All(1, DOMAIN IngressReads)
IngressWritten(c) == When(Differing(c, IngressDefaults) # {}, DOMAIN IngressReads)

GuardrailModes == {"off", "dry_run", "advisory", "enforce"}
GuardrailsReads ==
  All(Number, {"warn_threshold", "prompt_threshold", "block_threshold"})
  @@ [mode |-> Named(GuardrailModes, "off"), command |-> AnyText, advisory_enabled |-> Flag]
GuardrailsDefaults == [mode |-> "off", warn_threshold |-> 400, prompt_threshold |-> 700,
                       block_threshold |-> 900]
\* The blast-radius advisory has no generated setter.
GuardrailsSetters == {"warn_threshold", "prompt_threshold", "block_threshold"}
GuardrailsTextSetters == {"mode", "command"}
\* A mode set to a name unknown to guardrails_semantic_mode_parse is off.
GuardrailsWritten(c) ==
  LET opens == \/ c.mode \in GuardrailModes \ {"off"} \/ c.command # ""
               \/ Differing(c, GuardrailsDefaults) \ {"mode"} # {}
  IN  When(opens, DOMAIN GuardrailsDefaults \cup NonEmpty(c, {"command"}))
      \cup On(c, {"advisory_enabled"})

AuxReads == All(AnyText, {"default_provider", "default_model", "tasks"})
            @@ [enabled |-> Flag, default_max_tokens |-> Positive]
AuxSetters == {"enabled", "default_max_tokens"}
AuxTextSetters == {"default_provider", "default_model"}
AuxWritten(c) ==
  LET texts == NonEmpty(c, {"default_provider", "default_model", "tasks"})
  IN  Block(c, c.enabled # 0 \/ texts # {}, {"enabled"} \cup texts, {"default_max_tokens"})

ModelMetaReads == [refresh_minutes |-> Positive, capability_routing |-> Flag]
ModelMetaDefaults == [refresh_minutes |-> 60, capability_routing |-> 1]
ModelMetaSetters == DOMAIN ModelMetaReads
ModelMetaWritten(c) == When(Differing(c, ModelMetaDefaults) # {}, DOMAIN ModelMetaReads)

RoutingReads == [prefer_local |-> Flag]
RoutingSetters == {"prefer_local"}
RoutingWritten(c) == On(c, {"prefer_local"})

\* db2.vector: parsed, and never saved.
VectorReads == [corpus_index |-> Text, corpus_diskann_threshold |-> Positive]
VectorDefaults == [corpus_index |-> "auto", corpus_diskann_threshold |-> 1000000]
VectorSetters == {"corpus_diskann_threshold"}
VectorTextSetters == {"corpus_index"}
VectorLost(c) == Differing(c, VectorDefaults)

EnsembleLists == {"reference_models", "reference_personas"}
EnsembleReads == All(AnyText, EnsembleLists \cup {"aggregator"})
                 @@ All(Positive, {"min_successful", "max_cost_usd"})
EnsembleDefaults == [min_successful |-> 2]
EnsembleSetters == {"min_successful", "max_cost_usd"}
EnsembleTextSetters == {"aggregator"}
EnsembleWritten(c) ==
  LET rest == NonEmpty(c, EnsembleLists \cup {"aggregator"}) \cup Above0(c, {"max_cost_usd"})
  IN  When(rest # {} \/ c.min_successful # 2, {"min_successful"} \cup rest)

RoundtableReads ==
  All(NonNegative, {"deadline_ms", "pipeline_max_passes", "pipeline_max_cost_usd",
                    "pipeline_max_total_cost_usd", "pipeline_gate_ttl_h"})
  @@ All(Positive, {"max_rounds", "pipeline_max_attempts_per_pass",
                    "pipeline_unknown_context_tokens"})
  @@ All(Text, {"turns", "pipeline_done_bar"})
  @@ [converge_threshold |-> Within(0, 100), default |-> AnyText,
      pipeline_parked_releases_slot |-> Flag]
RoundtableDefaults ==
  [max_rounds |-> 1, converge_threshold |-> 10, turns |-> "parallel",
   pipeline_done_bar |-> "zero_blocking", pipeline_max_attempts_per_pass |-> 2,
   pipeline_parked_releases_slot |-> 1, pipeline_unknown_context_tokens |-> 8000]
RoundtableTextSetters == {"turns", "default", "pipeline_done_bar"}
RoundtableSetters == DOMAIN RoundtableReads \ RoundtableTextSetters
RoundtableWritten(c) ==
  When(Differing(c, Filled(RoundtableReads, RoundtableDefaults)) # {},
       (DOMAIN RoundtableReads \ {"default"}) \cup NonEmpty(c, {"default"}))

ComputerUseReads == All(Flag, {"enabled", "redact_sensitive_screenshots"})
                    @@ [default_navigation |-> Text, allowed_domains |-> AnyText]
ComputerUseDefaults == [default_navigation |-> "approve", redact_sensitive_screenshots |-> 1,
                        allowed_domains |-> "localhost"]
ComputerUseSetters == {"enabled", "redact_sensitive_screenshots"}
ComputerUseTextSetters == {"default_navigation"}
ComputerUseWritten(c) ==
  When(Differing(c, Filled(ComputerUseReads, ComputerUseDefaults)) # {},
       DOMAIN ComputerUseReads)

ApiNumbers == {"http_port", "tls_port", "rate_limit_per_min"}
ApiTexts == {"mtls_client_ca", "client_transport"}
ApiReads ==
  All(Number, ApiNumbers) @@ All(AnyText, ApiTexts)
  @@ [max_event_streams |-> Positive, cli_session_forwarding |-> Flag,
      mtls |-> Named({"off", "optional", "required"}, "off"),
      remote_writes |-> Named({"off", "data", "full"}, "off")]
ApiDefaults == [mtls |-> "off", remote_writes |-> "off"]
ApiSetters == DOMAIN ApiReads \ ApiTexts
ApiTextSetters == ApiTexts
ApiWritten(c) ==
  Above0(c, ApiNumbers \cup {"max_event_streams"}) \cup NonEmpty(c, ApiTexts)
  \cup On(c, {"cli_session_forwarding"})
  \cup When(c.mtls \in {"optional", "required"}, {"mtls"})
  \cup When(c.remote_writes \in {"data", "full"}, {"remote_writes"})
ApiLost(c) == Below0(c, ApiNumbers)
\* AIMEE_API_MTLS and AIMEE_API_REMOTE_WRITES decide in a deployment, whatever
\* the file says.
ApiForced == [mtls |-> "required", remote_writes |-> "data"]

ProxyReads == [proxy_url |-> Text]
ProxySetters == {"proxy_url"}
ProxyWritten(c) == NonEmpty(c, {"proxy_url"})

-----------------------------------------------------------------------------

ServiceNames ==
  {"search", "dogfood", "identity", "mcp.osv", "otel", "transport", "cost_reward",
   "reasoning_cap", "extended_thinking", "dedup", "cache_shaping", "ingress",
   "guardrails", "auxiliary", "model_meta", "routing", "db2.vector", "ensemble",
   "roundtable", "computer_use", "aimee.api", "aimee.api (deployed)", "proxy_url"}
ServiceTable ==
  [s \in ServiceNames |->
     CASE s = "search" ->
              Row(SearchReads, SearchDefaults, SearchSetters \cup SearchTextSetters)
       [] s = "dogfood" ->
              Row(DogfoodReads, DogfoodDefaults, DogfoodSetters \cup DogfoodTextSetters)
       [] s = "identity" -> Row(IdentityReads, IdentityDefaults, IdentitySetters)
       [] s = "mcp.osv" -> Row(OsvReads, OsvDefaults, OsvSetters \cup OsvTextSetters)
       [] s = "otel" -> Row(OtelReads, Zeroed, OtelSetters)
       [] s = "transport" ->
              Row(TransportReads, TransportDefaults @@ CacheAwareDefaults,
                  TransportSetters \cup CacheAwareSetters)
       [] s = "cost_reward" -> Row(CostRewardReads, CostRewardDefaults, CostRewardSetters)
       [] s = "reasoning_cap" -> Row(SwitchReads, Zeroed, ReasoningCapSetters)
       [] s = "extended_thinking" -> Row(SwitchReads, Zeroed, {})
       [] s = "dedup" -> Row(DedupReads, DedupDefaults, DedupSetters)
       [] s = "cache_shaping" ->
              Row(CacheShapingReads, CacheShapingDefaults, CacheShapingSetters)
       [] s = "ingress" -> Row(IngressReads, IngressDefaults, {})
       [] s = "guardrails" ->
              Row(GuardrailsReads, GuardrailsDefaults,
                  GuardrailsSetters \cup GuardrailsTextSetters)
       [] s = "auxiliary" -> Row(AuxReads, Zeroed, AuxSetters \cup AuxTextSetters)
       [] s = "model_meta" -> Row(ModelMetaReads, ModelMetaDefaults, ModelMetaSetters)
       [] s = "routing" -> Row(RoutingReads, Zeroed, RoutingSetters)
       [] s = "db2.vector" ->
              Row(VectorReads, VectorDefaults, VectorSetters \cup VectorTextSetters)
       [] s = "ensemble" ->
              Row(EnsembleReads, EnsembleDefaults, EnsembleSetters \cup EnsembleTextSetters)
       [] s = "roundtable" ->
              Row(RoundtableReads, RoundtableDefaults,
                  RoundtableSetters \cup RoundtableTextSetters)
       [] s = "computer_use" ->
              Row(ComputerUseReads, ComputerUseDefaults,
                  ComputerUseSetters \cup ComputerUseTextSetters)
       [] s \in {"aimee.api", "aimee.api (deployed)"} ->
              Row(ApiReads, ApiDefaults, ApiSetters \cup ApiTextSetters)
       [] s = "proxy_url" -> Row(ProxyReads, Zeroed, ProxySetters)]

ServiceWritten(s, c) ==
  CASE s = "search" -> SearchWritten(c)
    [] s = "dogfood" -> DogfoodWritten(c)
    [] s = "identity" -> IdentityWritten(c)
    [] s = "mcp.osv" -> OsvWritten(c)
    [] s = "otel" -> OtelWritten(c)
    [] s = "transport" -> TransportWritten(c)
    [] s = "cost_reward" -> CostRewardWritten(c)
    [] s = "reasoning_cap" -> ReasoningCapWritten(c)
    [] s = "dedup" -> DedupWritten(c)
    [] s = "cache_shaping" -> CacheShapingWritten(c)
    [] s = "ingress" -> IngressWritten(c)
    [] s = "guardrails" -> GuardrailsWritten(c)
    [] s = "auxiliary" -> AuxWritten(c)
    [] s = "model_meta" -> ModelMetaWritten(c)
    [] s = "routing" -> RoutingWritten(c)
    [] s = "ensemble" -> EnsembleWritten(c)
    [] s = "roundtable" -> RoundtableWritten(c)
    [] s = "computer_use" -> ComputerUseWritten(c)
    [] s \in {"aimee.api", "aimee.api (deployed)"} -> ApiWritten(c)
    [] s = "proxy_url" -> ProxyWritten(c)
    [] s \in {"extended_thinking", "db2.vector"} -> {}

ServiceLost(s, c) ==
  CASE s = "identity" -> IdentityLost(c)
    [] s = "otel" -> OtelLost(c)
    [] s = "transport" -> TransportLost(c)
    [] s = "extended_thinking" -> ExtendedThinkingLost(c)
    [] s = "db2.vector" -> VectorLost(c)
    [] s \in {"aimee.api", "aimee.api (deployed)"} -> ApiLost(c)
    [] OTHER -> {}
=============================================================================
