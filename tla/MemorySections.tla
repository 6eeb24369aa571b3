--------------------------- MODULE MemorySections ---------------------------
(***************************************************************************)
(* The memory sections of the configuration: what each parser reads, the   *)
(* defaults, the generated setters, what config_save writes, and what it   *)
(* loses.  A section is named by its path in the file and a setting by its *)
(* key there.  memory.dispositions is not a table: it is left out.         *)
(***************************************************************************)
EXTENDS SettingKinds

-----------------------------------------------------------------------------
(* Sections that config_save writes.                                       *)

SalienceReads ==
  All(Flag, {"enabled", "surprise_enabled"})
  @@ All(NonNegative, {"weight", "surprise_weight"}) @@ ("window_size" :> Positive)
SalienceSetters == DOMAIN SalienceReads
\* Mutant: the block does not open for the window alone.
SalienceNarrow(c) ==
  Block(c, On(c, {"enabled", "surprise_enabled"}) # {} \/ c.weight > 0,
        {"enabled", "surprise_enabled"}, {"weight", "surprise_weight"})
SalienceWritten(c) ==
  Block(c, On(c, {"enabled", "surprise_enabled"}) # {},
        {"enabled", "surprise_enabled"}, {"weight", "window_size", "surprise_weight"})

PagerankReads == [enabled |-> Flag, iterations |-> Positive, weight |-> NonNegative,
                  relations |-> Text]
PagerankSetters == {"enabled", "iterations", "weight"}
PagerankWritten(c) ==
  Block(c, c.enabled # 0 \/ c.relations # "", {"enabled"} \cup NonEmpty(c, {"relations"}),
        {"iterations", "weight"})

CorefReads == [mode |-> Text, window |-> Positive]
CorefSetters == {"window"}
CorefWritten(c) ==
  When(c.mode \notin {"", "off"} \/ c.window > 0,
       NonEmpty(c, {"mode"}) \cup Above0(c, {"window"}))

\* config_parse_memory_citations wants off, required or verify; then
\* config_parse_memory_section takes any string over it.
CitationsReads == All(Flag, {"reprompt_on_miss", "strip_unverified"}) @@ ("mode" :> Text)
CitationsSetters == {"reprompt_on_miss", "strip_unverified"}
CitationsWritten(c) ==
  When(c.mode \notin {"", "off"} \/ On(c, CitationsSetters) # {},
       CitationsSetters \cup NonEmpty(c, {"mode"}))

ModesOff == [mode |-> "off"]

CognifyReads == All(Flag, {"async.enabled", "enabled"}) @@ All(Text, {"model", "command"})
CognifySetters == {"async.enabled", "enabled"}
CognifyWritten(c) == On(c, {"async.enabled"})
CognifyLost(c) == On(c, {"enabled"}) \cup NonEmpty(c, {"model", "command"})

\* Setters of the strings of this part of the configuration.
CorefTextSetters == [coref |-> {"mode"}, cognify |-> {"model", "command"}]
MemoryTextSetters ==
  [pagerank |-> {"relations"}, citations |-> {"mode"}, rewrite |-> {"command"},
   query_expansion |-> {"mode"}, recall_lanes |-> {"summary_kinds", "fact_kinds"},
   hard_negative |-> {"hard_negative_log"}]

ProfileCardsReads == All(Positive, {"min_observations", "stale_secs"}) @@ ("enabled" :> Flag)
ProfileCardsSetters == DOMAIN ProfileCardsReads
ProfileCardsWritten(c) ==
  Block(c, c.enabled = 0, {"enabled"}, {"min_observations", "stale_secs"})

ImproveReads == All(Flag, {"dedupe_enabled", "summarise_enabled"})
                @@ [min_cluster |-> Positive, max_confidence |-> Number]
ImproveSetters == DOMAIN ImproveReads
ImproveWritten(c) ==
  Block(c, c.dedupe_enabled = 0 \/ c.summarise_enabled # 0,
        {"dedupe_enabled", "summarise_enabled"}, {"min_cluster", "max_confidence"})
ImproveLost(c) == Below0(c, {"max_confidence"})

\* What profile_cards, improve, directives and hyde are unless turned off.
MemoryOnDefaults ==
  [profile_cards |-> [enabled |-> 1], improve |-> [dedupe_enabled |-> 1],
   directives |-> [enabled |-> 1], rewrite |-> [hyde |-> 1]]

\* Objects with a flag and a size, any number, that is written above 0.
LimitReads(size) == ("enabled" :> Flag) @@ (size :> Number)
LimitWritten(c, size) == Block(c, c.enabled # 0, {"enabled"}, {size})
BriefingReads == LimitReads("limit_tokens")
BriefingWritten(c) == LimitWritten(c, "limit_tokens")
AggregationReads == LimitReads("max_items")
AggregationWritten(c) == LimitWritten(c, "max_items")
ProspectiveReads == LimitReads("max_matches")
ProspectiveWritten(c) == LimitWritten(c, "max_matches")
LimitSetters(size) == {"enabled", size}

LifecycleSizes == {"ttl_date_days", "ttl_relative_days", "ttl_open_ended_days"}
LifecycleReads == All(Flag, {"enabled", "hide_archived"}) @@ All(Number, LifecycleSizes)
LifecycleSetters == DOMAIN LifecycleReads
LifecycleWritten(c) ==
  Block(c, On(c, {"enabled", "hide_archived"}) # {}, {"enabled", "hide_archived"},
        LifecycleSizes)

RecallSizes == {"limit_tokens_session", "limit_tokens_turn"}
RecallReads == All(Number, RecallSizes) @@ ("enabled" :> Flag)
RecallSetters == DOMAIN RecallReads
RecallWritten(c) == Block(c, c.enabled # 0, {"enabled"}, RecallSizes)

DirectivesSizes == {"failure_threshold", "max_matches"}
DirectivesReads == All(Number, DirectivesSizes) @@ ("enabled" :> Flag)
DirectivesSetters == DOMAIN DirectivesReads
DirectivesWritten(c) == Block(c, c.enabled = 0, {"enabled"}, DirectivesSizes)

\* With it goes kb.curator.provider.model, which is parsed first.
RewriteReads == All(Flag, {"enabled", "hyde", "decompose"})
                @@ All(AnyText, {"provider.model"})
                @@ [command |-> Text, max_subqueries |-> Positive]
RewriteSetters == {"enabled", "hyde", "decompose", "max_subqueries"}
ProviderModelSetters == {"provider.model"}
RewriteWritten(c) ==
  NonEmpty(c, ProviderModelSetters)
  \cup When(c.enabled # 0 \/ c.command # "",
            {"enabled", "hyde", "decompose"} \cup NonEmpty(c, {"command"})
               \cup Above0(c, {"max_subqueries"}))

\* E4B and E2B, which run on a CPU, stand for themselves; any other model is
\* accelerated.
model_is_cpu_only(model) == model \in {"", "e4b", "e2b"}
\* config_apply_inference_backend_defaults: rewriting is on by default when the
\* model of the document is accelerated.
RewriteStart(doc) ==
  LET model == IF "provider.model" \in DOMAIN doc /\ doc["provider.model"] # Wrong
               THEN doc["provider.model"] ELSE ""
  IN  Filled(RewriteReads, [hyde |-> 1,
                            enabled |-> IF model_is_cpu_only(model) THEN 0 ELSE 1])
\* The block waits for enabled or command, so that an explicit "enabled: false"
\* is not written and an accelerated model turns it on again.
RewriteLost(c) ==
  When(c.enabled = 0 /\ c.command = "",
       Differing(c, [hyde |-> 1, decompose |-> 0, max_subqueries |-> 0])
       \cup When(~model_is_cpu_only(c["provider.model"]), {"enabled"}))

QueryExpansionReads == [mode |-> Text, k |-> Positive]
QueryExpansionSetters == {"k"}
QueryExpansionWritten(c) == NonEmpty(c, {"mode"}) \cup Above0(c, {"k"})

MaintenanceFlags == {"enabled", "summarize_enabled"}
MaintenanceSizes == {"trigger_inserts", "trigger_secs", "interval_seconds"}
MaintenanceReads == All(NonNegative, MaintenanceSizes) @@ All(Flag, MaintenanceFlags)
MaintenanceSetters == MaintenanceFlags \cup MaintenanceSizes
MaintenanceWritten(c) == On(c, MaintenanceFlags) \cup Above0(c, MaintenanceSizes)

-----------------------------------------------------------------------------
(* Settings that are parsed and have setters, and that no save writes.     *)

NegationReads == [enabled |-> Flag]
NegationSetters == {"enabled"}
NegationDefaults == [enabled |-> 1]

LanesReads == All(Text, {"summary_kinds", "fact_kinds"})
              @@ All(Positive, {"k_summary", "k_fact"})
              @@ All(NonNegative, {"floor_summary", "floor_fact"}) @@ ("enabled" :> Flag)
LanesSetters == {"enabled", "k_summary", "k_fact", "floor_summary", "floor_fact"}
LanesDefaults == [floor_summary |-> 4, floor_fact |-> 4]

WindowReads == [radius |-> NonNegative]
WindowSetters == {"radius"}

\* memory.scenes, .episode_summaries, .derive_facts, .failure_detection, .abstain
JudgementReads ==
  All(Flag, {"scenes.enabled", "episode_summaries.enabled", "derive_facts.enabled",
             "failure_detection.enabled", "abstain.enabled"})
  @@ All(Within(0, 1000), {"abstain.gate", "abstain.chunk_min_confidence"})
  @@ ("scenes.global_escape_ratio" :> Number) @@ ("failure_detection.threshold" :> NonNegative)
JudgementSetters == DOMAIN JudgementReads \ {"derive_facts.enabled"}

\* memory.context_budget, .routing, the weights, .fetch_budget
FetchReads ==
  All(Flag, {"context_budget.enabled", "routing.enabled", "fetch_budget.enabled",
             "fetch_budget.shape_aware"})
  @@ All(NonNegative, {"bm25_weight", "semantic_weight", "semantic_floor_scale"})
  @@ ("context_budget.tokens" :> Positive) @@ ("fetch_budget.base" :> Within(32, 512))
  @@ ("hard_negative_log" :> Text)
ContextBudgetSetters == {"context_budget.enabled", "context_budget.tokens"}
FetchSetters == {"bm25_weight", "semantic_weight", "fetch_budget.enabled",
                 "fetch_budget.base", "fetch_budget.shape_aware"}

\* Defaults of the settings of memory.scenes to memory.routing.
UnsavedMemoryDefaults ==
  ("scenes.global_escape_ratio" :> 200) @@ ("fetch_budget.base" :> 128)
  @@ ("fetch_budget.shape_aware" :> 1) @@ ("routing.enabled" :> 1)

MemoryUnsaved == {"memory_negation", "memory_recall_lanes", "memory_window",
                  "memory (judgement)", "memory (fetch)"}

-----------------------------------------------------------------------------

MemoryNames ==
  {"memory.salience", "memory.pagerank", "memory.coref", "memory.citations",
   "memory.cognify", "memory.profile_cards", "memory.improve", "memory.briefing",
   "memory.aggregation", "memory.prospective", "memory.lifecycle", "memory.recall",
   "memory.directives", "memory.rewrite", "memory_query_expansion",
   "memory_maintenance", "memory_negation", "memory_recall_lanes", "memory_window",
   "memory (judgement)", "memory (fetch)"}
MemoryTable ==
  [s \in MemoryNames |->
     CASE s = "memory.salience" -> Row(SalienceReads, Zeroed, SalienceSetters)
       [] s = "memory.pagerank" ->
              Row(PagerankReads, Zeroed, PagerankSetters \cup MemoryTextSetters.pagerank)
       [] s = "memory.coref" ->
              Row(CorefReads, ModesOff, CorefSetters \cup CorefTextSetters.coref)
       [] s = "memory.citations" ->
              Row(CitationsReads, ModesOff, CitationsSetters \cup MemoryTextSetters.citations)
       [] s = "memory.cognify" ->
              Row(CognifyReads, Zeroed, CognifySetters \cup CorefTextSetters.cognify)
       [] s = "memory.profile_cards" ->
              Row(ProfileCardsReads, MemoryOnDefaults.profile_cards, ProfileCardsSetters)
       [] s = "memory.improve" -> Row(ImproveReads, MemoryOnDefaults.improve, ImproveSetters)
       [] s = "memory.briefing" -> Row(BriefingReads, Zeroed, LimitSetters("limit_tokens"))
       [] s = "memory.aggregation" -> Row(AggregationReads, Zeroed, LimitSetters("max_items"))
       [] s = "memory.prospective" ->
              Row(ProspectiveReads, Zeroed, LimitSetters("max_matches"))
       [] s = "memory.lifecycle" -> Row(LifecycleReads, Zeroed, LifecycleSetters)
       [] s = "memory.recall" -> Row(RecallReads, Zeroed, RecallSetters)
       [] s = "memory.directives" ->
              Row(DirectivesReads, MemoryOnDefaults.directives, DirectivesSetters)
       [] s = "memory.rewrite" ->
              Row(RewriteReads, MemoryOnDefaults.rewrite,
                  RewriteSetters \cup ProviderModelSetters \cup MemoryTextSetters.rewrite)
       [] s = "memory_query_expansion" ->
              Row(QueryExpansionReads, Zeroed,
                  QueryExpansionSetters \cup MemoryTextSetters.query_expansion)
       [] s = "memory_maintenance" -> Row(MaintenanceReads, Zeroed, MaintenanceSetters)
       [] s = "memory_negation" -> Row(NegationReads, NegationDefaults, NegationSetters)
       [] s = "memory_recall_lanes" ->
              Row(LanesReads, LanesDefaults, LanesSetters \cup MemoryTextSetters.recall_lanes)
       [] s = "memory_window" -> Row(WindowReads, Zeroed, WindowSetters)
       [] s = "memory (judgement)" ->
              Row(JudgementReads, UnsavedMemoryDefaults, JudgementSetters)
       [] s = "memory (fetch)" ->
              Row(FetchReads, UnsavedMemoryDefaults,
                  ContextBudgetSetters \cup FetchSetters \cup MemoryTextSetters.hard_negative)]

MemoryWritten(s, c) ==
  CASE s = "memory.salience" -> SalienceWritten(c)
    [] s = "memory.pagerank" -> PagerankWritten(c)
    [] s = "memory.coref" -> CorefWritten(c)
    [] s = "memory.citations" -> CitationsWritten(c)
    [] s = "memory.cognify" -> CognifyWritten(c)
    [] s = "memory.profile_cards" -> ProfileCardsWritten(c)
    [] s = "memory.improve" -> ImproveWritten(c)
    [] s = "memory.briefing" -> BriefingWritten(c)
    [] s = "memory.aggregation" -> AggregationWritten(c)
    [] s = "memory.prospective" -> ProspectiveWritten(c)
    [] s = "memory.lifecycle" -> LifecycleWritten(c)
    [] s = "memory.recall" -> RecallWritten(c)
    [] s = "memory.directives" -> DirectivesWritten(c)
    [] s = "memory.rewrite" -> RewriteWritten(c)
    [] s = "memory_query_expansion" -> QueryExpansionWritten(c)
    [] s = "memory_maintenance" -> MaintenanceWritten(c)
    [] s \in MemoryUnsaved -> {}

\* A number that may be negative and is written above 0 is lost below it.
MemoryLost(s, c) ==
  CASE s = "memory.cognify" -> CognifyLost(c)
    [] s = "memory.improve" -> ImproveLost(c)
    [] s = "memory.rewrite" -> RewriteLost(c)
    [] s = "memory.briefing" -> Below0(c, {"limit_tokens"})
    [] s = "memory.aggregation" -> Below0(c, {"max_items"})
    [] s = "memory.prospective" -> Below0(c, {"max_matches"})
    [] s = "memory.lifecycle" -> Below0(c, LifecycleSizes)
    [] s = "memory.recall" -> Below0(c, RecallSizes)
    [] s = "memory.directives" -> Below0(c, DirectivesSizes)
    [] s \in MemoryUnsaved -> Differing(c, MemoryTable[s].defaults)
    [] OTHER -> {}
=============================================================================
