------------------------------- MODULE KbSections -------------------------------
(***************************************************************************)
(* The sections of the configuration about the knowledge base: the curator *)
(* and the tier that drives its stages, typed facts, evidence, upkeep, and *)
(* the settings that are read and never saved.  Laid out as                *)
(* MemorySections.                                                         *)
(***************************************************************************)
EXTENDS SettingKinds

\* The stages the tier "lite" keeps, those it drops, and those with a size.
LiteStages == {"extract_docs", "extract_code", "resolve_entities", "index_narrative",
               "index_claims"}
DeepStages == {"detect_contradictions", "index_code_unit", "link_artifacts",
               "projection_graph"}
SizedStages == {"synthesize", "promote_entity"}
Stages == LiteStages \cup DeepStages \cup SizedStages
\* The size of a sized stage.
SizeOf == [synthesize |-> "k", promote_entity |-> "min_sources"]
StageSizes == [k |-> 8, min_sources |-> 3]

\* kb_curator_tier_stage_on: an unknown tier is a full one.
StageOn(tier, lite) ==
  CASE tier = "off" -> 0
    [] tier = "lite" -> lite
    [] OTHER -> 1

TierOf(doc) == IF "tier" \in DOMAIN doc /\ Accepts(Text, doc["tier"]) THEN doc["tier"] ELSE "full"

CuratorReads == [tier |-> Text] @@ All(Flag, Stages) @@ All(Positive, DOMAIN StageSizes)
CuratorDefaults == [tier |-> "full"] @@ All(1, Stages) @@ StageSizes
\* kb_curator_apply_tier, before the keys of the stages are read.
CuratorStart(doc) ==
  [k \in LiteStages |-> StageOn(TierOf(doc), 1)]
  @@ [k \in Stages |-> StageOn(TierOf(doc), 0)]
  @@ CuratorDefaults
LiteSetters == LiteStages
DeepSetters == DeepStages
SizedSetters == SizedStages \cup DOMAIN StageSizes
TierSetters == {"tier"}
TierWritten(c) == When(c.tier \notin {"", "full"}, {"tier"})
StageWritten(c) ==
  On(c, LiteStages \cup DeepStages)
  \cup {s \in SizedStages : c[s] # 0 \/ SizeOf[s] \in Differing(c, StageSizes)}
  \cup Differing(c, StageSizes)
CuratorWritten(c) == TierWritten(c) \cup StageWritten(c)
\* A stage that is off and that the tier has on is not written, and is on again.
CuratorLost(c) ==
  LET start == CuratorStart([k \in TierWritten(c) |-> c[k]])
  IN  {s \in Stages : c[s] = 0 /\ start[s] = 1} \ StageWritten(c)

\* kb.curator.cross_repo_graph, a stage with limits; the tier drives it too.
CrossRepoLimits ==
  [distinctiveness_v |-> 1, k |-> 5, m |-> 8, p_pct |-> 25, len_min |-> 4,
   caller_collision_c |-> 5, max_candidates |-> 50000, query_timeout_ms |-> 5000,
   review_queue_max |-> 5000]
CrossRepoReads ==
  [tier |-> Text, enabled |-> Flag]
  @@ [distinctiveness_v |-> Within(1, 1000000), k |-> Within(1, 100000),
      m |-> Within(1, 100000), p_pct |-> Within(1, 100), len_min |-> Within(1, 1024),
      caller_collision_c |-> Within(1, 100000), max_candidates |-> Within(1, 100000000),
      query_timeout_ms |-> Within(1, 600000), review_queue_max |-> Within(1, 100000000)]
CrossRepoDefaults == [tier |-> "full", enabled |-> 1] @@ CrossRepoLimits
CrossRepoStart(doc) == [enabled |-> StageOn(TierOf(doc), 0)] @@ CrossRepoDefaults
CrossRepoSetters == {"enabled"} \cup DOMAIN CrossRepoLimits
CrossRepoWritten(c) ==
  LET limits == Differing(c, CrossRepoLimits)
  IN  TierWritten(c) \cup When(c.enabled = 0 \/ limits # {}, {"enabled"} \cup limits)
\* On under a tier that has it off, with no limit changed, it is not written.
CrossRepoLost(c) ==
  When(/\ c.enabled # 0 /\ StageOn(c.tier, 0) = 0
       /\ Differing(c, CrossRepoLimits) = {}, {"enabled"})

\* The rest of kb.curator.
CuratorCommands == {"extract_command", "judge_command", "synthesize_command", "base_url"}
CuratorTexts == {"extract_prompt_version", "embed_model_version",
                 "invalidation_notify_socket", "stage_order", "user_presets",
                 "custom_stages"}
CuratorWorkers == {"extract_docs.workers", "extract_code.workers"}
CuratorLimits == [extract_max_tokens |-> 4096, max_attempts |-> 3]
CuratorRestReads ==
  All(AnyText, CuratorCommands \cup CuratorTexts) @@ All(Within(1, 8), CuratorWorkers)
  @@ All(Positive, DOMAIN CuratorLimits)
CuratorRestDefaults == CuratorLimits @@ All(1, CuratorWorkers)
CuratorLimitSetters == DOMAIN CuratorLimits
CuratorWorkerSetters == CuratorWorkers
CuratorTextSetters == CuratorTexts \cup {"extract_command"}
CuratorCommandSetters == CuratorCommands \ {"extract_command"}
CuratorRestWritten(c) == NonEmpty(c, CuratorCommands) \cup Differing(c, CuratorLimits)
\* Read, and not saved.
CuratorRestLost(c) == NonEmpty(c, CuratorTexts) \cup {k \in CuratorWorkers : c[k] # 1}

TypedFactsReads == [enabled |-> Flag, auto_promote |-> Flag, promote_threshold |-> Positive]
TypedFactsDefaults == [enabled |-> 1, auto_promote |-> 1, promote_threshold |-> 3]
TypedFactsSetters == {"auto_promote", "promote_threshold"}
TypedFactsWritten(c) ==
  When(c.enabled # 0 \/ c.auto_promote = 0 \/ c.promote_threshold # 3,
       {"enabled", "auto_promote"} \cup When(c.promote_threshold # 3, {"promote_threshold"}))
\* On by default, and written only when on or with another setting.
TypedFactsLost(c) == When(TypedFactsWritten(c) = {}, {"enabled"})

\* kb.evidence.embed is read only when there is a kb.curator object, which a save
\* writes as long as something of it is not idle: a stage is on, or a setting is not at
\* its default.
EvidenceReads == [curator |-> OneOf({"stages", "idle"}), enabled |-> Flag, batch |-> Positive]
EvidenceDefaults == [curator |-> "stages", enabled |-> 1, batch |-> 32]
EvidenceForced(doc) ==
  IF "curator" \in DOMAIN doc /\ doc.curator # Wrong THEN Zeroed
  ELSE [enabled |-> 1, batch |-> 32]
\* A setter of kb.curator may turn the last stage off.
EvidenceEmbedSetters == {"enabled", "batch", "curator"}
EvidenceWritten(c) ==
  When(c.curator # "idle", {"curator"})
  \cup When(c.enabled = 0 \/ c.batch # 32, {"enabled"} \cup When(c.batch # 32, {"batch"}))
\* The idle curator comes back with its stages on, and nothing reads what was saved here.
EvidenceLost(c) ==
  When(c.curator = "idle",
       {"curator"} \cup When(c.enabled = 0, {"enabled"}) \cup When(c.batch # 32, {"batch"}))

\* Shares, in thousandths.
UpkeepReads ==
  [enabled |-> Flag, interval_hours |-> Positive, lambda |-> AtLeast(1),
   floor |-> Within(0, 1000), min_age_days |-> NonNegative,
   orphan_prune_days |-> NonNegative]
UpkeepDefaults ==
  [enabled |-> 0, interval_hours |-> 24, lambda |-> 5, floor |-> 100, min_age_days |-> 7,
   orphan_prune_days |-> 90]
UpkeepSetters == DOMAIN UpkeepReads
UpkeepWritten(c) ==
  When(Differing(c, UpkeepDefaults) # {}, DOMAIN UpkeepReads)

-----------------------------------------------------------------------------

\* Sections of kb that no save writes.
KbApiReads ==
  [http_port |-> Number, worker_count |-> Clamped(0, 32),
   connection_pool_size |-> Clamped(0, 256), connection_workers |-> Clamped(1, 8),
   reembed_on_dim_change |-> Flag, purge_fence_ttl_s |-> Positive,
   search_max_results |-> Positive]
KbApiDefaults == [worker_count |-> 4, connection_workers |-> 2, purge_fence_ttl_s |-> 900,
                  search_max_results |-> 50]
KbPortSetters == {"http_port"}
KbApiSetters == {"reembed_on_dim_change", "purge_fence_ttl_s"}
WorkerSetters == {"worker_count", "connection_pool_size", "connection_workers"}
SearchMaxSetters == {"search_max_results"}

IngestReads ==
  All(Flag, {"ingest_enabled", "watch_enabled", "mining_enabled",
              "failure_learning_enabled"})
  @@ All(Number, {"interval_hours", "watch_debounce_secs"}) @@ [mining_min_poll_s |-> Positive]
IngestDefaults ==
  All(1, {"ingest_enabled", "watch_enabled", "mining_enabled"})
  @@ [interval_hours |-> 6, watch_debounce_secs |-> 30, mining_min_poll_s |-> 300]
IngestSetters == {"ingest_enabled", "watch_enabled", "interval_hours", "watch_debounce_secs"}
MiningSetters == {"mining_enabled", "failure_learning_enabled", "mining_min_poll_s"}

HybridWeights == {"weight_code", "weight_graph", "weight_vector", "weight_memory"}
CodeHybridReads ==
  All(Number, HybridWeights \cup {"surprising_precision_floor"}) @@ [rrf_k |-> AtLeast(1)]
CodeHybridDefaults == All(1000, HybridWeights) @@ [rrf_k |-> 60000]
CodeHybridSetters == DOMAIN CodeHybridReads

ContextReads == [engine |-> Text]
ContextSetters == {"engine"}

UnsavedKb == {"kb.api", "kb.background", "kb.code_hybrid", "context"}

-----------------------------------------------------------------------------

KbNames ==
  {"kb.curator", "kb.curator.cross_repo_graph", "kb.curator (the rest)",
   "kb.typed_facts", "kb.evidence.embed", "kb.maintenance", "kb.api",
   "kb.background", "kb.code_hybrid", "context"}
KbTable ==
  [s \in KbNames |->
     CASE s = "kb.curator" ->
              Row(CuratorReads, CuratorDefaults,
                  LiteSetters \cup DeepSetters \cup SizedSetters \cup TierSetters)
       [] s = "kb.curator.cross_repo_graph" ->
              Row(CrossRepoReads, CrossRepoDefaults, CrossRepoSetters \cup TierSetters)
       [] s = "kb.curator (the rest)" ->
              Row(CuratorRestReads, CuratorRestDefaults,
                  CuratorLimitSetters \cup CuratorWorkerSetters
                    \cup CuratorTextSetters \cup CuratorCommandSetters)
       [] s = "kb.typed_facts" -> Row(TypedFactsReads, TypedFactsDefaults, TypedFactsSetters)
       [] s = "kb.evidence.embed" ->
              Row(EvidenceReads, EvidenceDefaults, EvidenceEmbedSetters)
       [] s = "kb.maintenance" -> Row(UpkeepReads, UpkeepDefaults, UpkeepSetters)
       [] s = "kb.api" ->
              Row(KbApiReads, KbApiDefaults,
                  KbPortSetters \cup KbApiSetters \cup WorkerSetters \cup SearchMaxSetters)
       [] s = "kb.background" ->
              Row(IngestReads, IngestDefaults, IngestSetters \cup MiningSetters)
       [] s = "kb.code_hybrid" -> Row(CodeHybridReads, CodeHybridDefaults, CodeHybridSetters)
       [] s = "context" -> Row(ContextReads, Zeroed, ContextSetters)]

KbWritten(s, c) ==
  CASE s = "kb.curator" -> CuratorWritten(c)
    [] s = "kb.curator.cross_repo_graph" -> CrossRepoWritten(c)
    [] s = "kb.curator (the rest)" -> CuratorRestWritten(c)
    [] s = "kb.typed_facts" -> TypedFactsWritten(c)
    [] s = "kb.evidence.embed" -> EvidenceWritten(c)
    [] s = "kb.maintenance" -> UpkeepWritten(c)
    [] s \in UnsavedKb -> {}

KbLost(s, c) ==
  CASE s = "kb.curator" -> CuratorLost(c)
    [] s = "kb.curator.cross_repo_graph" -> CrossRepoLost(c)
    [] s = "kb.curator (the rest)" -> CuratorRestLost(c)
    [] s = "kb.typed_facts" -> TypedFactsLost(c)
    [] s = "kb.evidence.embed" -> EvidenceLost(c)
    [] s \in UnsavedKb -> Differing(c, KbTable[s].defaults)
    [] OTHER -> {}
=============================================================================
