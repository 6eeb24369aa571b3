---------------------------- MODULE LearningSections ----------------------------
(***************************************************************************)
(* The sections of the configuration about what the program learns and     *)
(* what it does unattended: learning, intelligence, the charter, triggers  *)
(* and scheduled jobs.  Laid out as MemorySections.  An entry of a list of *)
(* rules or of jobs is a section of its own.                               *)
(***************************************************************************)
EXTENDS SettingKinds

RouterReads == [enabled |-> Flag, ttl_days |-> Positive, max_commits_per_week |-> Positive]
RouterDefaults == [enabled |-> 1, ttl_days |-> 7, max_commits_per_week |-> 25]
RouterSetters == DOMAIN RouterReads
RouterWritten(c) == When(Differing(c, RouterDefaults) # {}, DOMAIN RouterReads)

ImplicitReads ==
  All(Flag, {"citation_repair", "citation_continuation", "repeat_question",
             "repeated_correction", "workflow_repetition"})
ImplicitDefaults == All(1, {"citation_repair", "citation_continuation"})
ImplicitSetters == DOMAIN ImplicitReads
ImplicitWritten(c) ==
  When(Differing(c, Filled(ImplicitReads, ImplicitDefaults)) # {}, DOMAIN ImplicitReads)

LearnSynthReads ==
  [enabled |-> Number, max_tokens |-> Positive, k |-> Positive, command |-> AnyText,
   prompt_version |-> Text, model_version |-> Text]
LearnSynthDefaults ==
  [max_tokens |-> 2048, k |-> 8, prompt_version |-> "v1", model_version |-> "v1"]
LearnSynthSetters == {"enabled", "max_tokens", "k"}
LearnSynthTextSetters == {"command", "model_version", "prompt_version"}

ReviewReads ==
  [scheduler_enabled |-> Switch, idle_trigger_minutes |-> Positive,
   session_cooldown_hours |-> NonNegative, batch_cap |-> Positive]
ReviewDefaults ==
  [scheduler_enabled |-> 1, idle_trigger_minutes |-> 30, session_cooldown_hours |-> 24,
   batch_cap |-> 10]
ReviewSetters == DOMAIN ReviewReads

-----------------------------------------------------------------------------

\* intelligence.  Probabilities, thresholds and priors are in thousandths.
Taus == [tau_memory_auto |-> 700, tau_memory_flag |-> 550, tau_working_profile_auto |-> 800,
         tau_working_profile_flag |-> 650]
Versions == [prompt_version |-> "v1", model_version |-> "beta-binomial-v1"]
CalibrateReads ==
  [enabled |-> Number, command |-> AnyText, buckets |-> Within(2, 100),
   prior_alpha0 |-> AtLeast(1), prior_beta0 |-> AtLeast(1),
   credible_delta |-> Within(1, 999), conformal_window |-> Positive,
   conformal_epsilon |-> Within(1, 999)]
  @@ All(Number, DOMAIN Taus) @@ All(Text, DOMAIN Versions)
CalibrateDefaults ==
  [enabled |-> 1, command |-> "", buckets |-> 10, prior_alpha0 |-> 2000,
   prior_beta0 |-> 1000, credible_delta |-> 100, conformal_window |-> 500,
   conformal_epsilon |-> 50] @@ Taus
CalibrateTextSetters == {"command"} \cup DOMAIN Versions
CalibrateSetters == DOMAIN CalibrateReads \ CalibrateTextSetters
CalibrateWritten(c) ==
  When(Differing(c, CalibrateDefaults) # {},
       (DOMAIN CalibrateReads \ {"command"}) \cup NonEmpty(c, {"command"}))
\* The versions are written with the section, and do not open it.
CalibrateLost(c) == When(CalibrateWritten(c) = {}, Differing(c, Versions))

DemotionReads == [enabled |-> Number, window |-> Positive, half_life_days |-> AtLeast(1),
                  n_min |-> Positive]
DemotionDefaults == [enabled |-> 1, window |-> 64, half_life_days |-> 30000, n_min |-> 5]
DemotionSetters == DOMAIN DemotionReads
DemotionWritten(c) == When(Differing(c, DemotionDefaults) # {}, DOMAIN DemotionReads)

BanditReads ==
  [command |-> AnyText, default_exploration_fraction |-> NonNegative,
   ipw_weight_cap |-> AtLeast(1), live_decision_enabled |-> Number,
   exploration_window_seconds |-> Positive]
BanditDefaults ==
  [default_exploration_fraction |-> 50, ipw_weight_cap |-> 10000,
   exploration_window_seconds |-> 604800]
\* The flag has no generated setter.
BanditSetters == DOMAIN BanditDefaults
BanditTextSetters == {"command"}
BanditWritten(c) ==
  When(Differing(c, Filled(BanditReads, BanditDefaults)) # {},
       (DOMAIN BanditReads \ {"command"}) \cup NonEmpty(c, {"command"}))

RankingFlags == {"kb_ranker_enabled", "drift_detect_shadow_enabled", "fit.enabled"}
RankingTexts == {"ranker_fuse_command", "fusion_mode", "fit.command", "fit.benchmark",
                 "fit.objective"}
RankingReads ==
  All(AnyText, RankingTexts)
  @@ All(Number, RankingFlags \cup {"fusion_static_alpha", "fit.min_groups", "fit.bench_k"})
RankingDefaults == [fusion_mode |-> "rrf", fusion_static_alpha |-> 500]
RankingSetters == {"fusion_static_alpha", "kb_ranker_enabled", "fit.enabled",
                   "fit.min_groups", "fit.bench_k"}
RankingTextSetters == RankingTexts

ReasoningReads == [reasoning_datalog_command |-> AnyText, row_budget |-> Positive,
                   time_limit_ms |-> Positive]
ReasoningSetters == {"row_budget", "time_limit_ms"}
ReasoningTextSetters == {"reasoning_datalog_command"}

PlannerTexts == {"planner_search_command", "constraint_solver_command"}
PlannerReads == All(AnyText, PlannerTexts)
                @@ [budget_default |-> Positive, exploration_constant |-> AtLeast(1)]
PlannerDefaults == [budget_default |-> 32, exploration_constant |-> 1410]
PlannerSetters == DOMAIN PlannerDefaults
PlannerTextSetters == PlannerTexts

MdlReads ==
  [mdl_tiebreak_enabled |-> Number, mdl_bump_drift_alert |-> NonNegative,
   synthesize_command |-> AnyText, synthesize_n_attempts |-> Positive,
   reflection_shadow |-> Number]
MdlDefaults ==
  [mdl_tiebreak_enabled |-> 1, mdl_bump_drift_alert |-> 300, synthesize_n_attempts |-> 3]
MdlTextSetters == {"synthesize_command"}
MdlSetters == DOMAIN MdlReads \ MdlTextSetters

\* Read, and no save writes them.
UnsavedLearning == {"learning.synthesize", "learning.review", "intelligence.ranking",
                    "intelligence.reasoning", "intelligence.planner",
                    "intelligence.synthesize"}

-----------------------------------------------------------------------------

CharterLists == {"safety_axioms", "hard_constraints", "values", "tone_boundaries"}
CharterReads == All(AnyText, CharterLists) @@ [working_profile_drift_limit |-> NonNegative]
CharterSetters == {"working_profile_drift_limit"}
CharterWritten(c) ==
  NonEmpty(c, CharterLists) \cup On(c, {"working_profile_drift_limit"})

TriggerReads == [max_concurrent |-> Positive]
TriggerDefaults == [max_concurrent |-> 2]
TriggerSetters == {"max_concurrent"}
TriggerWritten(c) == Differing(c, TriggerDefaults)

RuleReads ==
  All(Text, {"source", "event", "schedule", "template", "workspace"})
  @@ [mode |-> OneOf({"autonomous", "interactive"}), max_spend_usd |-> Number]
RuleWritten(c) ==
  NonEmpty(c, {"source", "event", "schedule", "mode", "template", "workspace"})
  \cup On(c, {"max_spend_usd"})

\* A mode that is not one of the three draws a warning and is kept.
JobTexts == {"id", "schedule", "mode", "script", "prompt", "workdir", "context_from",
             "when_context_contains", "skills", "deliver.target"}
DeliverFlags == {"only_if_changed", "first_run_silent"}
JobReads == All(Text, JobTexts) @@ All(Flag, DeliverFlags \cup {"pre_wake_gate", "enabled"})
JobDefaults == [mode |-> "llm", enabled |-> 1]
JobWritten(c) ==
  {"pre_wake_gate", "enabled"} \cup NonEmpty(c, JobTexts)
  \cup When(c["deliver.target"] # "" \/ On(c, DeliverFlags) # {}, DeliverFlags)

-----------------------------------------------------------------------------

LearningNames ==
  {"learning.router", "learning.implicit", "learning.synthesize",
   "learning.review", "intelligence.calibrate", "intelligence.demotion",
   "intelligence.bandit", "intelligence.ranking", "intelligence.reasoning",
   "intelligence.planner", "intelligence.synthesize", "charter", "trigger",
   "trigger_rules[]", "cron_jobs[]"}
LearningTable ==
  [s \in LearningNames |->
     CASE s = "learning.router" -> Row(RouterReads, RouterDefaults, RouterSetters)
       [] s = "learning.implicit" -> Row(ImplicitReads, ImplicitDefaults, ImplicitSetters)
       [] s = "learning.synthesize" ->
              Row(LearnSynthReads, LearnSynthDefaults,
                  LearnSynthSetters \cup LearnSynthTextSetters)
       [] s = "learning.review" -> Row(ReviewReads, ReviewDefaults, ReviewSetters)
       [] s = "intelligence.calibrate" ->
              Row(CalibrateReads, CalibrateDefaults @@ Versions,
                  CalibrateSetters \cup CalibrateTextSetters)
       [] s = "intelligence.demotion" -> Row(DemotionReads, DemotionDefaults, DemotionSetters)
       [] s = "intelligence.bandit" ->
              Row(BanditReads, BanditDefaults, BanditSetters \cup BanditTextSetters)
       [] s = "intelligence.ranking" ->
              Row(RankingReads, RankingDefaults, RankingSetters \cup RankingTextSetters)
       [] s = "intelligence.reasoning" ->
              Row(ReasoningReads, Zeroed, ReasoningSetters \cup ReasoningTextSetters)
       [] s = "intelligence.planner" ->
              Row(PlannerReads, PlannerDefaults, PlannerSetters \cup PlannerTextSetters)
       [] s = "intelligence.synthesize" ->
              Row(MdlReads, MdlDefaults, MdlSetters \cup MdlTextSetters)
       [] s = "charter" -> Row(CharterReads, Zeroed, CharterSetters)
       [] s = "trigger" -> Row(TriggerReads, TriggerDefaults, TriggerSetters)
       [] s = "trigger_rules[]" -> Row(RuleReads, Zeroed, {})
       [] s = "cron_jobs[]" -> Row(JobReads, JobDefaults, {})]

LearningWritten(s, c) ==
  CASE s = "learning.router" -> RouterWritten(c)
    [] s = "learning.implicit" -> ImplicitWritten(c)
    [] s = "intelligence.calibrate" -> CalibrateWritten(c)
    [] s = "intelligence.demotion" -> DemotionWritten(c)
    [] s = "intelligence.bandit" -> BanditWritten(c)
    [] s = "charter" -> CharterWritten(c)
    [] s = "trigger" -> TriggerWritten(c)
    [] s = "trigger_rules[]" -> RuleWritten(c)
    [] s = "cron_jobs[]" -> JobWritten(c)
    [] s \in UnsavedLearning -> {}

LearningLost(s, c) ==
  CASE s = "intelligence.calibrate" -> CalibrateLost(c)
    [] s \in UnsavedLearning -> Differing(c, LearningTable[s].defaults)
    [] OTHER -> {}
=============================================================================
