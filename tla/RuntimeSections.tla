--------------------------- MODULE RuntimeSections ---------------------------
(***************************************************************************)
(* The sections of the configuration that govern how agents run: retries,  *)
(* limits, concurrency, context compaction, autonomy, sandbox, sessions,   *)
(* skills.  Laid out as MemorySections.  A list is a text: "" when empty.  *)
(***************************************************************************)
EXTENDS SettingKinds

RetryReads == All(Number, {"max_attempts", "base_ms", "max_ms"})
RetrySetters == DOMAIN RetryReads
RetryWritten(c) == On(c, DOMAIN RetryReads)

\* Flat keys; config_parse_cross_verify_section reads the older object.
CrossVerifyReads == [cross_verify |-> Flag, verify_cmd |-> Text, verify_role |-> Text,
                     verify_prompt |-> Text]
CrossVerifySetters == {"cross_verify"}
CrossVerifyTextSetters == {"verify_cmd", "verify_role", "verify_prompt"}
CrossVerifyWritten(c) ==
  On(c, {"cross_verify"}) \cup NonEmpty(c, {"verify_cmd", "verify_role", "verify_prompt"})

\* Agent iteration and delegation limits, threads.
LimitsReads ==
  All(Number, {"max_iterations", "max_iterations_delegate", "max_delegation_depth",
               "max_delegation_spawns"})
  @@ All(Positive, {"background_threads", "session_threads", "delegate_max_inflight",
                    "max_background_processes"})
LimitsSetters == DOMAIN LimitsReads \ {"max_background_processes"}
BackgroundSetters == {"max_background_processes"}
LimitsWritten(c) == On(c, LimitsSetters)
BackgroundWritten(c) == Above0(c, BackgroundSetters)

ConcurrencySizes == {"default", "maximum_total_concurrent_agent_sessions"}
ConcurrencyLists == {"per_model", "per_provider"}
ConcurrencyReads ==
  All(Positive, ConcurrencySizes) @@ All(AnyText, ConcurrencyLists)
  @@ All(Flag, {"enabled", "single_slot_only"}) @@ ("requeue_max" :> NonNegative)
ConcurrencySetters == ConcurrencySizes
PreemptSetters == {"enabled", "single_slot_only", "requeue_max"}
ConcurrencyDefaults == [single_slot_only |-> 1, requeue_max |-> 1]
ConcurrencyWritten(c) ==
  On(c, ConcurrencySizes) \cup NonEmpty(c, ConcurrencyLists)
  \cup When(c.enabled # 0 \/ c.single_slot_only = 0, {"enabled"})
  \cup When(c.single_slot_only = 0, {"single_slot_only"})
  \cup When(c.enabled # 0 /\ c.requeue_max # 1, {"requeue_max"})
\* requeue_max is saved only while preemption is on.
ConcurrencyLost(c) == When(c.enabled = 0 /\ c.requeue_max # 1, {"requeue_max"})

CompactSizes == {"threshold", "head_bytes", "tail_bytes"}
CompactReads == All(Flag, {"enabled", "from_record"}) @@ All(Positive, CompactSizes)
                @@ ("per_tool" :> AnyText)
CompactSetters == {"enabled", "threshold", "head_bytes", "tail_bytes"}
CompactWritten(c) ==
  When(c.enabled = 0 \/ c.from_record # 0 \/ On(c, CompactSizes) # {} \/ c.per_tool # "",
       {"enabled"} \cup On(c, CompactSizes \cup {"from_record"}) \cup NonEmpty(c, {"per_tool"}))

ClosetSizes == {"budget_bytes", "max_ratio_pct"}
ClosetReads == All(Positive, ClosetSizes) @@ [enabled |-> Flag, denylist |-> AnyText]
ClosetSetters == {"enabled", "budget_bytes", "max_ratio_pct"}
ClosetTextSetters == {"denylist"}
ClosetWritten(c) ==
  When(c.enabled = 0 \/ On(c, ClosetSizes) # {} \/ c.denylist # "",
       {"enabled"} \cup On(c, ClosetSizes) \cup NonEmpty(c, {"denylist"}))

FoldSizes == {"retained_msgs", "min_fold_msgs", "excerpt_bytes"}
FoldReads ==
  All(Flag, {"enabled", "register_enabled", "freeze.enabled", "recall.enabled", "recall.inject"})
  @@ All(Positive, FoldSizes \cup {"freeze.tail_cap_msgs", "recall.ttl_turns"})
FoldSetters == DOMAIN FoldReads \ {"recall.inject"}
FoldDefaults == ("recall.enabled" :> 1)
FoldWritten(c) ==
  LET opt == On(c, FoldSizes \cup {"register_enabled"})
      freeze == On(c, {"freeze.enabled", "freeze.tail_cap_msgs"})
      recall == On(c, {"recall.enabled", "recall.ttl_turns"})
  IN  When(c.enabled # 0 \/ opt \cup freeze \cup recall # {},
           {"enabled"} \cup opt
           \cup When(freeze # {}, freeze \cup {"freeze.enabled"})
           \cup When(recall # {}, recall \cup {"recall.enabled"}
                                  \cup On(c, {"recall.inject"})))
\* fold.recall is on by default and is saved only when on, or with a ttl: to
\* turn it off does not last, and what it holds goes with it.
FoldLost(c) ==
  When(On(c, {"recall.enabled", "recall.ttl_turns"}) = {},
       {"recall.enabled"} \cup On(c, {"recall.inject"}))

ModulesReads ==
  All(Flag, {"memory", "governance", "delegates", "workflows", "roundtable", "economizer"})
ModulesSetters == DOMAIN ModulesReads
ModulesDefaults == All(-1, DOMAIN ModulesReads)
ModulesWritten(c) == Differing(c, ModulesDefaults)

EconModes == {"off", "safe", "aggressive"}
EconomizerReads == [mode |-> Named(EconModes, "safe")]
EconomizerSetters == {"mode"}
EconomizerDefaults == [mode |-> "safe"]
EconomizerWritten(c) == Differing(c, EconomizerDefaults)
\* The one section whose parser fails the load.
EconomizerLoads(doc) == "mode" \in DOMAIN doc => doc["mode"] \in EconModes

AutonomyReads ==
  All(Flag, {"fanout", "auto_resume_cap_parks"})
  @@ [skeptics |-> Clamped(0, 32), unit_retry |-> Clamped(0, 10),
      unit_max |-> Clamped(1, 256), ci_retry_max |-> Clamped(0, 20),
      max_turns |-> Clamped(1, 100000), max_wall_secs |-> Clamped(30, 86400),
      stale_abandon_secs |-> Clamped(0, 604800), concurrency |-> Clamped(1, 128),
      max_resumes |-> Clamped(0, 100000)]
AutonomySetters == DOMAIN AutonomyReads
AutonomyDefaults ==
  [skeptics |-> 0, fanout |-> 0, unit_retry |-> 2, unit_max |-> 16, ci_retry_max |-> 2,
   max_turns |-> 300, max_wall_secs |-> 1800, stale_abandon_secs |-> 3600,
   concurrency |-> 8, auto_resume_cap_parks |-> 1, max_resumes |-> 50]
AutonomyWritten(c) == Differing(c, AutonomyDefaults)

SessionsReads == All(Positive, {"stale_threshold_secs", "max_sessions", "max_worktrees"})
SessionsSetters == DOMAIN SessionsReads
SessionsWritten(c) == On(c, DOMAIN SessionsReads)

\* No generated setter: the block is edited by hand.
SandboxReads == [mode |-> OneOf({"off", "workspace_only", "allowlist"}),
                 network |-> Flag, allow_paths |-> AnyText]
SandboxDefaults == [mode |-> "workspace_only"]
SandboxWritten(c) ==
  When(c.mode # "workspace_only" \/ c.network # 0 \/ c.allow_paths # "",
       {"mode"} \cup On(c, {"network"}) \cup NonEmpty(c, {"allow_paths"}))

PromptReads == All(Text, {"prompt_tier", "prompt_file", "delegate_prompt_tier"})
PromptSetters == DOMAIN PromptReads
PromptWritten(c) == NonEmpty(c, DOMAIN PromptReads)

RewindReads == [auto_snapshot |-> Flag]
RewindSetters == {"auto_snapshot"}
RewindWritten(c) == On(c, {"auto_snapshot"})

IntegrityReads == All(Flag, {"enabled", "dry_run"})
IntegritySetters == {"enabled", "dry_run"}
IntegrityDefaults == [dry_run |-> 1]
IntegrityWritten(c) == When(c.enabled # 0 \/ c.dry_run = 0, {"enabled", "dry_run"})

WorktreeGcReads == [enabled |-> Flag, max_age_days |-> Positive]
WorktreeGcSetters == {"enabled", "max_age_days"}
WorktreeGcDefaults == [enabled |-> 1, max_age_days |-> 14]
WorktreeGcWritten(c) ==
  When(Differing(c, WorktreeGcDefaults) # {}, {"enabled", "max_age_days"})

SkillsSizes == {"review_nudge_interval", "stale_after_days", "archive_after_days",
                "dispatch.max_index"}
SkillsFlags == {"dispatch.enabled", "dispatch.advisory", "capability.autostub",
                "eval.gate_enabled"}
SkillsReads == All(Positive, SkillsSizes) @@ All(Flag, SkillsFlags)
               @@ ("review.enabled" :> Truth) @@ ("eval.threshold" :> NonNegative)
SkillsSetters == DOMAIN SkillsReads
SkillsDefaults ==
  [review_nudge_interval |-> 10, stale_after_days |-> 30, archive_after_days |-> 90]
  @@ ("dispatch.enabled" :> 1) @@ ("dispatch.max_index" :> 24) @@ ("eval.threshold" :> 10)
SkillsWritten(c) ==
  When(Differing(c, Filled(SkillsReads, SkillsDefaults)) # {},
       SkillsSizes \cup SkillsFlags \cup {"eval.threshold"} \cup On(c, {"review.enabled"}))

\* session.virtual_context: parsed, and never saved.
VirtualContextReads == [enabled |-> Flag, assembly_budget |-> Positive]
VirtualContextSetters == {"enabled", "assembly_budget"}
VirtualContextDefaults == [enabled |-> 1, assembly_budget |-> 4096]
VirtualContextLost(c) == Differing(c, VirtualContextDefaults)

-----------------------------------------------------------------------------

RuntimeNames ==
  {"retry", "cross_verify", "limits", "concurrency", "compact",
   "compact.coord_closet", "fold", "modules", "economizer", "autonomy", "sessions",
   "sandbox", "prompt", "rewind", "integrity", "worktree_gc", "skills",
   "session.virtual_context"}
RuntimeTable ==
  [s \in RuntimeNames |->
     CASE s = "retry" -> Row(RetryReads, Zeroed, RetrySetters)
       [] s = "cross_verify" ->
              Row(CrossVerifyReads, Zeroed, CrossVerifySetters \cup CrossVerifyTextSetters)
       [] s = "limits" -> Row(LimitsReads, Zeroed, LimitsSetters \cup BackgroundSetters)
       [] s = "concurrency" ->
              Row(ConcurrencyReads, ConcurrencyDefaults,
                  ConcurrencySetters \cup PreemptSetters)
       [] s = "compact" -> Row(CompactReads, [enabled |-> 1], CompactSetters)
       [] s = "compact.coord_closet" ->
              Row(ClosetReads, [enabled |-> 1], ClosetSetters \cup ClosetTextSetters)
       [] s = "fold" -> Row(FoldReads, FoldDefaults, FoldSetters)
       [] s = "modules" -> Row(ModulesReads, ModulesDefaults, ModulesSetters)
       [] s = "economizer" -> Row(EconomizerReads, EconomizerDefaults, EconomizerSetters)
       [] s = "autonomy" -> Row(AutonomyReads, AutonomyDefaults, AutonomySetters)
       [] s = "sessions" -> Row(SessionsReads, Zeroed, SessionsSetters)
       [] s = "sandbox" -> Row(SandboxReads, SandboxDefaults, {})
       [] s = "prompt" -> Row(PromptReads, Zeroed, PromptSetters)
       [] s = "rewind" -> Row(RewindReads, Zeroed, RewindSetters)
       [] s = "integrity" -> Row(IntegrityReads, IntegrityDefaults, IntegritySetters)
       [] s = "worktree_gc" -> Row(WorktreeGcReads, WorktreeGcDefaults, WorktreeGcSetters)
       [] s = "skills" -> Row(SkillsReads, SkillsDefaults, SkillsSetters)
       [] s = "session.virtual_context" ->
              Row(VirtualContextReads, VirtualContextDefaults, VirtualContextSetters)]

RuntimeWritten(s, c) ==
  CASE s = "retry" -> RetryWritten(c)
    [] s = "cross_verify" -> CrossVerifyWritten(c)
    [] s = "limits" -> LimitsWritten(c) \cup BackgroundWritten(c)
    [] s = "concurrency" -> ConcurrencyWritten(c)
    [] s = "compact" -> CompactWritten(c)
    [] s = "compact.coord_closet" -> ClosetWritten(c)
    [] s = "fold" -> FoldWritten(c)
    [] s = "modules" -> ModulesWritten(c)
    [] s = "economizer" -> EconomizerWritten(c)
    [] s = "autonomy" -> AutonomyWritten(c)
    [] s = "sessions" -> SessionsWritten(c)
    [] s = "sandbox" -> SandboxWritten(c)
    [] s = "prompt" -> PromptWritten(c)
    [] s = "rewind" -> RewindWritten(c)
    [] s = "integrity" -> IntegrityWritten(c)
    [] s = "worktree_gc" -> WorktreeGcWritten(c)
    [] s = "skills" -> SkillsWritten(c)
    [] s = "session.virtual_context" -> {}

RuntimeLost(s, c) ==
  CASE s = "concurrency" -> ConcurrencyLost(c)
    [] s = "fold" -> FoldLost(c)
    [] s = "limits" -> Below0(c, BackgroundSetters)
    [] s = "session.virtual_context" -> VirtualContextLost(c)
    [] OTHER -> {}
=============================================================================
