----------------------------- MODULE FlatSections -----------------------------
(***************************************************************************)
(* The flat keys of the configuration, in groups: gates that are off or on *)
(* by default, the ingress, the models, the knowledge base's back ends,    *)
(* structured PDF, the sandbox, vault custody.  Laid out as                *)
(* MemorySections.                                                         *)
(***************************************************************************)
EXTENDS SettingKinds

\* config_flat_defaults and config_field_set_from_json: the flags among the flat
\* keys that are off, and on, by default.
OptInReads ==
  All(Flag, {"autonomous", "verify_enabled", "verify_cross_project",
             "delegate_graph_context_enabled", "gateway_prevent_subagents", "gateway_pin_model",
             "delegate_sandbox_require_isolation", "wfe_live_forge_enabled",
             "wfe_proposals_autoscan_enabled", "audit_worm_enabled",
             "kb_evidence_emit_enabled", "fidelity_check_enabled"})
OptOutReads ==
  All(Flag, {"require_session_worktree", "require_aimee_memory", "require_aimee_git",
             "subagent_ban_enabled", "delegate_sandbox_learn_packages",
             "css_style_graph_enabled", "code_cochange_git_enabled",
             "client_integrations_enabled", "audit_action_enabled"})
\* Parsed one by one.
SwitchesReads == All(Flag, {"delegates_enabled", "prompt_manager_block_enabled",
                            "prompt_manager_review_enabled"})
SwitchesDefaults == All(1, DOMAIN SwitchesReads)

VerifySetters == {"autonomous", "verify_enabled", "verify_cross_project"}
GatewaySetters == {"delegate_sandbox_require_isolation", "gateway_prevent_subagents",
                   "gateway_pin_model"}
EvidenceSetters == {"kb_evidence_emit_enabled", "fidelity_check_enabled"}
WfeSetters == {"wfe_proposals_autoscan_enabled"}
RequireSetters == {"require_session_worktree", "require_aimee_memory", "require_aimee_git",
                   "delegate_sandbox_learn_packages"}
AuditSetters == {"code_cochange_git_enabled", "client_integrations_enabled",
                 "audit_action_enabled"}
BanSetters == {"subagent_ban_enabled"}

OptInWritten(c) == On(c, DOMAIN OptInReads)
\* Mutant: an opt-out is written as the others are, when on.
OptOutInverted(c) == On(c, DOMAIN c)
\* A gate that is on by default is written when it is off.
OptOutWritten(c) == DOMAIN c \ On(c, DOMAIN c)

IngressGates == {"ingress_preinject_enabled", "ingress_compress_enabled",
                 "ingress_cache_placement_enabled"}
IngressSizes == {"ingress_compress_min_chars", "ingress_preinject_assembly_budget",
                 "code_span_max_lines", "tool_output_max_bytes", "ingress_max_raw_scans"}
PreinjectReads ==
  All(Flag, IngressGates \cup {"ingress_preinject_anthropic_enabled", "synthesis_thinking"})
  @@ All(NonNegative, {"tool_output_max_bytes", "ingress_max_raw_scans"})
  @@ All(Positive, IngressSizes) @@ ("code_context_mode" :> Text)
IngressSizeDefaults ==
  ("ingress_preinject_assembly_budget" :> 6144) @@ ("code_span_max_lines" :> 400)
PreinjectDefaults ==
  IngressSizeDefaults @@ All(1, IngressGates \cup {"synthesis_thinking"})
  @@ ("ingress_compress_min_chars" :> 80) @@ ("code_context_mode" :> "on")
PreinjectSetters == IngressGates \cup IngressSizes \cup {"ingress_preinject_anthropic_enabled"}
ThinkingSetters == {"synthesis_thinking"}
CodeContextSetters == {"code_context_mode"}
PreinjectWritten(c) ==
  On(c, IngressGates \cup {"ingress_preinject_anthropic_enabled"})
  \cup {k \in IngressSizes \cup CodeContextSetters :
           c[k] # Filled(PreinjectReads, PreinjectDefaults)[k]}
\* Three gates are on by default and written when on: turning one off is lost.
PreinjectLost(c) == {k \in IngressGates \cup ThinkingSetters : c[k] = 0}

\* Texts that are written when there are any.
ModelTexts == {"claude_model", "codex_model", "model_reasoning_effort", "openai_key_cmd",
               "openai_endpoint", "openai_model"}
ModelReads ==
  All(Text, ModelTexts \cup {"provider", "guardrail_mode", "default_persona"})
ModelDefaults ==
  [guardrail_mode |-> "approve", default_persona |-> "engineer",
   openai_endpoint |-> "api.openai.com", openai_model |-> "gpt-4o"]
ModelSetters == DOMAIN ModelReads \ {"guardrail_mode"}
ModelWritten(c) ==
  {"provider", "guardrail_mode"} \cup NonEmpty(c, ModelTexts)
  \cup When(c.default_persona \notin {"", "engineer"}, {"default_persona"})

EmbedderTexts == {"embedder_command", "embedder_model", "embedder_url", "memory_weight_profile",
                  "memory_rerank_mode"}
EmbedderReads == All(Text, EmbedderTexts) @@ ("embedder_dims" :> Positive)
EmbedderSetters == {"embedder_model", "embedder_url", "memory_weight_profile",
                    "memory_rerank_mode"}
DimsSetters == {"embedder_dims"}
EmbedderWritten(c) == NonEmpty(c, EmbedderTexts) \cup Above0(c, DimsSetters)

\* The set-up wizard's record of the back ends, and the database.
BackendReads ==
  All(Text, {"kb_mode", "synthesis_endpoint", "synthesis_model"})
  @@ [kb_client_url |-> AnyText, db2_pool_size |-> Within(1, 256)]
BackendDefaults == [db2_pool_size |-> 8]
BackendSetters == {"kb_mode", "synthesis_endpoint", "synthesis_model", "kb_client_url"}
PoolSetters == {"db2_pool_size"}
BackendWritten(c) ==
  NonEmpty(c, BackendSetters) \cup When(c.db2_pool_size > 0 /\ c.db2_pool_size # 8, PoolSetters)

PdfGates == {"kb_pdf_ingest_enabled", "kb_pdf_vector_enabled", "kb_pdf_tsr_enabled",
             "kb_pdf_assets_enabled", "kb_pdf_ocr_enabled"}
PdfTexts == {"tsr_command", "kb_pdf_blob_dir", "ocr_command"}
PdfReads ==
  All(Flag, PdfGates) @@ All(Text, PdfTexts \cup {"kb_pdf_tier"})
  @@ All(Number, {"kb_pdf_blob_recon_secs", "kb_pdf_blob_orphan_alarm_mb"})
PdfSizeDefaults == [kb_pdf_blob_recon_secs |-> 3600, kb_pdf_blob_orphan_alarm_mb |-> 1024]
PdfDefaults == PdfSizeDefaults @@ ("kb_pdf_tier" :> "off")
PdfSetters == (PdfGates \ {"kb_pdf_vector_enabled"}) \cup DOMAIN PdfSizeDefaults
PdfTextSetters == PdfTexts \cup {"kb_pdf_tier"}
\* The gates a tier turns on.
kb_pdf_apply_tier(tier) ==
  [k \in PdfGates |->
     IF tier = "full" \/ (tier = "basic" /\ k \in {"kb_pdf_ingest_enabled",
                                                    "kb_pdf_vector_enabled"})
     THEN 1 ELSE 0]
\* The gates are flat keys and are read first: a tier in the document decides
\* them.
PdfForced(doc) ==
  IF "kb_pdf_tier" \in DOMAIN doc /\ doc["kb_pdf_tier"] \notin {Wrong, ""}
  THEN kb_pdf_apply_tier(doc["kb_pdf_tier"]) ELSE Zeroed
PdfWritten(c) ==
  When(c.kb_pdf_tier \notin {"", "off"}, {"kb_pdf_tier"})
  \cup On(c, PdfGates) \cup NonEmpty(c, PdfTexts) \cup Differing(c, PdfSizeDefaults)
\* A tier other than off brings its gates back over those set after it.
PdfLost(c) ==
  When(c.kb_pdf_tier \notin {"", "off"}, Differing(c, kb_pdf_apply_tier(c.kb_pdf_tier)))

PackageModes == {"proxy", "off", "gated", "governance"}
DelegateReads ==
  [delegate_sandbox_image |-> Text, delegate_sandbox_package_access |-> OneOf(PackageModes)]
DelegateDefaults == [delegate_sandbox_package_access |-> "proxy"]
DelegateSetters == DOMAIN DelegateReads
DelegateWritten(c) ==
  NonEmpty(c, {"delegate_sandbox_image"})
  \cup When(c.delegate_sandbox_package_access \notin {"", "proxy"},
            {"delegate_sandbox_package_access"})

\* An empty command turns the rendering off, and is kept.
RenderReads == [css_render_command |-> AnyText]
RenderDefaults == [css_render_command |-> "curl"]
RenderSetters == {"css_render_command"}
RenderWritten(c) == Differing(c, RenderDefaults)

VaultReads == All(Text, {"custody", "tcti", "nv_index"}) @@ ("blob_path" :> AnyText)
VaultDefaults == [custody |-> "file", tcti |-> "device:/dev/tpmrm0", nv_index |-> "0x1800001"]
VaultSetters == DOMAIN VaultReads
VaultWritten(c) ==
  {k \in DOMAIN VaultReads : c[k] \notin {"", Filled(VaultReads, VaultDefaults)[k]}}

\* Settings with a setter that no parser reads and no save writes.
UnreadSwitches == {"dogfood_autolabel_repair", "dogfood_autolabel_continuation",
                   "dogfood_autolabel_repeat_question"}
UnreadRoundtable == {"roundtable.replay_verify_enabled", "roundtable.require_evidence",
                     "roundtable.chair_synthesis"}
UnreadWizard == {"aimee_with_llamacpp", "aimee_synthesis_model"}
UnreadWorktree == {"session_worktree_base"}
UnreadOutcome == {"learning_implicit_retrieval_outcome"}
UnreadTrust == {"code_trust_actuation_enabled"}
UnreadSettings == UnreadSwitches \cup UnreadRoundtable \cup UnreadWizard \cup UnreadWorktree
                  \cup UnreadOutcome \cup UnreadTrust
UnreadDefaults ==
  All(1, UnreadRoundtable) @@ All("", UnreadWizard) @@ All("remote_default", UnreadWorktree)
  @@ All(0, UnreadSettings)
UnreadReads == All(Unread, UnreadSettings)
UnreadLost(c) == Differing(c, UnreadDefaults)

-----------------------------------------------------------------------------

FlatNames ==
  {"opt-in", "opt-out", "switches", "preinject", "models", "embedder", "backends",
   "kb_pdf", "delegate_sandbox", "css_render_command", "vault", "unread"}
FlatTable ==
  [s \in FlatNames |->
     CASE s = "opt-in" ->
              Row(OptInReads, Zeroed,
                  VerifySetters \cup GatewaySetters \cup EvidenceSetters \cup WfeSetters)
       [] s = "opt-out" ->
              Row(OptOutReads, All(1, DOMAIN OptOutReads),
                  RequireSetters \cup AuditSetters \cup BanSetters)
       [] s = "switches" -> Row(SwitchesReads, SwitchesDefaults, {})
       [] s = "preinject" ->
              Row(PreinjectReads, PreinjectDefaults,
                  PreinjectSetters \cup ThinkingSetters \cup CodeContextSetters)
       [] s = "models" -> Row(ModelReads, ModelDefaults, ModelSetters)
       [] s = "embedder" -> Row(EmbedderReads, Zeroed, EmbedderSetters \cup DimsSetters)
       [] s = "backends" ->
              Row(BackendReads, BackendDefaults, BackendSetters \cup PoolSetters)
       [] s = "kb_pdf" -> Row(PdfReads, PdfDefaults, PdfSetters \cup PdfTextSetters)
       [] s = "delegate_sandbox" -> Row(DelegateReads, DelegateDefaults, DelegateSetters)
       [] s = "css_render_command" -> Row(RenderReads, RenderDefaults, RenderSetters)
       [] s = "vault" -> Row(VaultReads, VaultDefaults, VaultSetters)
       [] s = "unread" -> Row(UnreadReads, UnreadDefaults, UnreadSettings)]

FlatWritten(s, c) ==
  CASE s = "opt-in" -> OptInWritten(c)
    [] s \in {"opt-out", "switches"} -> OptOutWritten(c)
    [] s = "preinject" -> PreinjectWritten(c)
    [] s = "models" -> ModelWritten(c)
    [] s = "embedder" -> EmbedderWritten(c)
    [] s = "backends" -> BackendWritten(c)
    [] s = "kb_pdf" -> PdfWritten(c)
    [] s = "delegate_sandbox" -> DelegateWritten(c)
    [] s = "css_render_command" -> RenderWritten(c)
    [] s = "vault" -> VaultWritten(c)
    [] s = "unread" -> {}

FlatLost(s, c) ==
  CASE s = "preinject" -> PreinjectLost(c)
    [] s = "kb_pdf" -> PdfLost(c)
    [] s = "unread" -> UnreadLost(c)
    [] OTHER -> {}
=============================================================================
