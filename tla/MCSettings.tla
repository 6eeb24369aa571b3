----------------------------- MODULE MCSettings -----------------------------
(* SettingsFile with the tables of the repository. *)
EXTENDS SettingsFile, MemorySections, RuntimeSections, ServiceSections, FlatSections,
        KbSections, LearningSections, RosterSections

\* A definition apart from AllTable, so that TLC evaluates it once and not at each
\* use of the constant Table.
Tables == MemoryTable @@ RuntimeTable @@ ServiceTable @@ FlatTable @@ KbTable
          @@ LearningTable @@ RosterTable
AllTable == Tables
AllSections == DOMAIN Tables
AllWritten(s, c) ==
  CASE s \in MemoryNames -> MemoryWritten(s, c)
    [] s \in RuntimeNames -> RuntimeWritten(s, c)
    [] s \in ServiceNames -> ServiceWritten(s, c)
    [] s \in FlatNames -> FlatWritten(s, c)
    [] s \in KbNames -> KbWritten(s, c)
    [] s \in LearningNames -> LearningWritten(s, c)
    [] s \in RosterNames -> RosterWritten(s, c)
AllLost(s, c) ==
  CASE s \in MemoryNames -> MemoryLost(s, c)
    [] s \in RuntimeNames -> RuntimeLost(s, c)
    [] s \in ServiceNames -> ServiceLost(s, c)
    [] s \in FlatNames -> FlatLost(s, c)
    [] s \in KbNames -> KbLost(s, c)
    [] s \in LearningNames -> LearningLost(s, c)
    [] s \in RosterNames -> RosterLost(s, c)
AllStart(s, doc) ==
  CASE s = "memory.rewrite" -> RewriteStart(doc)
    [] s = "kb.curator" -> CuratorStart(doc)
    [] s = "kb.curator.cross_repo_graph" -> CrossRepoStart(doc)
    [] s = "models[] tools" -> ToolsStart(doc)
    [] s = "models[] cli" -> CliStart(doc)
    [] OTHER -> Tables[s].defaults
AllForced(s, doc) ==
  CASE s = "aimee.api (deployed)" -> ApiForced
    [] s = "kb_pdf" -> PdfForced(doc)
    [] s = "kb.evidence.embed" -> EvidenceForced(doc)
    [] s = "models[] cli" -> agent_normalize_legacy_claude_cli(doc)
    [] OTHER -> Zeroed
AllLoads(s, doc) ==
  /\ s = "economizer" => EconomizerLoads(doc)
  /\ s = "models[] seat" => SeatLoads(doc)

\* A new installation; an entry of the roster as it was before claude ran in a terminal;
\* a curator switched off stage by stage beside an evidence embedding that is not as it was.
AllFound(s) ==
  {[k \in {} |-> Wrong]}
  \cup CASE s = "models[] cli" ->
              {[backend |-> "provider-cli", cli_kind |-> "claude", cli_cmd |-> "claude-p"]}
           [] s = "kb.evidence.embed" -> {[curator |-> "idle", enabled |-> 0, batch |-> 8]}
         [] OTHER -> {}

RosterTried ==
  [provider |-> {"openai", "claude", "ollama", "mistral"}, model |-> {"", "other", Toolless},
   backend |-> {"", "cli-stdio", "tmux-cli"}, cli_kind |-> {"", "claude"},
   cli_cmd |-> {"", "claude", "claude-p"}, api_key |-> {"", "$KEY", "secret"}]

\* Values that tell the cases of a kind apart.
AllTried(s, k) ==
  LET kind == Tables[s].reads[k]
      d == Tables[s].defaults[k]
  IN  {Wrong} \cup
      CASE k = "kb_pdf_tier" -> {"", "off", "basic", "full", "other"}
        [] k = "tier" -> {"", "off", "lite", "full", "other"}
        [] k = "curator" -> {"stages", "idle"}
        [] s \in RosterNames /\ k \in DOMAIN RosterTried -> RosterTried[k]
        [] kind[1] \in {"flag", "truth"} -> {0, 1}
        [] kind[1] \in {"text", "anytext"} -> {"", "other"}
        [] kind[1] = "unread" ->
             IF k \in UnreadWizard \cup UnreadWorktree THEN {"", "other"} ELSE {0, 1}
        [] kind[1] \in {"oneof", "named"} -> {"other"} \cup kind[2]
        [] kind[1] \in {"within", "clamped"} -> {kind[2] - 1, kind[3], kind[3] + 1}
        [] kind[1] = "atleast" -> {kind[2] - 1, 0, d + 1}
        [] OTHER -> {-1, 0, d + 1}
=============================================================================
