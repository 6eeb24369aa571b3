---------------------------- MODULE RosterSections ----------------------------
(***************************************************************************)
(* The roster file, models.json, laid out as the sections of the           *)
(* configuration are in MemorySections: what agent_load_config reads of an *)
(* entry of "models" and of "network", and what agent_save_config writes.  *)
(* The part of the generated setters is played by the commands that load   *)
(* the roster, change one field and save it.                               *)
(*                                                                         *)
(* Lists (roles, personas, credentials), the expansion of a registration   *)
(* and what is derived from the catalogue and from the endpoint's host are *)
(* left out.                                                               *)
(***************************************************************************)
EXTENDS SettingKinds

-----------------------------------------------------------------------------
(* Entries of "models".                                                    *)

\* What a known model without tools, providers of local models and mistral
\* change; the number stands for AGENT_DEFAULT_MAX_PARALLEL.
Toolless == "embedder"
LocalProviders == {"ollama", "llama_native", "llama-eval"}
AGENT_DEFAULT_MAX_PARALLEL == 4

ToolsReads ==
  All(Flag, {"tools_enabled", "inject_respond_tool"})
  @@ All(Number, {"max_turns", "max_parallel"}) @@ All(Text, {"provider", "exec_system_prompt"})
  @@ ("model" :> AnyText)
ToolsDefaults ==
  [tools_enabled |-> 1, max_turns |-> -1, provider |-> "openai",
   max_parallel |-> AGENT_DEFAULT_MAX_PARALLEL]

\* agent_default_inject_respond_tool; the endpoint is remote.
agent_default_inject_respond_tool(tools, provider) ==
  IF tools # 0 /\ provider \in LocalProviders THEN 1 ELSE 0

\* The setting k of a document, or d.
Told(doc, k, d) ==
  IF k \in DOMAIN doc /\ Accepts(ToolsReads[k], doc[k]) THEN doc[k] ELSE d
\* Tools are on by default unless the model is known to have none; the default of
\* two other settings depends on what was read before them.
ToolsStart(doc) ==
  LET provider == Told(doc, "provider", "openai")
      bare == IF Told(doc, "model", "") = Toolless THEN 0 ELSE 1
      tools == Told(doc, "tools_enabled", bare)
      calls == IF provider = "mistral" THEN 2 ELSE AGENT_DEFAULT_MAX_PARALLEL
  IN  Filled(ToolsReads,
             [tools_enabled |-> bare, max_parallel |-> calls,
              inject_respond_tool |-> agent_default_inject_respond_tool(tools, provider)]
             @@ ToolsDefaults)

ToolsWritten(c) ==
  {"model"}
  \cup When(c.provider # "openai", {"provider"})
  \cup When(c.max_parallel # AGENT_DEFAULT_MAX_PARALLEL, {"max_parallel"})
  \cup When(c.tools_enabled # 0,
            {"tools_enabled", "max_turns"} \cup On(c, {"inject_respond_tool"})
               \cup NonEmpty(c, {"exec_system_prompt"}))
\* "tools_enabled: false" is not written, nor what goes with it; the tools come
\* back on unless the model is known to have none.
ToolsLost(c) ==
  LET tools == IF c.tools_enabled = 0 /\ c.model = Toolless THEN 0 ELSE 1
      inject == IF c.tools_enabled # 0 /\ c.inject_respond_tool # 0 THEN 1
                ELSE agent_default_inject_respond_tool(tools, c.provider)
  IN  When(c.tools_enabled # tools, {"tools_enabled"})
      \cup When(c.inject_respond_tool # inject, {"inject_respond_tool"})
      \cup When(c.tools_enabled = 0,
                Differing(c, [max_turns |-> -1, exec_system_prompt |-> ""]))
      \cup When(c.provider = "mistral" /\ c.max_parallel = AGENT_DEFAULT_MAX_PARALLEL,
                {"max_parallel"})

CliReads == All(Text, {"provider", "auth_type"}) @@ ("primary_only" :> Flag)
            @@ All(AnyText, {"backend", "cli_kind", "cli_cmd"})
CliDefaults == [provider |-> "openai", auth_type |-> "bearer"]
CliSays(doc) ==
  [k \in {"provider", "auth_type", "backend", "cli_kind", "cli_cmd"} |->
     IF k \in DOMAIN doc /\ Accepts(CliReads[k], doc[k]) THEN doc[k]
     ELSE Filled(CliReads, CliDefaults)[k]]
\* The older name of a back end, and claude-p, which is claude in a terminal now.
agent_normalize_legacy_claude_cli(doc) ==
  LET c == CliSays(doc)
      provider_cli == c.backend \in {"cli-stdio", "provider-cli"}
  IN  IF provider_cli /\ c.cli_kind = "claude" /\ c.cli_cmd = "claude-p"
      THEN [backend |-> "tmux-cli", cli_cmd |-> "claude", cli_kind |-> "",
            provider |-> IF c.provider = "openai" THEN "claude" ELSE c.provider,
            auth_type |-> IF c.auth_type = "bearer" THEN "none" ELSE c.auth_type]
      ELSE IF provider_cli THEN [backend |-> "provider-cli"]
      ELSE Zeroed
\* A legacy file does not say primary_only: claude in a terminal is.
agent_is_claude_cli(c) == c.provider = "claude" /\ c.backend = "tmux-cli"
CliStart(doc) ==
  LET normal == agent_normalize_legacy_claude_cli(doc) @@ CliSays(doc)
  IN  Filled(CliReads, CliDefaults
                       @@ ("primary_only" :> IF agent_is_claude_cli(normal) THEN 1 ELSE 0))
CliWritten(c) ==
  {"primary_only"} \cup NonEmpty(c, {"backend", "cli_kind", "cli_cmd"})
  \cup {k \in DOMAIN CliDefaults : c[k] # CliDefaults[k]}

\* A price of -1 is one that was not declared.
Prices == {"price_in_per_mtok", "price_out_per_mtok", "price_cached_per_mtok"}
LimitsOfModel == {"context_window", "max_output"}
PricesReads == All(NonNegative, Prices \cup LimitsOfModel)
PricesDefaults == All(-1, Prices)
PricesWritten(c) == {k \in Prices : c[k] >= 0} \cup Above0(c, LimitsOfModel)

\* The number stands for AGENT_DEFAULT_MAX_TOKENS.
Scopes == {"bounded", "whole_task"}
Watched == {"cost_limit", "context_warn_pct", "auto_compact_pct", "stall_threshold"}
SeatReads ==
  All(Number, Watched \cup {"cost_tier", "max_tokens", "timeout_ms", "cli_idle_timeout_ms"})
  @@ [enabled |-> Switch, max_scope |-> OneOf(Scopes)]
SeatDefaults == [enabled |-> 1, max_tokens |-> 8]
SeatWritten(c) ==
  {"cost_tier", "max_tokens", "timeout_ms", "enabled"} \cup NonEmpty(c, {"max_scope"})
  \cup On(c, Watched) \cup Above0(c, {"cli_idle_timeout_ms"})
SeatLost(c) == Below0(c, {"cli_idle_timeout_ms"})
\* A scope nobody knows fails the load.
SeatLoads(doc) == "max_scope" \in DOMAIN doc => doc.max_scope \in Scopes \cup {"", Wrong}

SeatTexts == {"auth_cmd", "catalog_provider", "tier_price_exempt", "registration",
              "extra_headers", "fallback_model", "reasoning_effort"}
SeatFlags == {"recommended_sampling", "session_reuse", "is_server_hosted"}
EntryReads == All(Text, SeatTexts) @@ All(Flag, SeatFlags)
              @@ All(AnyText, {"name", "endpoint", "api_key"})
EntryWritten(c) ==
  {"name", "endpoint"} \cup NonEmpty(c, SeatTexts) \cup On(c, SeatFlags)
  \cup When(c.api_key = "$KEY", {"api_key"})
\* A key is kept only as a reference, "$NAME".
EntryLost(c) == When(c.api_key \notin {"", "$KEY"}, {"api_key"})

-----------------------------------------------------------------------------
(* "network", and the lists of one that has an ssh_entry.                  *)

NetworkReads == All(AnyText, {"ssh_entry", "ssh_key"})
NetworkWritten(c) == When(c.ssh_entry # "", {"ssh_entry"} \cup NonEmpty(c, {"ssh_key"}))
NetworkLost(c) == When(c.ssh_entry = "", NonEmpty(c, {"ssh_key"}))

HostTexts == {"user", "desc", "tunnel"}
HostsReads == All(AnyText, HostTexts \cup {"name", "ip"}) @@ ("port" :> Number)
HostsWritten(c) == {"name", "ip"} \cup NonEmpty(c, HostTexts) \cup Above0(c, {"port"})
HostsLost(c) == Below0(c, {"port"})

NetworksReads == All(AnyText, {"name", "cidr", "desc"})
NetworksWritten(c) == {"name", "cidr"} \cup NonEmpty(c, {"desc"})

TunnelsReads == All(AnyText, {"name", "relay_ssh", "relay_key", "target_host"})
                @@ All(Number, {"target_port", "reconnect_delay", "max_reconnects"})
TunnelsDefaults == [target_port |-> 22, reconnect_delay |-> 5]
TunnelsWritten(c) ==
  {"name", "relay_ssh", "target_host", "target_port"} \cup NonEmpty(c, {"relay_key"})
  \cup When(c.reconnect_delay # 5, {"reconnect_delay"}) \cup Above0(c, {"max_reconnects"})
TunnelsLost(c) == Below0(c, {"max_reconnects"})

-----------------------------------------------------------------------------

Entire(reads, nonzero) == Row(reads, nonzero, DOMAIN reads)
RosterNames ==
  {"models[] tools", "models[] cli", "models[] prices", "models[] seat",
   "models[]", "network", "network.hosts[]", "network.networks[]",
   "network.tunnels[]"}
RosterTable ==
  [s \in RosterNames |->
     CASE s = "models[] tools" -> Entire(ToolsReads, ToolsDefaults)
       [] s = "models[] cli" -> Entire(CliReads, CliDefaults)
       [] s = "models[] prices" -> Entire(PricesReads, PricesDefaults)
       [] s = "models[] seat" ->
              Row(SeatReads, SeatDefaults, DOMAIN SeatReads \ {"max_scope"})
       [] s = "models[]" -> Entire(EntryReads, Zeroed)
       [] s = "network" -> Entire(NetworkReads, Zeroed)
       [] s = "network.hosts[]" -> Entire(HostsReads, Zeroed)
       [] s = "network.networks[]" -> Entire(NetworksReads, Zeroed)
       [] s = "network.tunnels[]" -> Entire(TunnelsReads, TunnelsDefaults)]

RosterWritten(s, c) ==
  CASE s = "models[] tools" -> ToolsWritten(c)
    [] s = "models[] cli" -> CliWritten(c)
    [] s = "models[] prices" -> PricesWritten(c)
    [] s = "models[] seat" -> SeatWritten(c)
    [] s = "models[]" -> EntryWritten(c)
    [] s = "network" -> NetworkWritten(c)
    [] s = "network.hosts[]" -> HostsWritten(c)
    [] s = "network.networks[]" -> NetworksWritten(c)
    [] s = "network.tunnels[]" -> TunnelsWritten(c)

RosterLost(s, c) ==
  CASE s = "models[] tools" -> ToolsLost(c)
    [] s = "models[] seat" -> SeatLost(c)
    [] s = "models[]" -> EntryLost(c)
    [] s = "network" -> NetworkLost(c)
    [] s = "network.hosts[]" -> HostsLost(c)
    [] s = "network.tunnels[]" -> TunnelsLost(c)
    [] OTHER -> {}
=============================================================================
