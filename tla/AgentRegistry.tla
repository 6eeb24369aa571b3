---------------------------- MODULE AgentRegistry ----------------------------
(***************************************************************************)
(* The agent roster: the file it is in, models.json or an older            *)
(* agents.json, the cache in front of it (agent_registry.c), and the       *)
(* threads that look agents up, load the roster and save it.               *)
(*                                                                         *)
(* agent_config_path answers in one static buffer, which it fills twice    *)
(* when the roster is in agents.json; every caller goes on to use the      *)
(* buffer, not a copy.  The file is replaced in one step (AtomicReplace)   *)
(* and its identity is taken to differ from version to version.  The two   *)
(* access calls and the snprintf behind them are one step, and so are a    *)
(* stat and the look at the cache, or the store into it, that follows.     *)
(* Building with the cache disabled is not modelled.                       *)
(***************************************************************************)
EXTENDS Integers, FiniteSets

CONSTANTS
    Threads,  \* threads of one process
    Agents,   \* agents by name
    Starts,   \* which of the two files is there at first
    Edits,    \* what an operator makes of a file: [says, agents]
    NoAgent,  \* no lookup, no removal
    MaxFiles  \* bound on the versions of the two files

Files == {"models", "agents"}

\* A file says a roster, something a load rejects on the way (an unknown
\* max_scope, two agents of one name), or nothing that parses.
Bodies == [says : {"roster", "rejected", "text"}, agents : SUBSET Agents]

ASSUME RegistryAssumption ==
    /\ Starts \subseteq Files
    /\ Edits \subseteq Bodies
    /\ NoAgent \notin Agents
    /\ MaxFiles \in Nat \ {0}

VARIABLES
    file,   \* name -> [id, body], id 0 where there is none
    path,   \* the static buffer of agent_config_path
    cache,  \* g_cache: [id, cfg], filed under the identity id (0: nothing)
    pc,     \* thread -> where it is
    known,  \* thread -> how far its agent_config_path is: "no", "half", "yes"
    cfg,    \* thread -> the agent_config_t in its hands
    about,  \* thread -> the agent it looks up, or removes
    counted, \* thread -> version the zero-agent guard looked at, 0 if at none
    moved,  \* threads under which another one changed the buffer
    there   \* thread -> what it looks up, while every file since says it

vars == <<file, path, cache, pc, known, cfg, about, counted, moved, there>>

\* A roster in memory, the version it was read from, and whether it is as a load
\* leaves it: defaults filled in, vendor and tier derived.
Cfg(agents, src) == [agents |-> agents, src |-> src, normal |-> TRUE]
Blank == Cfg({}, 0)
NoFile == [id |-> 0, body |-> [says |-> "text", agents |-> {}]]

Exists(n) == file[n].id # 0
\* Where agent_config_path would say the roster is.
Home == IF ~Exists("models") /\ Exists("agents") THEN "agents" ELSE "models"
\* The agents that a load of a file finds.
InRoster(f) == IF f.body.says = "roster" THEN f.body.agents ELSE {}
Populated(f) == f.body.says # "text" /\ f.body.agents # {}

Init ==
    /\ \E s \in Starts, S \in SUBSET Agents :
          file = [n \in Files |->
                    IF n = s THEN [id |-> 1, body |-> [says |-> "roster", agents |-> S]]
                    ELSE NoFile]
    /\ path = "models"
    /\ cache = [id |-> 0, cfg |-> Blank]
    /\ pc = [t \in Threads |-> "idle"]
    /\ known = [t \in Threads |-> "no"]
    /\ cfg = [t \in Threads |-> Blank]
    /\ about = [t \in Threads |-> NoAgent]
    /\ counted = [t \in Threads |-> 0]
    /\ moved = {}
    /\ there = [t \in Threads |-> {}]

Version == IF file["models"].id > file["agents"].id THEN file["models"].id
           ELSE file["agents"].id

\* A new version of the file n; lookups under way see what stays.
Replace(n, body) ==
    /\ Version < MaxFiles
    /\ file' = [file EXCEPT ![n] = [id |-> Version + 1, body |-> body]]
    /\ there' = [t \in Threads |-> there[t] \cap InRoster(file'[n])]

Goto(t, stage) ==
    /\ pc' = [pc EXCEPT ![t] = stage]
    /\ known' = [known EXCEPT ![t] = IF stage \in {"read", "publish"} THEN "yes" ELSE "no"]

-----------------------------------------------------------------------------
(* agent_config_path.                                                      *)

Points(t, n) ==
    /\ path' = n
    /\ moved' = IF path' = path THEN moved
                ELSE moved \cup {u \in Threads \ {t} : known[u] # "no"}
    /\ UNCHANGED <<file, cache, pc, cfg, about, counted, there>>

ResolveFirst(t) ==
    /\ pc[t] \notin {"idle", "loaded"} /\ known[t] = "no"
    /\ known' = [known EXCEPT ![t] = "half"]
    /\ Points(t, "models")

\* Mutant: the older name is not looked for.
ResolveModels(t) ==
    /\ known[t] = "half"
    /\ known' = [known EXCEPT ![t] = "yes"]
    /\ Points(t, path)

\* access() of what the buffer holds by now, then of agents.json.
ResolveLegacy(t) ==
    /\ known[t] = "half"
    /\ known' = [known EXCEPT ![t] = "yes"]
    /\ Points(t, IF ~Exists(path) /\ Exists("agents") THEN "agents" ELSE path)

-----------------------------------------------------------------------------
(* agent_load_config, and agent_registry_pick in front of it.              *)

At(t, stage) == pc[t] = stage /\ known[t] = "yes"

\* Mutant: any cache will do.
AnyCache == cache.id # 0

Current == Exists(path) /\ cache.id = file[path].id

Load(t) ==
    /\ pc[t] = "idle"
    /\ Goto(t, "check")
    /\ UNCHANGED <<file, path, cache, cfg, about, counted, moved, there>>

Find(t, a) ==
    /\ pc[t] = "idle"
    /\ Goto(t, "pick")
    /\ about' = [about EXCEPT ![t] = a]
    /\ there' = [there EXCEPT ![t] = {a} \cap InRoster(file[Home])]
    /\ UNCHANGED <<file, path, cache, cfg, counted, moved>>

\* The load returns with c, the lookup with the one agent out of it.
Return(t, c) ==
    IF about[t] = NoAgent
    THEN Goto(t, "loaded") /\ cfg' = [cfg EXCEPT ![t] = c]
    ELSE /\ Goto(t, "found")
         /\ cfg' = [cfg EXCEPT ![t] =
                      [agents |-> c.agents \cap {about[t]}, src |-> 0, normal |-> c.normal]]

Pick(t) ==
    /\ At(t, "pick")
    /\ IF Current THEN Return(t, cache.cfg) ELSE Goto(t, "check") /\ UNCHANGED cfg
    /\ UNCHANGED <<file, path, cache, about, counted, moved, there>>

Check(t) ==
    /\ At(t, "check")
    /\ IF Current THEN Return(t, cache.cfg) ELSE Goto(t, "read") /\ UNCHANGED cfg
    /\ UNCHANGED <<file, path, cache, about, counted, moved, there>>

\* What a rejected file has left in the structure when the load returns -1.
Partial(f) == IF f.body.says = "rejected" THEN SUBSET f.body.agents ELSE {{}}

\* fopen to the migration; a failure returns -1, whatever is in the structure.
ReadFile(t) ==
    /\ At(t, "read")
    /\ LET f == file[path]
       IN  IF f.id # 0 /\ f.body.says = "roster"
           THEN /\ cfg' = [cfg EXCEPT ![t] = Cfg(f.body.agents, f.id)]
                /\ Goto(t, "publish")
           ELSE \E S \in Partial(f) : Return(t, Cfg(IF about[t] = NoAgent THEN S ELSE {}, 0))
    /\ UNCHANGED <<file, path, cache, about, counted, moved, there>>

\* The memory for a lookup's roster or for the text cannot be had, the file cannot
\* be opened or is over its limit of 1 MB: -1, and an empty structure, although the
\* file is there.
LoadFails(t) ==
    /\ \/ At(t, "pick") /\ ~Current
       \/ At(t, "read") /\ Exists(path)
    /\ Goto(t, IF about[t] = NoAgent THEN "loaded" ELSE "failed")
    /\ cfg' = [cfg EXCEPT ![t] = Blank]
    /\ UNCHANGED <<file, path, cache, about, counted, moved, there>>

\* stat() once more, and agent_registry_cache_put.
Publish(t) ==
    /\ At(t, "publish")
    /\ cache' = IF Exists(path) THEN [id |-> file[path].id, cfg |-> cfg[t]] ELSE cache
    /\ Return(t, cfg[t])
    /\ UNCHANGED <<file, path, about, counted, moved, there>>

Ended(t) ==
    /\ Goto(t, "idle")
    /\ cfg' = [cfg EXCEPT ![t] = Blank]
    /\ about' = [about EXCEPT ![t] = NoAgent]
    /\ counted' = [counted EXCEPT ![t] = 0]
    /\ moved' = moved \ {t}
    /\ there' = [there EXCEPT ![t] = {}]

\* The caller has its answer, or drops the roster it loaded.
Done(t) ==
    /\ pc[t] \in {"found", "failed", "loaded"}
    /\ Ended(t)
    /\ UNCHANGED <<file, path, cache>>

-----------------------------------------------------------------------------
(* agent_save_config, agent_save_config_after_removal.                     *)

\* A caller saves what it has loaded, with an agent more, one less, or none (a
\* caller with a zeroed structure).  One that removes the last agent says so.
Save(t) ==
    /\ pc[t] = "loaded"
    /\ \/ \E a \in Agents \ cfg[t].agents :
             /\ cfg' = [cfg EXCEPT ![t].agents = @ \cup {a}, ![t].normal = FALSE]
             /\ UNCHANGED about
       \/ \E a \in cfg[t].agents :
             /\ cfg' = [cfg EXCEPT ![t].agents = @ \ {a}]
             /\ about' = [about EXCEPT ![t] = a]
       \/ cfg' = [cfg EXCEPT ![t] = Blank] /\ UNCHANGED about
    /\ Goto(t, IF cfg'[t].agents = {} /\ about'[t] = NoAgent THEN "count" ELSE "open")
    /\ moved' = moved \ {t}
    /\ UNCHANGED <<file, path, cache, counted, there>>

\* Mutant: the guard counts what is cached.
CountCached(t) ==
    /\ At(t, "count")
    /\ IF cache.cfg.agents # {}
       THEN Ended(t)
       ELSE /\ Goto(t, "open")
            /\ counted' = [counted EXCEPT ![t] = file[path].id]
            /\ UNCHANGED <<cfg, about, moved, there>>
    /\ UNCHANGED <<file, path, cache>>

\* agent_config_existing_agent_count: how many the file has, not the cache.
Count(t) ==
    /\ At(t, "count")
    /\ IF Exists(path) /\ Populated(file[path])
       THEN Ended(t)
       ELSE /\ Goto(t, "open")
            /\ counted' = [counted EXCEPT ![t] = file[path].id]
            /\ UNCHANGED <<cfg, about, moved, there>>
    /\ UNCHANGED <<file, path, cache>>

\* The count cannot open the file, or finds it over 8 MB, or has no memory for it:
\* -1, as if there were nothing to protect.
CountFails(t) ==
    /\ At(t, "count") /\ Exists(path)
    /\ Goto(t, "open")
    /\ counted' = [counted EXCEPT ![t] = 0]
    /\ UNCHANGED <<file, path, cache, cfg, about, moved, there>>

\* The temporary file; an error ends the save and leaves the roster.
Open(t) ==
    /\ At(t, "open")
    /\ \/ Goto(t, "rename") /\ UNCHANGED <<cfg, about, counted, moved, there>>
       \/ Ended(t)
    /\ UNCHANGED <<file, path, cache>>

Rename(t) ==
    /\ At(t, "rename")
    /\ \/ /\ Replace(path, [says |-> "roster", agents |-> cfg[t].agents])
          /\ Goto(t, "drop")
          /\ UNCHANGED <<cfg, about, counted, moved>>
       \/ Ended(t) /\ UNCHANGED file
    /\ UNCHANGED <<path, cache>>

\* Mutants: a save leaves a mark in the cache, or what it wrote.
DropMarked(t) ==
    /\ At(t, "drop")
    /\ cache' = [cache EXCEPT !.id = -1]
    /\ Ended(t)
    /\ UNCHANGED <<file, path>>
DropStamped(t) ==
    /\ At(t, "drop")
    /\ cache' = [id |-> file[path].id, cfg |-> cfg[t]]
    /\ Ended(t)
    /\ UNCHANGED <<file, path>>

\* chmod of the path, then agent_registry_cache_invalidate.
Drop(t) ==
    /\ At(t, "drop")
    /\ cache' = [cache EXCEPT !.id = 0]
    /\ Ended(t)
    /\ UNCHANGED <<file, path>>

-----------------------------------------------------------------------------

\* The operator's editor, or another process.
Edit(n) ==
    /\ \E b \in Edits : Replace(n, b)
    /\ UNCHANGED <<path, cache, pc, known, cfg, about, counted, moved>>

Next ==
    \/ \E t \in Threads :
          \/ ResolveFirst(t) \/ ResolveLegacy(t)
          \/ Load(t) \/ \E a \in Agents : Find(t, a)
          \/ Pick(t) \/ Check(t) \/ ReadFile(t) \/ LoadFails(t) \/ Publish(t) \/ Done(t)
          \/ Save(t) \/ Count(t) \/ CountFails(t) \/ Open(t) \/ Rename(t) \/ Drop(t)
    \/ \E n \in Files : Edit(n)

Spec == Init /\ [][Next]_vars

-----------------------------------------------------------------------------
(* Properties.                                                             *)

Cfgs == [agents : SUBSET Agents, src : 0 .. MaxFiles, normal : BOOLEAN]

\* Every variable stays in its range: agent_config.c's static buffer, the cache of
\* agent_registry.c, and where the threads are.
TypeOK ==
    /\ file \in [Files -> [id : 0 .. MaxFiles, body : Bodies]]
    /\ path \in Files
    /\ cache \in [id : 0 .. MaxFiles, cfg : Cfgs]
    /\ pc \in [Threads -> {"idle", "pick", "check", "read", "publish", "found", "failed",
                           "loaded", "count", "open", "rename", "drop"}]
    /\ known \in [Threads -> {"no", "half", "yes"}]
    /\ cfg \in [Threads -> Cfgs]
    /\ about \in [Threads -> Agents \cup {NoAgent}]
    /\ counted \in [Threads -> 0 .. MaxFiles]
    /\ moved \subseteq Threads
    /\ there \in [Threads -> SUBSET Agents]

\* What the cache answers with, and what a lookup returns, has been through the
\* load's normalisation, whichever saves and lookups cross: a structure a caller
\* has built never gets there ("INVALIDATE, never populate").
NormalOnly ==
    /\ cache.id # 0 => cache.cfg.normal
    /\ \A t \in Threads : pc[t] = "found" => cfg[t].normal

\* Where a lookup has returned.
Answers == {"found", "failed"}

\* A lookup ends without an agent that the roster has, and that every version of
\* either file written during the lookup has, only if another thread changed the path
\* under it, if a cache answers that is filed under the identity of a later file than
\* it was read from, or if it could not get the memory, open the file or take its
\* size (LoadFails; its caller is told the same as of an agent that is not there).
FindsWhatIsThere ==
    [][\A t \in Threads :
         pc[t] \notin Answers /\ pc'[t] \in Answers /\ there[t] # {}
            => \/ about[t] \in cfg'[t].agents
               \/ t \in moved
               \/ pc[t] \in {"pick", "check"} /\ cache.cfg.src # cache.id
               \/ pc'[t] = "failed"]_vars

\* "a save rewrites the file the operator has instead of forking the roster in
\* two": with an agents.json alone a save makes a models.json only if another
\* thread, resolving at that moment, changed the path under it.
NotForked ==
    [][\A t \in Threads :
         pc[t] = "rename" /\ pc'[t] = "drop" /\ Exists("agents") /\ path = "models"
            => Exists("models") \/ t \in moved]_vars

\* A populated file becomes an empty roster only by the removal of an agent, or if
\* it is not the file that the guard counted: another one, a later version, or none,
\* because it could not read the file (CountFails).  In that last case the populated
\* file that is overwritten may never have changed: "whatever the trigger [...] the
\* destruction stops here" is not so of a file that cannot be read, or is over 8 MB.
Guarded ==
    [][\A t \in Threads :
         pc[t] = "rename" /\ pc'[t] = "drop" /\ cfg[t].agents = {} /\ about[t] = NoAgent
            => \/ ~Populated(file[path])
               \/ counted[t] # 0 /\ file[path].id # counted[t]
               \/ counted[t] = 0]_vars
=============================================================================
