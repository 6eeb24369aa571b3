----------------------------- MODULE ConfigStore -----------------------------
(***************************************************************************)
(* The configuration file, the process cache in front of it and everything *)
(* that rewrites it: config_load_file, config_save, config_set and the     *)
(* setters that save what they loaded, config_reload, and the              *)
(* config_reload_if_changed of the server's main loop.                     *)
(*                                                                         *)
(* The live snapshot is one register here: ConfigSnapshot shows that the   *)
(* double buffer behaves as one.  The file is replaced by rename, so that  *)
(* a reader gets one version of it whole; (mtime, size, inode), its        *)
(* identity, is taken to differ from version to version.                   *)
(***************************************************************************)
EXTENDS Integers, FiniteSets

CONSTANTS
    Workers,    \* threads that serve requests (or the one thread of a CLI)
    Main,       \* the server's main loop
    Daemon,     \* TRUE: Main seeds the snapshot and ticks; FALSE: a CLI process
    Keys, Vals, \* the settings and their values
    Default,    \* the declared default of a key, which a missing key has
    Malformed,  \* a file yaml_parse rejects
    Absent,     \* no file
    Nobody,     \* g_snap_wlock is free
    Ops,        \* the requests made
    Edits,      \* what editors and other processes put in the file
    UseCache,   \* ~config_cache_disabled()
    Failures,   \* what can go wrong: subset of {"load", "open", "write"}
    MaxVersions, \* bound on the versions of the file
    Saved(_)    \* what a load makes of the document config_save writes for a
                \* configuration: a setting it leaves out reads as its default
                \* (SettingsFile says which those are)

Configs == [Keys -> Vals]
Docs == Configs \cup {Malformed, Absent}

ASSUME StoreAssumption ==
    /\ Default \in Vals
    /\ Main \notin Workers /\ Nobody \notin Workers \cup {Main}
    /\ {Malformed, Absent} \cap Configs = {} /\ Malformed # Absent
    /\ Edits \subseteq Docs
    /\ Ops \subseteq {"set", "group", "setter", "enable", "disable"}
    /\ Failures \subseteq {"load", "open", "write"}
    /\ {Daemon, UseCache} \subseteq BOOLEAN
    /\ MaxVersions \in Nat \ {0}

ASSUME SavedAssumption == \A c \in Configs : Saved(c) \in Configs

VARIABLES
    file,      \* the version on disk: [id, doc]
    cache,     \* g_config_cache and the identity it is filed under (0: nothing)
    published, \* the live snapshot
    live,      \* config_snapshot_live()
    last,      \* identity last seen by config_reload_if_changed (0: none)
    wlock,     \* holder of g_snap_wlock
    pc, op,    \* thread -> where it is, and in what
    buf,       \* thread -> the config_t, or the document, in its hands
    sid,       \* thread -> identity it got from stat()
    todo,      \* thread -> keys a memcpy from or to the cache has still to move
    patch      \* thread -> what its request has still to change

threadVars == <<pc, op, buf, sid, todo, patch>>
vars == <<file, cache, published, live, last, wlock, threadVars>>

Threads == Workers \cup {Main}
Defaults == [k \in Keys |-> Default]
\* Mutant: what cannot be parsed is passed on.
ParsedBlindly(doc) == doc
Parsed(doc) == IF doc \in Configs THEN doc ELSE Defaults
\* Mutant: the request starts from nothing.
PatchedOnly(cfg, p) == [k \in Keys |-> IF k \in DOMAIN p THEN p[k] ELSE Default]
Patched(cfg, p) == [k \in Keys |-> IF k \in DOMAIN p THEN p[k] ELSE cfg[k]]

\* The settings that do not survive a config_save of cfg.
Lost(cfg) == {k \in Keys : Saved(cfg)[k] # cfg[k]}

\* A configuration and the file version it was read from, or saved as.  Nothing
\* the code does depends on the version: it is there for the properties to speak of.
Read(f) == [cfg |-> Parsed(f.doc), src |-> f]
NoFile == [id |-> 0, doc |-> Absent]
Blank == [cfg |-> Defaults, src |-> NoFile]
NoPatch == [k \in {} |-> Default]

\* The requests that end in config_save.
Savers == {"setter", "enable", "disable"}

\* "set" is config_set; "group" config_set_typed_facts, several config_set in a
\* row; "setter" a generated setter; "enable" config_set_api_http_listener or
\* config_apply_roundtable_preset, several keys in one save; "disable"
\* config_disable_api_http_listener.
Patches(o) ==
    LET over == IF o \in {"set", "setter", "disable"} THEN {{k} : k \in Keys}
                ELSE SUBSET Keys \ {{}}
    IN  UNION {[keys -> Vals] : keys \in over}

Init ==
    /\ file = [id |-> 1, doc |-> Defaults]
    /\ cache = [id |-> 0, cfg |-> Defaults, src |-> NoFile]
    /\ published = Blank
    /\ live = FALSE
    /\ last = 0
    /\ wlock = Nobody
    /\ pc = [t \in Threads |-> IF t = Main /\ Daemon THEN "check" ELSE "idle"]
    /\ op = [t \in Threads |-> IF t = Main /\ Daemon THEN "seed" ELSE "none"]
    /\ buf = [t \in Threads |-> Blank]
    /\ sid = [t \in Threads |-> 0]
    /\ todo = [t \in Threads |-> {}]
    /\ patch = [t \in Threads |-> NoPatch]

Goto(t, l) == pc' = [pc EXCEPT ![t] = l]

Replace(doc) == /\ file.id < MaxVersions
                /\ file' = [id |-> file.id + 1, doc |-> doc]

\* An editor, another process: the server is not told.
Edit == /\ \E doc \in Edits : doc # file.doc /\ Replace(doc)
        /\ UNCHANGED <<cache, published, live, last, wlock, threadVars>>

-----------------------------------------------------------------------------
(* config_load_file.                                                       *)

\* Where its caller goes on.
Loaded(t) == IF wlock = t THEN "publish" ELSE IF op[t] = "seed" THEN "seed" ELSE "write"

CacheHit == UseCache /\ file.doc # Absent /\ cache.id = file.id

Hit(t) ==
    /\ pc[t] = "check"
    /\ CacheHit
    /\ Goto(t, "copyOut")
    /\ todo' = [todo EXCEPT ![t] = Keys]
    /\ buf' = [buf EXCEPT ![t] = [cfg |-> Defaults, src |-> cache.src]]
    /\ UNCHANGED <<file, cache, published, live, last, wlock, op, sid, patch>>

\* The cache has no lock: another thread may be rewriting what this one copies.
CopyOut(t, k) ==
    /\ pc[t] = "copyOut"
    /\ k \in todo[t]
    /\ buf' = [buf EXCEPT ![t].cfg[k] = cache.cfg[k]]
    /\ todo' = [todo EXCEPT ![t] = @ \ {k}]
    /\ Goto(t, IF todo'[t] = {} THEN Loaded(t) ELSE "copyOut")
    /\ UNCHANGED <<file, cache, published, live, last, wlock, op, sid, patch>>

Miss(t) ==
    /\ pc[t] = "check"
    /\ ~CacheHit
    /\ Goto(t, "read")
    /\ UNCHANGED <<file, cache, published, live, last, wlock, op, buf, sid, todo, patch>>

\* Mutant: the lock covers the load, not the publication.
ReadFileUnlocks(t) ==
    /\ pc[t] = "read"
    /\ buf' = [buf EXCEPT ![t] = Read(file)]
    /\ Goto(t, IF file.doc \in Configs /\ UseCache THEN "loadStat" ELSE Loaded(t))
    /\ wlock' = IF wlock = t THEN Nobody ELSE wlock
    /\ UNCHANGED <<file, cache, published, live, last, op, sid, todo, patch>>

\* fopen, fread, yaml_parse.  A missing or malformed file loads as the declared
\* defaults, with success, and is not cached.
ReadFile(t) ==
    /\ pc[t] = "read"
    /\ buf' = [buf EXCEPT ![t] = Read(file)]
    /\ Goto(t, IF file.doc \in Configs /\ UseCache THEN "loadStat" ELSE Loaded(t))
    /\ UNCHANGED <<file, cache, published, live, last, wlock, op, sid, todo, patch>>

\* fopen fails although there is a file (no descriptor left, say): all the
\* same, defaults or an empty document, with success.
OpenFails(t) ==
    /\ "open" \in Failures
    /\ pc[t] \in {"read", "doc"}
    /\ buf' = [buf EXCEPT ![t] = Blank]
    /\ Goto(t, IF pc[t] = "doc" THEN "write" ELSE Loaded(t))
    /\ UNCHANGED <<file, cache, published, live, last, wlock, op, sid, todo, patch>>

\* config_set takes no notice of what its config_reload returns.
AfterReload(t) == IF op[t] = "group" /\ patch[t] # NoPatch THEN "doc" ELSE "done"

\* malloc fails, strict mode rejects a value, an economizer mode is refused:
\* config_reload keeps the snapshot, a setter returns an error.
LoadFails(t) ==
    /\ "load" \in Failures
    /\ pc[t] = "read"
    /\ wlock' = IF wlock = t THEN Nobody ELSE wlock
    /\ Goto(t, IF wlock = t THEN AfterReload(t) ELSE "done")
    /\ UNCHANGED <<file, cache, published, live, last, op, buf, sid, todo, patch>>

-----------------------------------------------------------------------------
(* The end of config_load_file and of config_save: stat() the path, copy   *)
(* the configuration into the cache, file it under the identity stat()     *)
(* gave.  (A process with AIMEE_NO_CACHE never looks at the cache: there   *)
(* these steps are left out.)                                              *)

\* Only some of those that save reload.
AfterSave(t) == IF op[t] = "enable" THEN "lock" ELSE "done"
AfterFill(t) == IF pc[t] \in {"loadStat", "loadFill"} THEN Loaded(t) ELSE AfterSave(t)

\* Mutant: a known identity is renewed, the cached content is not.
StatOnly(t) ==
    /\ pc[t] \in {"loadStat", "saveStat"}
    /\ file.doc # Absent
    /\ Goto(t, IF pc[t] = "loadStat" THEN "loadFill" ELSE "saveFill")
    /\ sid' = [sid EXCEPT ![t] = file.id]
    /\ todo' = [todo EXCEPT ![t] = IF cache.id = 0 THEN Keys ELSE {}]
    /\ UNCHANGED <<file, cache, published, live, last, wlock, op, buf, patch>>

Stat(t) ==
    /\ pc[t] \in {"loadStat", "saveStat"}
    /\ IF file.doc = Absent
         THEN /\ Goto(t, AfterFill(t))
              /\ UNCHANGED <<sid, todo>>
         ELSE /\ Goto(t, IF pc[t] = "loadStat" THEN "loadFill" ELSE "saveFill")
              /\ sid' = [sid EXCEPT ![t] = file.id]
              /\ todo' = [todo EXCEPT ![t] = Keys]
    /\ UNCHANGED <<file, cache, published, live, last, wlock, op, buf, patch>>

CopyIn(t, k) ==
    /\ pc[t] \in {"loadFill", "saveFill"}
    /\ k \in todo[t]
    /\ cache' = [cache EXCEPT !.cfg[k] = buf[t].cfg[k], !.src = buf[t].src]
    /\ todo' = [todo EXCEPT ![t] = @ \ {k}]
    /\ UNCHANGED <<file, published, live, last, wlock, pc, op, buf, sid, patch>>

FileUnder(t) ==
    /\ pc[t] \in {"loadFill", "saveFill"}
    /\ todo[t] = {}
    /\ cache' = [cache EXCEPT !.id = sid[t]]
    /\ Goto(t, AfterFill(t))
    /\ UNCHANGED <<file, published, live, last, wlock, op, buf, sid, todo, patch>>

-----------------------------------------------------------------------------
(* Requests.                                                               *)

\* config_load returns the live snapshot if there is one (the setters);
\* config_load_doc and config_load_file go to the file.
Request(t) ==
    /\ t \in Workers
    /\ pc[t] = "idle"
    /\ Daemon => live
    /\ \E o \in Ops :
          /\ op' = [op EXCEPT ![t] = o]
          /\ \E p \in Patches(o) : patch' = [patch EXCEPT ![t] = p]
          /\ IF o = "setter" /\ live
               THEN buf' = [buf EXCEPT ![t] = published] /\ Goto(t, "write")
               ELSE /\ Goto(t, IF o \in {"set", "group"} THEN "doc" ELSE "check")
                    /\ UNCHANGED buf
    /\ UNCHANGED <<file, cache, published, live, last, wlock, sid, todo>>

\* Mutant: config_set edits the snapshot instead of the file.
LoadDocFromSnapshot(t) ==
    /\ pc[t] = "doc"
    /\ buf' = [buf EXCEPT ![t] = IF live THEN published ELSE Read(file)]
    /\ Goto(t, "write")
    /\ UNCHANGED <<file, cache, published, live, last, wlock, op, sid, todo, patch>>

\* config_load_doc: the document in the file, an empty one if it cannot be parsed.
LoadDoc(t) ==
    /\ pc[t] = "doc"
    /\ buf' = [buf EXCEPT ![t] = Read(file)]
    /\ Goto(t, "write")
    /\ UNCHANGED <<file, cache, published, live, last, wlock, op, sid, todo, patch>>

\* config_set: one key of the document, then reload.
WriteDoc(t) ==
    /\ pc[t] = "write"
    /\ op[t] \in {"set", "group"}
    /\ \E k \in DOMAIN patch[t] :
          /\ Replace(Patched(buf[t].cfg, [j \in {k} |-> patch[t][j]]))
          /\ patch' = [patch EXCEPT ![t] = [j \in DOMAIN @ \ {k} |-> @[j]]]
    /\ buf' = [buf EXCEPT ![t] = Read(file')]
    /\ Goto(t, "lock")
    /\ UNCHANGED <<cache, published, live, last, wlock, op, sid, todo>>

\* config_save of the whole structure, in a document begun from nothing.  What
\* goes on to the cache is the structure, and not what the document holds of it.
Save(t) ==
    /\ pc[t] = "write"
    /\ op[t] \in Savers
    /\ LET cfg == Patched(buf[t].cfg, patch[t])
       IN  /\ Replace(Saved(cfg))
           /\ buf' = [buf EXCEPT ![t] = [cfg |-> cfg, src |-> file']]
    /\ patch' = [patch EXCEPT ![t] = NoPatch]
    /\ Goto(t, IF UseCache THEN "saveStat" ELSE AfterSave(t))
    /\ UNCHANGED <<cache, published, live, last, wlock, op, sid, todo>>

WriteFails(t) ==
    /\ pc[t] = "write"
    /\ "write" \in Failures \/ file.id = MaxVersions   \* the bound: no version left
    /\ Goto(t, "done")
    /\ UNCHANGED <<file, cache, published, live, last, wlock, op, buf, sid, todo, patch>>

Return(t) ==
    /\ pc[t] = "done"
    /\ Goto(t, "idle")
    /\ op' = [op EXCEPT ![t] = "none"]
    /\ buf' = [buf EXCEPT ![t] = Blank]
    /\ sid' = [sid EXCEPT ![t] = 0]
    /\ todo' = [todo EXCEPT ![t] = {}]
    /\ patch' = [patch EXCEPT ![t] = NoPatch]
    /\ UNCHANGED <<file, cache, published, live, last, wlock>>

-----------------------------------------------------------------------------
(* config_reload, under g_snap_wlock from the load to the publication.     *)

Lock(t) ==
    /\ pc[t] = "lock"
    /\ wlock = Nobody
    /\ wlock' = t
    /\ Goto(t, "check")
    /\ UNCHANGED <<file, cache, published, live, last, op, buf, sid, todo, patch>>

\* Mutant: the tick records the identity the file has after its reload.
PublishRecords(t) ==
    /\ pc[t] = "publish"
    /\ published' = buf[t]
    /\ live' = TRUE
    /\ wlock' = Nobody
    /\ last' = IF op[t] = "tick" /\ file.doc # Absent THEN file.id ELSE last
    /\ Goto(t, AfterReload(t))
    /\ UNCHANGED <<file, cache, op, buf, sid, todo, patch>>

\* Whether or not the token lets it skip an equal content.
Publish(t) ==
    /\ pc[t] = "publish"
    /\ published' = buf[t]
    /\ live' = TRUE
    /\ wlock' = Nobody
    /\ Goto(t, AfterReload(t))
    /\ UNCHANGED <<file, cache, last, op, buf, sid, todo, patch>>

\* Mutant: startup counts as the first tick.
SeedRecords(t) ==
    /\ pc[t] = "seed"
    /\ wlock = Nobody
    /\ published' = buf[t]
    /\ live' = TRUE
    /\ last' = IF file.doc # Absent THEN file.id ELSE last
    /\ Goto(t, "done")
    /\ UNCHANGED <<file, cache, wlock, op, buf, sid, todo, patch>>

\* config_snapshot_seed, after its config_load.
Seed(t) ==
    /\ pc[t] = "seed"
    /\ wlock = Nobody
    /\ published' = buf[t]
    /\ live' = TRUE
    /\ Goto(t, "done")
    /\ UNCHANGED <<file, cache, last, wlock, op, buf, sid, todo, patch>>

\* config_reload_if_changed: the identity is recorded before the reload.
Tick(t) ==
    /\ t = Main /\ Daemon
    /\ pc[t] = "idle"
    /\ file.doc # Absent
    /\ file.id # last
    /\ last' = file.id
    /\ op' = [op EXCEPT ![t] = "tick"]
    /\ Goto(t, "lock")
    /\ UNCHANGED <<file, cache, published, live, wlock, buf, sid, todo, patch>>

-----------------------------------------------------------------------------

Step(t) ==
    \/ Hit(t) \/ (\E k \in Keys : CopyOut(t, k)) \/ Miss(t) \/ ReadFile(t)
    \/ OpenFails(t) \/ LoadFails(t)
    \/ Stat(t) \/ (\E k \in Keys : CopyIn(t, k)) \/ FileUnder(t)
    \/ LoadDoc(t) \/ WriteDoc(t) \/ Save(t) \/ WriteFails(t) \/ Return(t)
    \/ Lock(t) \/ Publish(t) \/ Seed(t) \/ Tick(t)

Next == Edit \/ \E t \in Threads : Request(t) \/ Step(t)

Spec == Init /\ [][Next]_vars

(***************************************************************************)
(* What has begun goes on, and the main loop ticks.  Requests and edits    *)
(* need not happen.                                                        *)
(***************************************************************************)
Fairness == \A t \in Threads : WF_vars(Step(t))

LiveSpec == Spec /\ Fairness
-----------------------------------------------------------------------------

Files == [id : 0..MaxVersions, doc : Docs]
Readings == [cfg : Configs, src : Files]

TypeOK ==
    /\ file \in Files /\ file.id > 0
    /\ cache \in [id : 0..MaxVersions, cfg : Configs, src : Files]
    /\ published \in Readings
    /\ live \in BOOLEAN
    /\ last \in 0..MaxVersions
    /\ wlock \in Threads \cup {Nobody}
    /\ pc \in [Threads -> {"idle", "check", "copyOut", "read", "loadStat", "loadFill",
                           "saveStat", "saveFill", "doc", "write", "lock", "publish", "seed",
                           "done"}]
    /\ op \in [Threads -> {"none", "seed", "tick"} \cup Ops]
    /\ buf \in [Threads -> Readings]
    /\ sid \in [Threads -> 0..MaxVersions]
    /\ todo \in [Threads -> SUBSET Keys]
    /\ \A t \in Threads : \E keys \in SUBSET Keys : patch[t] \in [keys -> Vals]
    /\ DOMAIN patch = Threads

(***************************************************************************)
(* When the main loop has nothing to do, readers see the file: every       *)
(* out-of-band change has reached the snapshot, also one made between the  *)
(* load at startup and the first tick, between stat() and the load of a    *)
(* tick, or while another thread was reloading.                            *)
(***************************************************************************)
QuietIsFresh ==
    pc[Main] = "idle" /\ last = file.id => published.cfg = Parsed(file.doc)

(***************************************************************************)
(* Publications do not go back in time: a reload never replaces what was   *)
(* read from one version of the file by what was read from an older one    *)
(* ("always re-read DISK, never the snapshot we replace").                 *)
(***************************************************************************)
NoRollback == [][published'.src.id >= published.src.id]_vars

(***************************************************************************)
(* "A bad edit never replaces a good running config."                      *)
(***************************************************************************)
BadEditKeepsRunning ==
    [][live /\ published'.cfg # published.cfg => published'.src.doc # Malformed]_vars

(***************************************************************************)
(* A request that rewrites the file changes a key it is not about only if  *)
(* it did not start from the file as it is at that moment (somebody wrote  *)
(* in between, a setter saved an older snapshot, the file could not be     *)
(* opened), or if config_save does not keep that key, of this structure or *)
(* of the one it was read into.  config_set of a file nobody else touches  *)
(* thus keeps every other key ("a write preserves every other key already  *)
(* in the file"); the setters do not.                                      *)
(***************************************************************************)
OtherKeysKept ==
    [][\A t \in Threads :
          pc[t] = "write" /\ pc'[t] # "write" /\ file' # file /\ buf[t].src = file =>
          \A k \in Keys \ DOMAIN patch[t] :
             \/ file'.doc[k] = Parsed(file.doc)[k]
             \/ op[t] \in Savers
                   /\ k \in Lost(buf[t].cfg) \cup Lost(Patched(buf[t].cfg, patch[t]))]_vars

(***************************************************************************)
(* What the cache would serve for the file as it is now is what the file   *)
(* says, or the structure config_save made the file from, which may hold   *)
(* settings the file has lost; and not a mixture of the two, nor anything  *)
(* older.  (Unless a thread is just writing the cache.)                    *)
(***************************************************************************)
CacheIsHonest ==
    CacheHit /\ (\A t \in Threads : pc[t] \notin {"loadFill", "saveFill"})
        => Parsed(file.doc) \in {cache.cfg, Saved(cache.cfg)}

(***************************************************************************)
(* Once nobody changes the file, the snapshot settles on its content.  (A  *)
(* removed file does not count as a change: the last snapshot stays.)      *)
(***************************************************************************)
Converges == <>[](file.doc = Absent \/ published.cfg = Parsed(file.doc))
=============================================================================
