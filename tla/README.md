# The configuration module, in TLA+

This directory is a verification project for the C module
`src/src/modules/config/`: the typed, YAML-backed configuration of a server and
its command-line clients, the live snapshot that running threads read it from,
and the roster of agents kept beside it. It holds TLA+ modules translated from
the source, TLC configurations that model-check them on small instances, and
proofs, checked by TLAPS, of their most important properties for all values of
the constants.

Paths below are relative to `src/src/modules/config/` unless they start with
`src/`.

1. [The system](#1-the-system): components, state, operations, interactions
2. [The modules](#2-the-modules) and how they correspond to the code
3. [What is checked](#3-what-is-checked): runs, bounds, fairness
4. [Where the code and its documentation disagree](#4-where-the-code-and-its-documentation-disagree)
5. [What is proved](#5-what-is-proved)
6. [What is not modelled, or only observed](#6-limits)
7. [Plan](#7-plan)

## 1. The system

One process of the server has a main loop and request threads. They share a
process-wide `config_t` snapshot. The file `aimee.yaml` behind it belongs to
nobody: the server rewrites it when a setting is changed by a request, CLI
processes rewrite it, and people edit it by hand.

```
        editors, CLI processes                 request threads        main loop
                 |                                    |                   |
                 v                                    v                   v
   aimee.yaml ---stat/read--> file cache --> config_load_file     reload_if_changed
        ^                     (per process)          |                   |
        |                                            v                   v
        +--- tmp + rename ---- config_save, config_set --> config_reload (one lock)
                                                              |
                                                              v
                         accessors <--pin, copy, unpin-- two-slot snapshot
```

### Live snapshot (`config.c` 1774-2053, 2195-2241)

- *State*: two `config_t` slots, one admission word per slot (a count of pinned
  readers, or the reserved bit), the index of the active slot, a sequence number
  (odd while a publication is in progress), the token (content hash) of what was
  published last, the "initialised" flag, the lock `g_snap_wlock`, the table of
  re-appliers.
- *Operations*: `config_snapshot_init`, `config_snapshot_get`,
  `config_snapshot_read_field` (behind more than 500 generated accessors),
  `config_snapshot_publish`, `config_reload`,
  `config_reload_register_reapplier`.
- *Interactions*: readers and the publisher meet in the admission words, the
  sequence number and the active index only. Re-appliers are callbacks: they run
  on the reloading thread, inside the lock, and read through the same accessors.
- *Hard*: a reader may sleep between any two of its atomic accesses while any
  number of publications go by, and wake up about to pin a slot it chose long
  ago; the writer must not reuse a slot somebody reads; the retry loop has several
  exits and each must give back exactly what it took; the writer spins with the
  lock held.
- *Correct when*: every read returns one whole configuration that was current at
  an instant of the call; the slot being filled has no reader; admission words
  count exactly; the no-op guard never skips a reload that was needed;
  re-appliers see the new snapshot; the publisher is not starved.

### Configuration file, file cache, reload (`config.c` 1148-1770, 1925-1935, 2195-2305)

- *State*: the file; one cached `config_t` with the (mtime, size, inode) it is
  filed under; the identity the main loop saw last; the snapshot.
- *Operations*: `config_load`, `config_load_file`, `config_snapshot_seed`,
  `config_reload`, `config_reload_if_changed`.
- *Interactions*: `config_reload` holds `g_snap_wlock` from before the load to
  after the publication; the file cache has no lock; the tick records the file's
  identity before it reloads.
- *Hard*: an edit can land between any `stat()` and the read it vouches for, or
  between the read and the `stat()` that files the result; two reloads race; a
  load can fail after the tick has recorded the identity; defaults stand in for
  a missing or unparsable file.
- *Correct when*: an idle main loop means the snapshot is the file; publications
  do not go back in time; the snapshot settles on the file once editing stops;
  the cache never answers for the file with something older, or with a mixture.

### Write requests (`config_save.c` 366-1386, 1503-2050, setters of `config_accessors_4.c` to `_7.c`)

- *State*: the document, or the `config_t`, a request carries between its read
  and its write.
- *Operations*: `config_set` (document in, one key, document out, reload);
  `config_set_typed_facts` (three of these); the generated setters (load the
  snapshot, assign one field, save the structure, no reload);
  `config_set_api_http_listener`, `config_disable_api_http_listener`,
  `config_apply_roundtable_preset`, `config_workspace_*`,
  `config_set_model_concurrency`.
- *Hard*: all of them are read-modify-write without a lock, in three variants
  that differ in what they read (file, cache or snapshot) and in whether they
  reload.
- *Correct when*: a request changes its own keys and no others. `config_set` does; what
  goes through `config_save` also drops the settings that it omits (below).

### Atomic replacement of a file (`agent_config.c` 1790-1860, `config_save.c` 1337-1370, 1580-1607)

- *State*: the target, the temporary file `<path>.tmp.<pid>`, the descriptor.
- *Operations*: open, write, (fsync), close, rename; on an error, unlink.
- *Hard*: full disks, crashes between any two calls, write-back in any order,
  two writers.
- *Correct when*: the target is, at every instant and after any crash, one
  save, whole; a success is a success.

### Agent roster (`agent_config.c`, `agent_registry.c`)

- *State*: the roster file, `models.json`, or an older `agents.json` that is used
  when it is there alone; one parsed roster in the process, filed under a `stat()`
  identity, with a mutex around each look and each store; the static buffer in
  which `agent_config_path` answers, and which it fills twice when it falls back
  on the older name.
- *Operations*: `agent_config_path`; `agent_registry_pick` (a lookup, from the
  cache or by a load); `agent_load_config` (cache, else read, parse, normalise,
  file); `agent_save_config` and `agent_save_config_after_removal` (the guard that
  refuses to replace a populated file by an empty roster, write, rename,
  invalidate).
- *Hard*: all threads share the buffer, between the two fills and until the last
  use of the path; the `stat()` is taken after the read; a rejected file has
  filled half of the caller's structure; the guard checks, then acts; a caller
  saves a structure that no load has normalised.
- *Correct when*: a lookup finds an agent that has been there all along; a save
  rewrites the file the roster is in; only normalised rosters come from the
  cache; no sequence of saves wipes a roster unasked.

### Section parsers and serializers (`config_sections.c`, `config_memory.c`, `config_learning.c`, `config_kb_curator.c`, ..., `config_save.c`, `agent_config.c` 860-1790)

- *State*: none. A load zeroes the structure, fills in defaults, has each section
  parser assign what it finds and accepts, and derives some settings from others.
  `config_save` starts from an empty document and writes each section on
  conditions of its own.
- *Interactions*: every generated setter is load, assign, save of *all* sections,
  so what one section's serializer omits is lost by a setter of any other;
  `config_set` edits the document and loses nothing.
- *Hard*: parser, default, serializer and setter of one setting are in four files
  and agree by hand: a value other than the default that is not written, a key
  read in another object's branch, a default that depends on what was read
  before, a value a setter takes and no parser does.
- *Correct when*: what the operator set is what a restart loads, whatever was saved
  in between; every loaded value is in its range; a setter changes one setting.

### Legacy credentials (`config.c` 45-131, 1096-1146, `config_server_api.c` 135-156)

- *State*: the credentials an older `aimee.yaml` holds in plain text; the secret
  store (Vault, in front of it the process's runtime secrets), which lies outside this module
  and is reached through two callbacks, `present` and `writer`.
- *Operations*: `config_migrate_legacy_credentials`, run by every server process
  at its start; `config_secret_store`, where `config_set` and the setters of
  a credential end; a load puts what the store has over what the file says.
- *Hard*: a crash, or a writer that fails, between the writes to the store and
  the save that scrubs the file; two servers that start on one file; two names in the
  file for one credential; a request that sets the credential meanwhile; a new
  primary token that revokes the tokens enrolled under the old one.
- *Correct when*: no migration takes out of the file what the store does not
  have, replaces what the store has, or chooses between two values.

### Other components

| component | state | what would make it correct |
|---|---|---|
| session identity (`config.c` 139-226) | a thread-local override, a process-wide id, a file per parent process | processes with one parent agree on one id, whoever starts first |
| field allowlist (`config_fields.c`) | a static table | every settable key is parsed, serialized and given the right reload verdict |
| generated accessors (`config_accessors_*.c`) | none of their own | one read of one field is one snapshot read |
| effective values (`config_econ.c`, `config_mode.c`, `config_elements.c`) | none | one answer comes from one configuration; the hard kill wins |
| tests (`src/src/tests/test_config*.c`) | | read as a second description of the code, not modelled |

`PROJECT.json` lists the same components with their status, and, under
`hazards`, what in this code is hard to test, each at its line with the property
that watches it.

## 2. The modules

| module | what it is |
|---|---|
| `AtomicConfig` | abstract: one register holding a whole configuration; a read takes effect at one instant of its call |
| `ConfigSnapshot` | the double buffer, one action per atomic access; implements `AtomicConfig` |
| `ConfigStore` | file, file cache, requests, reload, main loop; the snapshot is one register here, which is what `ConfigSnapshot` justifies |
| `AtomicReplace` | how `agents.json` and `aimee.yaml` are rewritten, over a file system with crashes |
| `SettingKinds` | what a parser accepts and assigns, and `config_save` writes, for one key of each kind |
| `SettingsFile` | one section: load, save, setters, edits by hand; the section is a table |
| `MemorySections`, `RuntimeSections`, `ServiceSections`, `FlatSections`, `KbSections`, `LearningSections`, `RosterSections` | the tables of the repository |
| `AgentRegistry` | the roster's two names, the path buffer, the cache, lookups, loads, saves |
| `LegacyMigration` | the credentials of an old file, the secret store, server processes that start |
| `MC*` | instances for TLC: model values, symmetry, the sets a `.cfg` cannot write |
| `*_proofs` | theorems and their TLAPS proofs |

`map` in `PROJECT.json` gives the source lines of every definition. Definitions
introduced by a comment "Mutant: ..." are deliberately wrong variants of the definition
that follows them: each property is known to fail when its definition is
replaced by one of these, and they are no part of any specification.

### ConfigSnapshot

`pc[t]` is the place of a thread in the functions above; the other indexed
variables are their locals, with the source's names (`s0`, `act`, `st`, `nxt`).

| source | action |
|---|---|
| `config_snapshot_get`, `_read_field`: initialised check, output buffer | `Call` |
| first load of `g_snap_seq`, odd = spin | `LoadSeq` |
| load of `g_snap_active`, of the admission word | `LoadActive`, `LoadState` |
| reserved bit seen; count at its maximum; CAS; CAS lost | `Bounce`; `Saturated`; `Pin`; `PinFails` |
| second loads of sequence number and index | `CheckSeq`, `CheckActive` |
| unpin and try again; copy; unpin and return | `Retry`; `Copy` (one field); `Return` |
| `config_snapshot_publish` | `Reserve`, `MarkOdd`, `Fill` (one field), `Flip`, `MarkEven`, `Release` |
| `config_snapshot_init` | `InitSnapshot`, then as above, no re-appliers |
| `config_reload` | `LockForReload`, then `LoadFails`, `LoadSame` (no-op guard) or `LoadNew`; `GoLive`; `Reapply`; `EndReload` |

The copies in and out of a slot are one step per field, in any order, so that a
reader and a writer that ever shared a slot would be seen to. Contents are
abstract (`Configs`), one value per field; a slot that holds `c` in all fields
holds the configuration `c`. Atomic accesses interleave one at a time
(sequential consistency); the effect of the weaker orderings the code asks for is not
examined. The token is taken to tell contents apart, i.e. two configurations do
not collide in the hash. `SeqMod` makes the unsigned sequence number wrap.

Refinement: `current` is `snap[active]`, changed by `Flip`; a read takes effect
at the `CheckActive` that finds the pinned slot still active. One thing the proof
shows is that the second look at the sequence number and the index decides
freshness, not wholeness: pins alone already keep a read from being torn.

### ConfigStore

`file` is the version on disk, numbered; `[cfg, src]` pairs carry, next to the
content, the version it was read from, which no guard looks at: it is there for
the properties.

| source | action |
|---|---|
| an editor, another process | `Edit` |
| `config_load_file`: cache lookup | `Hit`, `CopyOut` (one key) or `Miss` |
| read and parse; defaults if missing or malformed | `ReadFile`; `OpenFails`, `LoadFails` |
| stat again, memcpy into the cache, file it | `Stat`, `CopyIn` (one key), `FileUnder` |
| start of a request; what it loads | `Request`, `LoadDoc` |
| write and rename | `WriteDoc` (`config_set`), `Save` (`config_save`), `WriteFails` |
| `config_reload` | `Lock`, (a load), `Publish` |
| `config_snapshot_seed` | (a load), `Seed` |
| `config_reload_if_changed` | `Tick`, then a reload |

`Ops` names the shapes of request: `"set"` is `config_set`; `"group"`
`config_set_typed_facts`; `"setter"` any generated setter; `"enable"`
`config_set_api_http_listener` and `config_apply_roundtable_preset` (several
keys, one save, reload); `"disable"` `config_disable_api_http_listener` (save
without reload).

The two ways to write differ, and the model keeps them apart. `config_set` edits the
document (`WriteDoc`) and what it does not name stays. `config_save` begins an empty
document and writes what its serializers write of the structure (`Save`): the constant
`Saved(cfg)` is what that document says when it is read back, any function from
configurations to configurations; which settings it really omits is what the tables of
`SettingsFile` list, section by section. It then copies the *structure*, and not what the
document holds of it, into the cache under the identity of the new file, so that the
process goes on serving settings that the file has lost. `MCConfigStore` has two
instances: `SaveKeeps`, which omits nothing, for `store_daemon`, which has one key, its
cache off, and properties that compare what was read with the file; and `SaveDropsK2`, which
loses one of two keys while the other is at its default, for the other runs.

Versions have different identities: two saves of equal size
within one mtime tick and a recycled inode are outside the model. `MaxVersions`
caps the versions of the file; when none is left a write fails and edits stop.

### AtomicReplace

Names lead to inodes, a descriptor keeps its inode, `rename` is one step, each
inode and the directory reach the disk on their own unless `fsync` waited for
them, `Crash` keeps what had reached it. `Fsync` and `Checked` say which of the two
writers is meant: `agent_save_config_impl` syncs and looks at the results,
`config_save` and `config_write_doc` do neither. A save's bytes are `NChunks`
pieces marked with their writer.

### SettingsFile and the sections

A section is named by its path in the file, a setting by its key. Its table has
three columns: `reads` gives every key the *kind* its parser is written in,
`defaults` what the setting is before, `setters` which keys have a generated
setter. Around the tables are operators for what is not tabular:

| operator | code |
|---|---|
| `Accepts`, `Assigned` (by kind) | the `cJSON_Is*` test and the bounds of one `if` of a section parser; the assignment under it |
| `Rendered` | the `v ? 1 : 0`, or the mode name, that `config_save` writes |
| `...Written(c)` | the section's part of `config_save`: which keys the settings `c` put in the document |
| `...Lost(c)` | what the code, as it is, does not bring back after a save of `c`; section 4 names these |
| `...Start(doc)` | defaults that depend on what the parser has met: back ends, the curator's tier, a model without tools |
| `Forced` | what is decided after the keys were read, whatever they say: the deployed API, the tier of structured PDF, evidence embedding, an old `claude` entry of the roster |
| `Loads` | the documents that make `config_load` or `agent_load_config` return an error |

| source | action |
|---|---|
| a generated setter of the section (`config_load`, one assignment, `config_save`) | `Set` |
| a generated setter of any other section | `SetElsewhere` |
| an editor; `config_set` on the document | `Edit` (one key), `Erase` |

The roster's entries and its network block are sections too; commands that load the
roster, change a field and save it stand for the setters. `wanted` is what the operator
has asked for, setting by setting, and is what the file is held against. Sections
share no setting but the curator's tier, so one behaviour follows one section.
Numbers are small; doubles are in thousandths; a string is empty, a name the
code knows, or another; a list is such a string. Every value has one of the
wrong JSON type (`Wrong`) beside it.

### AgentRegistry

| source | action |
|---|---|
| `agent_config_path`: first fill; `access`, `access`, second fill | `ResolveFirst`; `ResolveLegacy` |
| `agent_load_config`, `agent_registry_pick`: start | `Load`, `Find` |
| `stat`, look at the cache | `Pick` (a lookup), `Check` (a load) |
| open, read, parse, normalise, or return -1 | `ReadFile`; `LoadFails` (no memory, no descriptor, over 1 MB) |
| `stat`, store into the cache | `Publish` |
| a caller changes what it loaded and saves it | `Save` |
| `agent_config_existing_agent_count` | `Count`; `CountFails` (it returns -1 for a file it cannot open, size or buffer, or over 8 MB) |
| temporary file; `rename`; `chmod` and invalidation | `Open`; `Rename`; `Drop` |
| an editor, another process | `Edit` |

The replacement of the file is one step, which is what `AtomicReplace` is about.
Versions of the two files are numbered together. `cfg[t].src`, `cache.cfg.src`,
`counted`, `moved` and `there` are looked at by no guard: the version a roster was
read from, the version the guard counted, the threads under which another one
changed the buffer, and the agent looked up as long as every version of the files
has had it. A lookup that falls back on a default primary is `Find` of that agent.

### LegacyMigration

| source | action |
|---|---|
| `config_load_file`, the comparison of the two tokens of the knowledge base | `Begin` |
| `MIGRATE_LEGACY_SECRET` and the loop after it: `present`, for the next field; nothing to do | `Ask` |
| the `writer`, which may fail | `Seal` |
| `config_save`, which writes no credential, and may fail | `Save` |
| the process dies | `Crash` |
| an editor; `config_set` on a document it had read before | `Edit` |
| a generated setter of any other setting | `Setter` |
| `config_secret_store` | `StoreSecret` |

`src`, `revoked` and `raced` are looked at by no guard: the version of the file a
process loaded, the processes whose load dropped the additional tokens, and the processes about
to write a name that somebody else has stored since they asked. Of the credentials
with one name each there is one, of the additional tokens there is one; the five
fields are in the order of the code. The store is durable and is asked (`present`
may be null, and then every start overwrites it). The replacement of the
file is one step.

## 3. What is checked

| run | instance | question, and what it shows |
|---|---|---|
| `snapshot` | 3 threads, 2 fields, 2 contents, `ReaderMax` 3, `SeqMod` 4, 1 re-applier | safety and refinement of the double buffer: 1.46 million states |
| `snapshot_live` | 2 threads, reads of all or one field, `ReaderMax` 1 | under fairness a publisher gets its slot, readers make progress; saturation happens |
| `store_daemon` | main loop, 2 workers, 1 key, 2 values, 3 versions; set, setter, enable; edits, broken edits, removals; cache off | an idle main loop means a fresh snapshot, publications advance, the snapshot settles: 1.06 million states |
| `store_cli` | 1 thread, 2 keys, 4 versions; set, group, setter, enable, disable; a `config_save` that omits one key; cache on; load, open and write fail at any point | the cache answers with what the file says, or with the structure `config_save` made it from, and with nothing else; a request keeps the keys it is not about, but for that omission: 85 thousand states |
| `replace_agents` | 2 processes, 2 pieces, 4 inodes; write and rename errors, crashes | the target is always one whole save; success is real |
| `settings` | 108 sections, one at a time; values that tell the cases of a kind apart; `MaxOff` 2 | what the operator set is what a restart loads, but for the listed losses: 30 thousand states |
| `roster` | 2 threads, 1 agent, an `agents.json` at first, 3 versions; edits to nonsense, to a rejected file, to a roster | lookups, loads and saves over one buffer and one cache, any read of which may fail: 2.9 million states |
| `migration` | 2 server processes, 5 fields, 2 credentials, 3 versions; a new store, edits, requests, failing writers, crashes | what leaves the file is in the store, and what is in the store stays: 2.8 million states |
| `store_bad_edit`, `store_stale_cache`, `replace_shared`, `replace_config` | as small as shows it | violations, see section 4 |

**Properties.** `ConfigSnapshot`: `PinsCounted`, `NoRace`, `NoTornRead`,
`TokenCurrent`, `ReapplierSeesNew`, `NeverSaturated`, `ReadsAreAtomic` (the
refinement), `PublishCompletes`, `ReadersProgress`. `ConfigStore`:
`QuietIsFresh`, `NoRollback`, `Converges`, `CacheIsHonest`, `OtherKeysKept`.
`AtomicReplace`: `TargetIsWhole`, `SuccessIsReal`. `SettingsFile`: `Survives`,
`LossesKnown` (the losses are exactly those listed), `InRange`, `Settles` (a
second save loses nothing more), `SetsOne`. `AgentRegistry`: `NormalOnly`,
`FindsWhatIsThere`, `NotForked`, `Guarded`. `LegacyMigration`: `NeverGuesses`,
`ScrubsOnlySealed`, `NothingOverwritten`. Each module has one type
invariant, `TypeOK`, checked by one run of it. The comment over each property says in words what it
states.

**Why the bounds are enough.** Three threads are the least with which one reader
is overtaken by two publications of different threads while another reader holds
the other slot; two fields are the least a torn read needs; with `SeqMod` 4 the
sequence number wraps within two publications, so that a delayed reader
does meet its old number again (the ABA case); `ReaderMax` 3 lets all threads pin one slot,
`ReaderMax` 1 in `snapshot_live` makes the limit bite. In `store_daemon` two
workers reload against each other and against the tick, and three versions allow
an edit on each side of a load. In `store_cli` four versions are three writes, enough for a
fill, a failed write and a stale lookup; two keys are one that a save omits and one that it keeps. Four inodes are the target, its
predecessor on disk and one temporary file per process.

In `settings`, `MaxOff` bounds how far the file and what is wanted may be from the
defaults: settings that differ, keys `config_save` would not write so, keys that
are missing. The conditions of `config_save` and of the parsers relate at
most two settings of a section (a size opens the block of a flag, a tier overrides
a stage), and two is what such a pair needs; beyond it
a section's settings are independent. A section's path through the file is
followed to depth 6. In `roster` three versions are the first and two writes,
by a thread and an editor or two threads, around one read; one agent is enough since a
load, a cache and a guard treat rosters as wholes, and a lookup is of one agent; the run
begins with an `agents.json` because with a `models.json` the older name is never looked at.
In `migration` two processes are what a race for one name takes; three versions
are the first, an edit or a setter's save, and the save of a migration;
of the fields two share a name, one is a primary token and one is enrolled under
it, which are all the ties there are between fields.
A curator with every stage off beside an evidence embedding of its own, which no two
steps from a default reach, is one of the files a behaviour of `settings` begins with.
Each exception in `CacheIsHonest`, `OtherKeysKept`, `FindsWhatIsThere`, `NotForked`, `Guarded`, `ScrubsOnlySealed` and
`NothingOverwritten` is needed: without it the run finds a violation.

`store_daemon` runs with the file cache off (`AIMEE_NO_CACHE`): with it on,
`QuietIsFresh` and `NoRollback` are false, which is what `store_stale_cache`
shows. It is also why the theorems about the server assume `UseCache = FALSE`. `store_cli`
has one thread because two writers lose updates (section 6).

**Symmetry** is used in safety runs only: threads and contents in `snapshot`,
threads and inodes in `replace_agents`, the processes in `migration` (no property or definition tells them
apart).

**Fairness.** `ConfigSnapshot`: weak fairness of each thread's `ReadStep` and
`WriteStep`. Threads inside a call are scheduled by the operating system, and a
spinning writer yields (`config.c` 1894-1910); nothing makes a thread begin a
call, so `Begin` has no fairness. Weak fairness is enough: the slot a writer waits for is not
active, so the readers on it leave and none comes. `ConfigStore`: weak fairness
of `Step(t)`; it contains the main loop's tick, which the server's loop calls
periodically, and the continuation of requests, not their start nor edits.

**Deadlock** is checked in every run: an idle thread can always begin a call in
`ConfigSnapshot`, and a crash is always possible in `AtomicReplace`;
in `ConfigStore` a request can always be made, and fails when no
version is left; in `SettingsFile` another section can always be saved unless the
file does not load, and then a key can be erased; in `AgentRegistry` an idle
thread can always load; in `LegacyMigration` an idle process can always start
or a secret be set.

## 4. Where the code and its documentation disagree

| run | the code | says otherwise |
|---|---|---|
| `store_bad_edit` | a file that `yaml_parse` rejects loads as defaults with success (`config.c` 1218), so a reload replaces the running configuration by the defaults | `config.c` 2251 "a bad edit never replaces a good running config"; `src/docs/modules/config.md` 108 |
| `store_stale_cache` | `config_load_file` files what it read under an identity it takes later (`config.c` 1753): an edit between the two never takes effect | `config.c` 2206 "always re-read DISK"; 2247, on the first tick |
| `replace_shared` | two threads of one process share `<path>.tmp.<pid>`: one truncates what the other renames (`agent_config.c` 1817) | `agent_config.c` 1811 "can NEVER leave a truncated or empty agents.json" |
| `replace_config` | `fputs` and `fclose` are not checked before the rename (`config_save.c` 1594): a full disk installs a truncated file, with success | `src/docs/modules/config.md` 109 |

The exact quotations are in `PROJECT.json`, under `findings`.

Disagreements that have no run of their own:

- A generated setter saves the whole snapshot it loaded and reverts what has
  changed in the file since (`config_accessors_5.c` 26, and all of that shape);
  `src/docs/modules/config.md` 87: "disk reads avoid overwriting unseen edits". With
  `Daemon`, `Ops = {"setter"}` and no edits `OtherKeysKept` is violated.
  `config_save.c` 1863 describes the loss.
- `config_migrate_legacy_credentials` is said to return 0 when the file "contained
  no credentials" (`config.h` 2347). Once the store has the API's primary token
  a load puts it where the file's would be (`config_server_api.c` 153), so every
  start finds one credential to hand over, rewrites the file and returns 1.
- A save "rewrites the file the operator has instead of forking the roster in two"
  (`agent_config.c` 75): it forks it under another thread's use of the static
  buffer, the exception of `NotForked`. The cache is "keyed by the stat() of the
  file it came from" (`agent_registry.h` 18): the `stat()` is taken after the parse
  (`agent_config.c` 1494).
- `"tools_enabled": true|false` is "honoured verbatim" (`agent_config.c` 1089): false
  is not saved (1631), and the next load derives true for a model that has tools.
- "a key parsed but not saved silently loses the operator's value"
  (`config_save.c` 385): the settings in the operators `...Lost` are such keys, among them
  both transport switches when they are off together ("both remain independently
  rollbackable", `config.c` 932), opt-outs of fold recall, typed facts, identity injection and
  rewriting, and the sections `kb.api`, `kb.background`, `learning.synthesize`,
  `ranking` and `recall_lanes`.
- "config_set is the single save path [...] There is no whole-file rebuild, so parse and save
  cannot drift" (`config_save.c` 1498-1500): the generated setters and the requests of
  `config_save.c` 1868-1968 go through `config_save`, which rebuilds the whole file, omits what its
  serializers omit, and leaves the omitted settings in the cache of the process.
- The zero-agent guard: "whatever the trigger [...] the destruction stops here"
  (`agent_config.c` 1783). It counts by reading the file (1511-1532), and takes a file that it
  cannot open or buffer, or that is over 8 MB, for one with nothing to protect: the empty
  save replaces a populated file that has not changed. `Guarded` names the case.
- The tier of structured PDF comes "first: ... per-stage keys below still override it"
  (`config.c` 1416): the stages are flat keys, which are read before, so the tier
  overrides them.
- `config.c` 871: implicit learning gates "lack config-file persistence"; they have it.

## 5. What is proved

Every theorem holds for all values of the constants that satisfy the named
`ASSUME`s of the module and the hypothesis stated in it.

**`ConfigSnapshot_proofs`** - any number of threads, fields, contents, any
`ReaderMax`, `SeqMod`, re-appliers. The properties are not inductive: that nobody
copies from the slot being filled depends on why the slot could be reserved. The
invariant `Inv` is a conjunction of

- `Lock`: the thread in the writer's part holds `g_snap_wlock`, alone, and its
  locals are dead otherwise;
- `PinsCounted`, and `ReservedByHolder`: a slot is reserved only between a
  lock holder's `Reserve` and `Release`, and it is the holder's;
- `SlotRoles`: `nxt` is the slot that is not active until `Flip`, the active one after;
- `Filled`, `Published`: what has been filled holds `cfg`; the active slot holds one
  configuration, which the token names between publications;
- `ReadsAreLive`, `CopyFaithful`: a thread reads only once a snapshot is
  live, and what it copied is what its pinned slot holds.

From it: `TypeCorrect`, `PinsAreCounted`, `RaceFree`, `ReadsAreWhole`,
`NoopGuardIsSound`, `ReappliersSeeNew`, `NoCallSaturates`, and `Refinement`:
`Spec => Abstract!Spec`, by one step lemma per action.

**`AtomicReplace_proofs`** - `TypeCorrect`, for any writers; `TargetStaysWhole` and `SuccessIsInstalled`, under
`AgentsWriter`: the writer syncs, checks its results, and each process has one
thread that saves. Invariant: an inode has one name (`OneName`), the target's
inode is nobody's temporary file (`TargetNotTemp`), the target's inodes, in
memory and on disk, are whole in both places (`TargetsSolid`), and a
writer's inode holds what it has written so far (`WriterAt`). `TargetsSolid` is
what makes a crash harmless, and is where `fsync` before `rename` is needed.
Without the hypothesis, `replace_shared` and `replace_config` show the properties false.

**`ConfigStore_proofs`** - `TypeCorrect`, for all constants; under `FileIsRead`
(cache off, and no failing `fopen` of an existing file), `PublicationsAdvance`
for any number of threads, requests, edits and the other failures, and, if loads
do not fail either, `QuietMeansFresh`. The heart of the invariant is `Ordered`:
what the lock holder has read is no older than what is published, because the
lock is taken before the read; and `TickPending`: if the identity recorded
last is the file's, then the snapshot is that version's content, or a thread
is between its `Tick` and its `Publish`.

`KeysKeptWithoutCache`: with the cache off, for any threads, edits, requests and failures,
a request that starts from the file as it is keeps the keys it is not about, but for what
`config_save` omits; what was read from a version says what that version says (`FromDisk`).

**`StoreCli_proofs`** - under `Alone` (a process of one thread, whose file nobody
else writes, making any requests) `CliCacheIsHonest` and `CliKeysKept`, for any
`Saved`, whatever load, open or write fails. The invariant (`Agreement`) says that what the
cache is filed for, the buffer was read from and the snapshot was published from, when it is
the file as it is, *agrees* with it: is what the file says, or what `config_save` made it
from. More is not true, since the cache and the snapshot keep what the file has lost.

**`SettingsFile_proofs`** - the tables are parameters, so the theorems say which
properties of a table are enough; each is a definition of the module.

| theorem | property | what it asks of a section |
|---|---|---|
| `TypeCorrect` | `TypeOK` | `WritesItsOwn`: a save writes keys of the section |
| `LoadedInRange` | `InRange` | and `StartsLoadable`: a load starts from, and forces, values in bounds |
| `OneSettingMoves` | `SetsOne` | and `RereadsDefaults`: a default that is written is reread as it was |
| `NothingIsLost` | `Survives` | and `OmitsOnlyTheStart`: what a save omits, and is not listed as lost, is what the parser starts from on the saved document (`Faithful`) |
| `LossesAreKnown` | `LossesKnown` | and `LossesListed`: a listed loss is omitted, is not what the parser starts from, and a forced setting is forced as it was |
| `SavesSettle` | `Settles` | and `LosesOnce`: a saved document loads, and has nothing left to lose |

They rest on two facts of a single load: a number stays a number on its way
through a setter, the file and the parser (`FileTyped`, with `RangeAssumption`),
and what a load gives is in bounds and is what its own text gives back (`Loadable`). The
invariant of `NothingIsLost` holds the loaded settings, not the file, against what
the operator wants, since a save reorganises the file.

**`Sections_proofs`** - the tables of `RuntimeSections` and `FlatSections`, thirty
sections, meet those conditions (`Sound`), so the five properties hold of any
configuration made of them (`Known`: the constants are what `MCSettings` makes of
these tables). A section that starts from its defaults and forces nothing (`Plain`) is sound if
what it omits is its default, is not accepted, or is a loss (`Tidy`), and its losses
are settings apart from their default that one save ends (`Lossy`). One lemma per section
shows that; it is where the twists of `config_save` are met one by one:
`requeue_max` kept only under preemption, a closed `fold.recall`, a gate that is on
by default and written when on. `kb_pdf` is not plain: its tier forces the gates, and
the lemma shows that it forces what the file was saved with. The sections of the other five
tables are checked by the run `settings`, which evaluates on each what the theorems
assume.

The provers do not expand `@@` and `:>` of the `TLC` module, so `SettingKinds`
has its own, and a table is a function given by cases.

**`AgentRegistry_proofs`** - any threads, agents, edits, versions.
`CacheIsNormal`: a structure is its caller's own only from its change to the end of
its save (`NormalInv`). `GuardHolds`: a version is of one file and is written
once, so what the guard counted stays so (`GuardInv`); a guard that could not read the file
has counted nothing and protects nothing, which is an exception of the property. `OneRoster`: a resolved
path that names a `models.json` which is not there was changed by another thread (`PathInv`).
`LookupsFind`: a structure that was read says what its version says, as long as that is
there (`ReadInv`); and an agent that no file has left out since a lookup of it began is
where the roster is, in the file the lookup has resolved, and in what it has read, unless
its path was changed under it (`SeekInv`); a lookup that got no memory or no descriptor
ends in a stage of its own, `"failed"`, which the property names.

**`LegacyMigration_proofs`** - any processes, credentials, edits, requests.
`HandInv`: the fields a process has passed without a failure are in the store under their
names (`HandedOver`), a process about to save has not failed (`SavesUnfailed`), and has
what its version of the file says unless tokens were revoked (`HoldsItsFile`); it
rests on the store never losing a name. From it `Scrubbed`. `CareInv` adds that a
process about to write a name has found nothing under it, or is in `raced`, and that of two
tokens that differ one is passed only when the store knows better: `StoreIsKept`,
`RefusesToGuess`.

The proofs rest on the prover's backends (Z3, Zenon, LS4) and the library's
theorems on finite sets and cardinality; nothing is left without proof.

**Only model-checked**: `PublishCompletes`, `ReadersProgress` and `Converges`, which
are liveness under fairness, out of the prover's reach; and, of five of the tables,
that they meet the conditions of `SettingsFile_proofs`. What a run that expects a violation
shows is a counterexample, and has no theorem.

## 6. Limits

**Not modelled** (status `not_modelled` or `partly` in `PROJECT.json`): session
identity; effective values; lookup in the allowlist and its reload verdict; the requests on
workspaces, model concurrency and the sandbox; `config_apply_runtime_secrets`,
which overlays a load with secrets of the process's memory. Of the sections: the merge of
`memory.dispositions`, the entries of `lsp_servers`, `mcp_clients` and of
ensembles, the list of workspaces, secrets. Of the roster: its lists of roles,
personas and credentials, the expansion of a registration, what is adopted
from the catalogue. Also outside: logging, the layout of the YAML text, the tests.

**Abstractions a reader should know of**: sequentially consistent memory; a hash
without collisions; identities that differ between versions; a file read whole
(it is replaced by rename, but a person's editor may write in place); values of
a key as opaque values.

**Seen while modelling, without a run of their own:**

- Two concurrent `config_set` calls lose one update: with two workers and
  `Ops = {"set"}` `OtherKeysKept` is violated. `config_save.c` 1661 reads, edits and
  renames with no lock.
- `config_set_typed_facts` (`config_save.c` 1690) is described as one change and
  publishes its three keys one by one; if the second fails, the first stays.
- A reload that fails after the tick recorded the identity is not retried
  (`config.c` 2294): with `Failures = {"load"}`, `QuietIsFresh` is violated. Strict
  mode, an economizer mode that is refused and memory exhaustion are the ways to
  get there.
- `config_load_doc` takes any failure of `fopen` for a missing file
  (`config_save.c` 1556): one key replaces all of them.
- `config_save` files the structure it was given in the cache under the new file's
  identity (`config_save.c` 1375): a setting it omits (section 4) is served by this process
  until the next change of the file, and by no other process. Without the second
  alternative of `CacheIsHonest`, `store_cli` finds it in one request.
- A lookup in the roster returns the same for an agent that is not there and for a
  failing `malloc` or `fopen` (`agent_config.c` 746, 800): `FindsWhatIsThere` names the case.
- `kb.evidence.embed` is saved beside no `kb.curator` when every stage is off and nothing
  else differs (`config_kb_curator.c` 562-584), and is then not read (216): `EvidenceLost`.
- `config_save` does not sync before rename (`config_save.c` 1355): with
  `Fsync = FALSE`, `Checked = TRUE`, a crash after the rename violates
  `TargetIsWhole`.
- A setter of any setting, before the migration has run, saves the file without
  its credentials, and no store has them (`config_accessors_7.c` 33): `Setter` in
  `LegacyMigration`, which the properties do not cover.
- A roster file that is rejected has filled part of the caller's structure
  (`agent_config.c` 1028, 1280, 1352); one that is saved then passes the guard. The guard
  counts the agents of files up to 8 MB, a load takes 1 MB.
- `config_sections.c` 383 and its like cast a double to int with no upper bound, which
  C leaves undefined beyond `INT_MAX`; `config_learning.c` 536 guards.
- `config_set_disposition_count` (`config_accessors_4.c` 1631) sets the count of a list
  without its entries; entries nobody filled in are saved. The setters of other counts do the same.
- `session_id` (`config.c` 199) creates the file of its parent process and writes
  it in two steps: a sibling that reads between the two keeps an id of its own.
- `config_persist_mode` (`config_mode.c` 94) truncates the mode file in place, and a
  failing write is a success.

## 7. Plan

Done, in this order, most important behaviour first: `AtomicConfig`,
`ConfigSnapshot` with its proof, `ConfigStore`, `AtomicReplace`, their proofs;
`SettingsFile` with the tables of the sections, `AgentRegistry`, `LegacyMigration`, their
proofs.

Left:

1. `SessionId`: sibling processes, the file of their parent, a process that dies
   between its creation and its write.
2. The remaining requests (workspaces with their parallel arrays and limit of
   64, model concurrency, sandbox) as operations of `ConfigStore`.
3. `EffectiveValues`: the economizer's answer from two pins of the snapshot
   (`config_econ.c` 92-97), mode and element resolution.
4. The merge of `memory.dispositions` and the lists with entries, in the sections.

Theorems: `Sections_proofs` for the other five tables, until its hypothesis is that
the constants are those of `MCSettings`; `PublicationsAdvance` with the cache, for as
much of it as is true.
