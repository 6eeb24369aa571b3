-------------------------- MODULE ConfigStore_proofs --------------------------
(***************************************************************************)
(* Proofs about ConfigStore, for any number of threads, settings, values   *)
(* and versions of the file, any requests and any edits.                   *)
(***************************************************************************)
EXTENDS ConfigStore, TLAPS

USE DEF Goto, threadVars, Threads

-----------------------------------------------------------------------------
(* Types.                                                                  *)

Pcs == {"idle", "check", "copyOut", "read", "loadStat", "loadFill", "saveStat", "saveFill",
        "doc", "write", "lock", "publish", "seed", "done"}

LEMMA ReadType == ASSUME NEW f \in Files PROVE Read(f) \in Readings
  BY StoreAssumption DEF Read, Readings, Files, Parsed, Defaults, Configs

LEMMA BlankType == Blank \in Readings
  BY StoreAssumption DEF Blank, Readings, NoFile, Files, Docs, Defaults, Configs

LEMMA PatchedType ==
  ASSUME NEW c \in Configs, NEW keys \in SUBSET Keys, NEW p \in [keys -> Vals]
  PROVE  Patched(c, p) \in Configs
  BY DEF Patched, Configs

\* TypeOK, the patches apart.
PatchOK == /\ \A t \in Threads : \E keys \in SUBSET Keys : patch[t] \in [keys -> Vals]
           /\ DOMAIN patch = Threads

LocalsOK == /\ pc \in [Threads -> Pcs]
            /\ op \in [Threads -> {"none", "seed", "tick"} \cup Ops]
            /\ buf \in [Threads -> Readings]
            /\ sid \in [Threads -> 0..MaxVersions]
            /\ todo \in [Threads -> SUBSET Keys]

SharedOK == /\ file \in Files /\ file.id > 0
            /\ cache \in [id : 0..MaxVersions, cfg : Configs, src : Files]
            /\ published \in Readings
            /\ live \in BOOLEAN
            /\ last \in 0..MaxVersions
            /\ wlock \in Threads \cup {Nobody}

LEMMA TypeParts == SharedOK' /\ LocalsOK' /\ PatchOK' => TypeOK'
  BY DEF TypeOK, SharedOK, LocalsOK, PatchOK, Pcs

\* A new version of the file is a version of the file.
LEMMA ReplaceType ==
  ASSUME NEW doc \in Docs, file \in Files, Replace(doc)
  PROVE  file' \in Files /\ file'.id = file.id + 1 /\ file'.id > 0
  BY StoreAssumption DEF Replace, Files

LEMMA PatchesType ==
  ASSUME NEW o, NEW p \in Patches(o) PROVE \E keys \in SUBSET Keys : p \in [keys -> Vals]
  BY DEF Patches

LEMMA GotoType ==
  ASSUME TypeOK
  PROVE  \A t \in Threads : /\ Loaded(t) \in Pcs /\ AfterReload(t) \in Pcs
                            /\ AfterSave(t) \in Pcs /\ AfterFill(t) \in Pcs
  BY DEF Loaded, AfterReload, AfterSave, AfterFill, Pcs

LEMMA TypeInit == Init => TypeOK
<1> SUFFICES ASSUME Init PROVE TypeOK
  OBVIOUS
<1>1. file \in Files /\ file.id > 0
  BY StoreAssumption DEF Init, Files, Docs, Defaults, Configs
<1>2. /\ cache \in [id : 0..MaxVersions, cfg : Configs, src : Files]
      /\ published \in Readings /\ last \in 0..MaxVersions
  BY BlankType, StoreAssumption DEF Init, Blank, Readings
<1>3. \A t \in Threads : patch[t] \in [{} -> Vals]
  BY DEF Init, NoPatch
<1> QED
  BY <1>1, <1>2, <1>3, BlankType DEF Init, TypeOK

\* What a step of a thread does to its pc, and what it leaves alone.
LEMMA TypeEdit == ASSUME TypeOK, Edit PROVE TypeOK'
<1>1. PICK doc \in Edits : Replace(doc)
  BY DEF Edit
<1>2. file' \in Files /\ file'.id > 0
  BY <1>1, ReplaceType, StoreAssumption DEF TypeOK
<1> QED
  BY <1>2 DEF Edit, TypeOK

LEMMA TypeLoad ==
  ASSUME TypeOK, NEW t \in Threads,
         Hit(t) \/ (\E k \in Keys : CopyOut(t, k)) \/ Miss(t) \/ ReadFile(t)
            \/ OpenFails(t) \/ LoadFails(t)
  PROVE  TypeOK'
<1> USE GotoType DEF TypeOK, Pcs
<1>1. CASE Hit(t)
  <2>1. [cfg |-> Defaults, src |-> cache.src] \in Readings
    BY BlankType DEF Blank, Readings
  <2> QED
    BY <1>1, <2>1 DEF Hit
<1>2. ASSUME NEW k \in Keys, CopyOut(t, k) PROVE TypeOK'
  <2>1. [buf[t] EXCEPT !.cfg[k] = cache.cfg[k]] \in Readings
    BY DEF Readings, Configs
  <2>2. buf' \in [Threads -> Readings]
    BY <1>2, <2>1 DEF CopyOut
  <2> QED
    BY <1>2, <2>2 DEF CopyOut
<1>3. CASE Miss(t)
  BY <1>3 DEF Miss
<1>4. CASE ReadFile(t)
  BY <1>4, ReadType DEF ReadFile
<1>5. CASE OpenFails(t)
  BY <1>5, BlankType DEF OpenFails
<1>6. CASE LoadFails(t)
  BY <1>6 DEF LoadFails
<1> QED
  BY <1>1, <1>2, <1>3, <1>4, <1>5, <1>6

LEMMA TypeFill ==
  ASSUME TypeOK, NEW t \in Threads,
         Stat(t) \/ (\E k \in Keys : CopyIn(t, k)) \/ FileUnder(t)
  PROVE  TypeOK'
<1> USE GotoType DEF TypeOK, Pcs
<1>1. CASE Stat(t)
  <2>1. file.id \in 0..MaxVersions
    BY DEF Files
  <2>2. LocalsOK'
    <3>1. CASE file.doc = Absent
      <4>1. pc' = [pc EXCEPT ![t] = AfterFill(t)] /\ sid' = sid /\ todo' = todo
        BY <1>1, <3>1 DEF Stat
      <4> QED
        BY <1>1, <4>1 DEF Stat, LocalsOK
    <3>2. CASE file.doc # Absent
      <4>1. /\ pc' \in {[pc EXCEPT ![t] = "loadFill"], [pc EXCEPT ![t] = "saveFill"]}
            /\ sid' = [sid EXCEPT ![t] = file.id] /\ todo' = [todo EXCEPT ![t] = Keys]
        BY <1>1, <3>2 DEF Stat
      <4> QED
        BY <1>1, <2>1, <4>1 DEF Stat, LocalsOK
    <3> QED
      BY <3>1, <3>2
  <2>3. SharedOK' /\ PatchOK'
    BY <1>1 DEF Stat, SharedOK, PatchOK
  <2> HIDE DEF TypeOK
  <2> QED
    BY <2>2, <2>3, TypeParts
<1>2. ASSUME NEW k \in Keys, CopyIn(t, k) PROVE TypeOK'
  <2>1. buf[t].cfg \in Configs /\ buf[t].src \in Files
    BY DEF Readings
  <2>2. cache' \in [id : 0..MaxVersions, cfg : Configs, src : Files]
    BY <1>2, <2>1 DEF CopyIn, Configs
  <2> QED
    BY <1>2, <2>2 DEF CopyIn
<1>3. CASE FileUnder(t)
  BY <1>3 DEF FileUnder
<1> QED
  BY <1>1, <1>2, <1>3

LEMMA TypeRequest ==
  ASSUME TypeOK, NEW t \in Threads, Request(t) \/ LoadDoc(t) \/ WriteFails(t) \/ Return(t)
  PROVE  TypeOK'
<1> USE GotoType DEF TypeOK, Pcs
<1>1. CASE Request(t)
  <2>1. PICK o \in Ops : /\ op' = [op EXCEPT ![t] = o]
                         /\ \E p \in Patches(o) : patch' = [patch EXCEPT ![t] = p]
                         /\ pc' \in {[pc EXCEPT ![t] = "write"], [pc EXCEPT ![t] = "doc"],
                                     [pc EXCEPT ![t] = "check"]}
                         /\ buf' \in {buf, [buf EXCEPT ![t] = published]}
    BY <1>1 DEF Request
  <2>2. PICK p \in Patches(o) : patch' = [patch EXCEPT ![t] = p]
    BY <2>1
  <2>3. \E keys \in SUBSET Keys : p \in [keys -> Vals]
    BY PatchesType
  <2>4. PatchOK'
    BY <2>2, <2>3 DEF PatchOK
  <2>5. LocalsOK'
    BY <1>1, <2>1 DEF Request, LocalsOK
  <2>6. SharedOK'
    BY <1>1 DEF Request, SharedOK
  <2> HIDE DEF TypeOK
  <2> QED
    BY <2>4, <2>5, <2>6, TypeParts
<1>2. CASE LoadDoc(t)
  BY <1>2, ReadType DEF LoadDoc
<1>3. CASE WriteFails(t)
  BY <1>3 DEF WriteFails
<1>4. CASE Return(t)
  <2>1. NoPatch \in [{} -> Vals]
    BY DEF NoPatch
  <2>2. PatchOK'
    BY <1>4, <2>1 DEF Return, PatchOK
  <2>3. LocalsOK'
    BY <1>4, BlankType, StoreAssumption DEF Return, LocalsOK
  <2>4. SharedOK'
    BY <1>4 DEF Return, SharedOK
  <2> HIDE DEF TypeOK
  <2> QED
    BY <2>2, <2>3, <2>4, TypeParts
<1> QED
  BY <1>1, <1>2, <1>3, <1>4

\* What a step that writes does to the thread's request.
LEMMA TypeWritten ==
  ASSUME TypeOK, NEW t \in Threads, NEW doc \in Configs, NEW c \in Configs, Replace(doc),
         buf' = [buf EXCEPT ![t] = [cfg |-> c, src |-> file']],
         NEW keys, patch' = [patch EXCEPT ![t] = [k \in DOMAIN patch[t] \ keys |-> patch[t][k]]]
  PROVE  /\ file' \in Files /\ file'.id = file.id + 1 /\ file'.doc = doc
         /\ buf' \in [Threads -> Readings]
         /\ PatchOK'
<1>1. file' \in Files /\ file'.id = file.id + 1 /\ file'.doc = doc
  BY ReplaceType DEF Docs, TypeOK, Replace
<1>2. [cfg |-> c, src |-> file'] \in Readings
  BY <1>1 DEF Readings
<1>3. buf' \in [Threads -> Readings]
  BY <1>2 DEF TypeOK
<1>4. PICK ks \in SUBSET Keys : patch[t] \in [ks -> Vals]
  BY DEF TypeOK
<1>5. [k \in DOMAIN patch[t] \ keys |-> patch[t][k]] \in [ks \ keys -> Vals]
  BY <1>4
<1>6. ks \ keys \in SUBSET Keys
  BY <1>4
<1>7. PatchOK'
  BY <1>5, <1>6 DEF TypeOK, PatchOK
<1> QED
  BY <1>1, <1>3, <1>7

\* What config_set writes: the document, with one key of the request.
LEMMA WriteDocType ==
  ASSUME TypeOK, NEW t \in Threads, WriteDoc(t)
  PROVE  \E k \in DOMAIN patch[t] :
            /\ Patched(buf[t].cfg, [j \in {k} |-> patch[t][j]]) \in Configs
            /\ Replace(Patched(buf[t].cfg, [j \in {k} |-> patch[t][j]]))
            /\ patch' = [patch EXCEPT ![t] = [j \in DOMAIN patch[t] \ {k} |-> patch[t][j]]]
<1>1. PICK keys \in SUBSET Keys : patch[t] \in [keys -> Vals]
  BY DEF TypeOK
<1>2. PICK k \in DOMAIN patch[t] :
         /\ Replace(Patched(buf[t].cfg, [j \in {k} |-> patch[t][j]]))
         /\ patch' = [patch EXCEPT ![t] = [j \in DOMAIN patch[t] \ {k} |-> patch[t][j]]]
  BY DEF WriteDoc, TypeOK
<1>3. {k} \in SUBSET Keys /\ [j \in {k} |-> patch[t][j]] \in [{k} -> Vals]
  BY <1>1
<1>4. buf[t].cfg \in Configs
  BY DEF TypeOK, Readings
<1> QED
  BY <1>2, <1>3, <1>4, PatchedType

\* What config_save writes of the structure it is given.
LEMMA SaveType ==
  ASSUME TypeOK, NEW t \in Threads
  PROVE  Patched(buf[t].cfg, patch[t]) \in Configs /\ Saved(Patched(buf[t].cfg, patch[t])) \in Configs
<1>1. PICK keys \in SUBSET Keys : patch[t] \in [keys -> Vals]
  BY DEF TypeOK
<1>2. buf[t].cfg \in Configs
  BY DEF TypeOK, Readings
<1> QED
  BY <1>1, <1>2, PatchedType, SavedAssumption

LEMMA WriteType ==
  ASSUME TypeOK, NEW t \in Threads, WriteDoc(t) \/ Save(t)
  PROVE  /\ file' \in Files /\ file'.id = file.id + 1 /\ file'.doc \in Configs
         /\ buf' \in [Threads -> Readings] /\ buf'[t].src = file'
         /\ \A u \in Threads : u # t => buf'[u] = buf[u]
         /\ PatchOK'
<1>1. CASE WriteDoc(t)
  <2>1. PICK k \in DOMAIN patch[t] :
            /\ Patched(buf[t].cfg, [j \in {k} |-> patch[t][j]]) \in Configs
            /\ Replace(Patched(buf[t].cfg, [j \in {k} |-> patch[t][j]]))
            /\ patch' = [patch EXCEPT ![t] = [j \in DOMAIN patch[t] \ {k} |-> patch[t][j]]]
    BY <1>1, WriteDocType
  <2> DEFINE doc == Patched(buf[t].cfg, [j \in {k} |-> patch[t][j]])
  <2>2. file'.doc = doc
    BY <2>1 DEF Replace
  <2>3. Read(file') = [cfg |-> doc, src |-> file']
    BY <2>1, <2>2 DEF Read, Parsed
  <2>4. buf' = [buf EXCEPT ![t] = [cfg |-> doc, src |-> file']]
    BY <1>1, <2>3 DEF WriteDoc
  <2> HIDE DEF doc
  <2> QED
    BY <2>1, <2>2, <2>4, TypeWritten DEF doc, TypeOK
<1>2. CASE Save(t)
  <2> DEFINE cfg == Patched(buf[t].cfg, patch[t])
  <2>1. cfg \in Configs /\ Saved(cfg) \in Configs
    BY SaveType
  <2>2. Replace(Saved(cfg)) /\ buf' = [buf EXCEPT ![t] = [cfg |-> cfg, src |-> file']]
    BY <1>2 DEF Save
  <2>3. NoPatch = [k \in DOMAIN patch[t] \ DOMAIN patch[t] |-> patch[t][k]]
    BY DEF NoPatch
  <2>4. patch' = [patch EXCEPT ![t] = [k \in DOMAIN patch[t] \ DOMAIN patch[t] |-> patch[t][k]]]
    BY <1>2, <2>3 DEF Save
  <2> HIDE DEF cfg
  <2> QED
    BY <2>1, <2>2, <2>4, TypeWritten DEF TypeOK
<1> QED
  BY <1>1, <1>2

LEMMA TypeWrite ==
  ASSUME TypeOK, NEW t \in Threads, WriteDoc(t) \/ Save(t)
  PROVE  TypeOK'
<1>1. /\ file' \in Files /\ file'.id = file.id + 1 /\ buf' \in [Threads -> Readings]
      /\ PatchOK'
  BY WriteType
<1>2. LocalsOK'
  BY <1>1 DEF WriteDoc, Save, AfterSave, TypeOK, LocalsOK, Pcs
<1>3. SharedOK'
  BY <1>1 DEF WriteDoc, Save, TypeOK, SharedOK, Files
<1> QED
  BY <1>1, <1>2, <1>3, TypeParts

LEMMA TypeReload ==
  ASSUME TypeOK, NEW t \in Threads, Lock(t) \/ Publish(t) \/ Seed(t) \/ Tick(t)
  PROVE  TypeOK'
<1> USE GotoType DEF TypeOK, Pcs
<1>1. CASE Lock(t)
  BY <1>1 DEF Lock
<1>2. CASE Publish(t)
  BY <1>2 DEF Publish
<1>3. CASE Seed(t)
  BY <1>3 DEF Seed
<1>4. CASE Tick(t)
  BY <1>4 DEF Tick, Files
<1> QED
  BY <1>1, <1>2, <1>3, <1>4

LEMMA TypeNext == ASSUME TypeOK, [Next]_vars PROVE TypeOK'
<1>1. CASE Edit
  BY <1>1, TypeEdit
<1>2. ASSUME NEW t \in Threads, Request(t) \/ Step(t) PROVE TypeOK'
  BY <1>2, TypeLoad, TypeFill, TypeRequest, TypeWrite, TypeReload DEF Step
<1>3. CASE UNCHANGED vars
  BY <1>3 DEF vars, TypeOK
<1> QED
  BY <1>1, <1>2, <1>3 DEF Next

(***************************************************************************)
(* Every reachable state is well typed, cache on or off, whatever fails.   *)
(***************************************************************************)
THEOREM TypeCorrect == Spec => []TypeOK
  BY TypeInit, TypeNext, PTL DEF Spec

-----------------------------------------------------------------------------
(* The order of publications.                                              *)

\* The file is always read: the server runs without its file cache, and a file
\* that is there can be opened.  With the cache both theorems below are false
\* (run store_stale_cache).
FileIsRead == UseCache = FALSE /\ "open" \notin Failures

\* A configuration that was read from a version of the file, this one or an older.
Of(r) == /\ r.cfg = Parsed(r.src.doc)
         /\ r.src.id <= file.id
         /\ r.src.id = file.id => r.src = file

NoFill == \A t \in Threads : pc[t] \notin {"copyOut", "loadStat", "loadFill", "saveStat", "saveFill"}

LockHeld ==
    \A t \in Threads : /\ pc[t] = "publish" => wlock = t
                       /\ wlock = t => pc[t] \in {"check", "read", "publish"} /\ op[t] # "seed"

\* Until the snapshot is seeded nobody works but the main loop, and it has not ticked.
Startup ==
    /\ \A t \in Threads :
          /\ op[t] = "seed" /\ pc[t] # "done" =>
                t = Main /\ Daemon /\ ~live /\ last = 0 /\ pc[t] \in {"check", "read", "seed"}
          /\ pc[t] = "seed" => op[t] = "seed"
    /\ ~live => published = Blank
    /\ Daemon /\ ~live => \A w \in Workers : pc[w] = "idle"

\* What is about to be published is not older than what is published.
Ordered ==
    /\ Of(published)
    /\ \A t \in Threads : pc[t] \in {"publish", "seed"} =>
          Of(buf[t]) /\ buf[t].src.id >= published.src.id

Inv == TypeOK /\ NoFill /\ LockHeld /\ Startup /\ Ordered /\ last <= file.id

\* The last tick has yet to publish what is in the file, or the file is published
\* and nobody is about to publish anything else.
TickPending ==
    last = file.id =>
       \/ pc[Main] = "lock"
       \/ wlock = Main /\ pc[Main] \in {"check", "read"}
       \/ pc[Main] = "publish" /\ buf[Main].src = file
       \/ published.src = file /\ \A t \in Threads : pc[t] = "publish" => buf[t].src = file

LEMMA InvInit == Init => Inv /\ TickPending
<1> SUFFICES ASSUME Init PROVE Inv /\ TickPending
  OBVIOUS
<1>1. NoFill /\ LockHeld /\ Startup
  BY StoreAssumption DEF Init, NoFill, LockHeld, Startup
<1>2. Ordered
  BY StoreAssumption DEF Init, Ordered, Of, Blank, NoFile, Parsed
<1> QED
  BY <1>1, <1>2, TypeInit DEF Inv, TickPending, Init

\* A new version of the file makes older ones of all that was read.
LEMMA NewVersion ==
  ASSUME file \in Files, file' \in Files, file'.id = file.id + 1,
         NEW r \in Readings, Of(r)
  PROVE  /\ r.cfg = Parsed(r.src.doc)
         /\ r.src.id <= file'.id
         /\ r.src.id = file'.id => r.src = file'
  BY DEF Of, Files, Readings

LEMMA EditStep ==
  ASSUME FileIsRead, Inv, Edit
  PROVE  Inv' /\ (TickPending => TickPending')
<1>1. PICK doc \in Edits : Replace(doc)
  BY DEF Edit
<1>2. file' \in Files /\ file'.id = file.id + 1 /\ file \in Files
  BY <1>1, ReplaceType, StoreAssumption DEF Inv, TypeOK
<1>3. TypeOK'
  BY TypeEdit DEF Inv
<1>4. NoFill' /\ LockHeld' /\ Startup'
  BY DEF Inv, Edit, NoFill, LockHeld, Startup
<1>5. Ordered'
  <2>1. Of(published)'
    BY <1>2, NewVersion DEF Inv, Edit, Ordered, Of, TypeOK
  <2>2. ASSUME NEW t \in Threads, pc[t] \in {"publish", "seed"} PROVE Of(buf[t])'
    BY <1>2, <2>2, NewVersion DEF Inv, Edit, Ordered, Of, TypeOK
  <2> QED
    BY <2>1, <2>2 DEF Inv, Edit, Ordered
<1>6. last' < file'.id
  BY <1>2 DEF Inv, TypeOK, Edit, Files
<1>7. last' <= file'.id /\ last' # file'.id
  BY <1>2, <1>3, <1>6 DEF TypeOK, Files
<1> QED
  BY <1>3, <1>4, <1>5, <1>7 DEF Inv, TickPending

\* So does a write request, which is not about to publish.
LEMMA WriteStep ==
  ASSUME FileIsRead, Inv, NEW t \in Threads, WriteDoc(t) \/ Save(t)
  PROVE  Inv' /\ (TickPending => TickPending')
<1>1. TypeOK'
  BY TypeWrite DEF Inv
<1>2. /\ file' \in Files /\ file'.id = file.id + 1 /\ file \in Files
      /\ \A u \in Threads : u # t => buf'[u] = buf[u]
  BY WriteType DEF Inv, TypeOK
<1>3. /\ pc' \in {[pc EXCEPT ![t] = "lock"], [pc EXCEPT ![t] = "done"]} /\ pc[t] = "write"
      /\ op' = op /\ live' = live /\ published' = published /\ wlock' = wlock /\ last' = last
  BY DEF WriteDoc, Save, AfterSave, FileIsRead
<1>4. NoFill' /\ LockHeld'
  BY <1>3 DEF Inv, TypeOK, NoFill, LockHeld
<1>5. Startup'
  BY <1>3, StoreAssumption DEF Inv, TypeOK, Startup
<1>6. Ordered'
  <2>1. Of(published)'
    BY <1>2, <1>3, NewVersion DEF Inv, Ordered, Of, TypeOK
  <2>2. ASSUME NEW u \in Threads, pc'[u] \in {"publish", "seed"}
        PROVE  Of(buf[u])' /\ buf'[u].src.id >= published'.src.id
    <3>1. u # t /\ pc[u] \in {"publish", "seed"} /\ buf'[u] = buf[u]
      BY <1>2, <1>3, <2>2 DEF Inv, TypeOK
    <3> QED
      BY <1>2, <1>3, <3>1, NewVersion DEF Inv, Ordered, Of, TypeOK
  <2> QED
    BY <2>1, <2>2 DEF Ordered
<1>7. last' < file'.id
  BY <1>2, <1>3 DEF Inv, TypeOK, Files
<1>8. last' <= file'.id /\ last' # file'.id
  BY <1>1, <1>2, <1>7 DEF Inv, TypeOK, Files
<1> QED
  BY <1>1, <1>4, <1>5, <1>6, <1>8 DEF Inv, TickPending

\* Reading the file reads its latest version.
LEMMA ReadStep ==
  ASSUME FileIsRead, Inv, NEW t \in Threads, ReadFile(t)
  PROVE  Inv' /\ (TickPending => TickPending')
<1>1. TypeOK'
  BY TypeLoad DEF Inv
<1>2. /\ pc[t] = "read" /\ pc' = [pc EXCEPT ![t] = Loaded(t)]
      /\ buf' = [buf EXCEPT ![t] = Read(file)]
      /\ file' = file /\ op' = op /\ live' = live /\ published' = published
      /\ wlock' = wlock /\ last' = last
  BY DEF ReadFile, FileIsRead
<1>3. /\ Loaded(t) \in {"publish", "seed", "write"}
      /\ Loaded(t) = "publish" <=> wlock = t
      /\ Loaded(t) = "seed" => op[t] = "seed"
      /\ op[t] = "seed" => Loaded(t) = "seed"
  BY DEF Loaded, Inv, LockHeld
<1>4. NoFill' /\ LockHeld'
  BY <1>2, <1>3 DEF Inv, TypeOK, NoFill, LockHeld
<1>5. Startup'
  BY <1>2, <1>3 DEF Inv, TypeOK, Startup
<1>6. Of(Read(file)) /\ Read(file).src = file /\ file.id >= published.src.id
  BY DEF Inv, TypeOK, Ordered, Of, Read, Readings, Files
<1>7. Ordered'
  <2>1. Of(published)'
    BY <1>2 DEF Inv, Ordered, Of
  <2>2. ASSUME NEW u \in Threads, pc'[u] \in {"publish", "seed"}
        PROVE  Of(buf[u])' /\ buf'[u].src.id >= published'.src.id
    <3>1. CASE u = t
      BY <1>2, <1>6, <3>1 DEF Inv, TypeOK, Of
    <3>2. CASE u # t
      BY <1>2, <2>2, <3>2 DEF Inv, TypeOK, Ordered, Of
    <3> QED
      BY <3>1, <3>2
  <2> QED
    BY <2>1, <2>2 DEF Ordered
<1>8. ASSUME TickPending PROVE TickPending'
  <2>1. CASE t = Main
    BY <1>8, <1>2, <1>3, <1>6, <2>1 DEF TickPending, Inv, TypeOK
  <2>2. CASE t # Main
    BY <1>8, <1>2, <1>3, <1>6, <2>2 DEF TickPending, Inv, TypeOK
  <2> QED
    BY <2>1, <2>2
<1> QED
  BY <1>1, <1>2, <1>4, <1>5, <1>7, <1>8 DEF Inv

\* The publication of what a reload has read under the lock.
LEMMA PublishStep ==
  ASSUME FileIsRead, Inv, NEW t \in Threads, Publish(t)
  PROVE  Inv' /\ (TickPending => TickPending') /\ published'.src.id >= published.src.id
<1>1. TypeOK'
  BY TypeReload DEF Inv
<1>2. /\ pc[t] = "publish" /\ wlock = t /\ pc' = [pc EXCEPT ![t] = AfterReload(t)]
      /\ published' = buf[t] /\ live' = TRUE /\ wlock' = Nobody
      /\ file' = file /\ op' = op /\ buf' = buf /\ last' = last
      /\ AfterReload(t) \in {"doc", "done"}
  BY DEF Publish, Inv, LockHeld, AfterReload
<1>3. \A u \in Threads : pc'[u] # "publish"
  BY <1>2 DEF Inv, TypeOK, LockHeld
<1>4. \A u \in Threads : ~(op[u] = "seed" /\ pc[u] # "done")
  BY <1>2 DEF Inv, Startup, LockHeld
<1>5. NoFill' /\ LockHeld'
  BY <1>2, <1>3, StoreAssumption DEF Inv, TypeOK, NoFill, LockHeld
<1>6. Startup'
  BY <1>2, <1>4 DEF Inv, TypeOK, Startup
<1>7. Of(buf[t]) /\ buf[t].src.id >= published.src.id
  BY <1>2 DEF Inv, Ordered
<1>8. Ordered'
  <2>1. \A u \in Threads : pc'[u] # "seed"
    BY <1>2, <1>4 DEF Inv, TypeOK, Startup
  <2> QED
    BY <1>2, <1>3, <1>7, <2>1 DEF Ordered, Of
<1>9. ASSUME TickPending PROVE TickPending'
  <2>1. CASE t = Main
    BY <1>9, <1>2, <1>3, <2>1, StoreAssumption DEF TickPending, Inv, TypeOK
  <2>2. CASE t # Main
    BY <1>9, <1>2, <1>3, <2>2 DEF TickPending, Inv, TypeOK, LockHeld
  <2> QED
    BY <2>1, <2>2
<1> QED
  BY <1>1, <1>2, <1>5, <1>6, <1>7, <1>8, <1>9 DEF Inv

\* The first publication, of the main loop, before anybody else works.
LEMMA SeedStep ==
  ASSUME FileIsRead, Inv, NEW t \in Threads, Seed(t)
  PROVE  Inv' /\ (TickPending => TickPending') /\ published'.src.id >= published.src.id
<1>1. TypeOK'
  BY TypeReload DEF Inv
<1>2. /\ pc[t] = "seed" /\ op[t] = "seed" /\ t = Main /\ last = 0
      /\ wlock = Nobody /\ pc' = [pc EXCEPT ![t] = "done"]
      /\ published' = buf[t] /\ live' = TRUE /\ wlock' = wlock
      /\ file' = file /\ op' = op /\ buf' = buf /\ last' = last
  BY DEF Seed, Inv, Startup
<1>3. \A u \in Threads : pc'[u] # "publish" /\ pc'[u] # "seed"
  BY <1>2, StoreAssumption DEF Inv, TypeOK, LockHeld, Startup
<1>4. NoFill' /\ LockHeld'
  BY <1>2, <1>3, StoreAssumption DEF Inv, TypeOK, NoFill, LockHeld
<1>5. Startup'
  BY <1>2, <1>3 DEF Inv, TypeOK, Startup
<1>6. Of(buf[t]) /\ buf[t].src.id >= published.src.id
  BY <1>2 DEF Inv, Ordered
<1>7. Ordered'
  BY <1>2, <1>3, <1>6 DEF Ordered, Of
<1>8. TickPending'
  BY <1>2 DEF TickPending, Inv, TypeOK, Files
<1> QED
  BY <1>1, <1>2, <1>4, <1>5, <1>6, <1>7, <1>8 DEF Inv

\* The main loop looks at the file and finds a version it does not know.
LEMMA TickStep ==
  ASSUME FileIsRead, Inv, NEW t \in Threads, Tick(t)
  PROVE  Inv' /\ (TickPending => TickPending')
<1>1. TypeOK'
  BY TypeReload DEF Inv
<1>2. /\ t = Main /\ pc[t] = "idle" /\ pc' = [pc EXCEPT ![t] = "lock"]
      /\ op' = [op EXCEPT ![t] = "tick"] /\ last' = file.id
      /\ published' = published /\ live' = live /\ wlock' = wlock
      /\ file' = file /\ buf' = buf
  BY DEF Tick
<1>3. \A u \in Threads : ~(op[u] = "seed" /\ pc[u] # "done")
  BY <1>2 DEF Inv, Startup
<1>4. NoFill' /\ LockHeld'
  BY <1>2 DEF Inv, TypeOK, NoFill, LockHeld
<1>5. Startup'
  BY <1>2, <1>3, StoreAssumption DEF Inv, TypeOK, Startup
<1>6. Ordered'
  BY <1>2 DEF Inv, TypeOK, Ordered, Of
<1>7. TickPending'
  BY <1>2 DEF Inv, TypeOK, TickPending
<1>8. last' <= file'.id
  BY <1>2 DEF Inv, TypeOK, Files
<1> QED
  BY <1>1, <1>4, <1>5, <1>6, <1>7, <1>8 DEF Inv

\* The steps that neither read, nor write, nor publish.
LEMMA OtherStep ==
  ASSUME FileIsRead, Inv, NEW t \in Threads,
         Request(t) \/ Hit(t) \/ (\E k \in Keys : CopyOut(t, k)) \/ Miss(t) \/ OpenFails(t)
           \/ LoadFails(t) \/ Stat(t) \/ (\E k \in Keys : CopyIn(t, k)) \/ FileUnder(t)
           \/ LoadDoc(t) \/ WriteFails(t) \/ Return(t) \/ Lock(t)
  PROVE  /\ Inv'
         /\ TickPending /\ "load" \notin Failures => TickPending'
<1>1. TypeOK'
  BY TypeRequest, TypeLoad, TypeFill, TypeReload DEF Inv
<1>2. /\ file' = file /\ published' = published /\ live' = live /\ last' = last
      /\ \A u \in Threads : u # t => pc'[u] = pc[u] /\ op'[u] = op[u] /\ buf'[u] = buf[u]
  <2> USE DEF Inv, TypeOK
  <2>1. CASE Request(t)
    BY <2>1 DEF Request
  <2>2. CASE Hit(t) \/ Miss(t) \/ OpenFails(t) \/ LoadFails(t) \/ \E k \in Keys : CopyOut(t, k)
    BY <2>2 DEF Hit, Miss, OpenFails, LoadFails, CopyOut
  <2>3. CASE Stat(t) \/ FileUnder(t) \/ \E k \in Keys : CopyIn(t, k)
    BY <2>3 DEF Stat, FileUnder, CopyIn
  <2>4. CASE LoadDoc(t) \/ WriteFails(t) \/ Return(t) \/ Lock(t)
    BY <2>4 DEF LoadDoc, WriteFails, Return, Lock
  <2> QED
    BY <2>1, <2>2, <2>3, <2>4
<1>3. /\ pc'[t] \in {"idle", "check", "read", "doc", "write", "done"}
      /\ wlock' # wlock => wlock' \in {Nobody, t} /\ wlock \in {Nobody, t}
      /\ wlock' = t => pc'[t] \in {"check", "read"} /\ op'[t] # "seed"
      /\ op'[t] = "seed" => op[t] = "seed" /\ (pc'[t] = "done" \/ (pc[t] = "check" /\ pc'[t] = "read"))
      /\ Daemon /\ ~live => pc[t] # "idle"
  <2> USE StoreAssumption DEF FileIsRead, Inv, NoFill, TypeOK, LockHeld, Startup
  <2>1. CASE Request(t)
    BY <2>1 DEF Request
  <2>2. CASE Miss(t) \/ LoadDoc(t) \/ WriteFails(t) \/ Return(t)
    BY <2>2 DEF Miss, LoadDoc, WriteFails, Return
  <2>3. CASE LoadFails(t)
    <3>1. pc[t] = "read" /\ op' = op /\ Nobody # t
      BY <2>3 DEF LoadFails
    <3>2. wlock = t => wlock' = Nobody /\ pc'[t] \in {"doc", "done"} /\ op[t] # "seed"
      BY <2>3 DEF LoadFails, AfterReload
    <3>3. wlock # t => wlock' = wlock /\ pc'[t] = "done"
      BY <2>3 DEF LoadFails
    <3> QED
      BY <3>1, <3>2, <3>3
  <2>4. CASE Lock(t)
    BY <2>4 DEF Lock
  <2>5. ~Hit(t) /\ ~(\E k \in Keys : CopyOut(t, k)) /\ ~OpenFails(t)
    BY DEF Hit, CacheHit, CopyOut, OpenFails
  <2>6. ~Stat(t) /\ ~(\E k \in Keys : CopyIn(t, k)) /\ ~FileUnder(t)
    BY DEF Stat, CopyIn, FileUnder
  <2> QED
    BY <2>1, <2>2, <2>3, <2>4, <2>5, <2>6
<1>4. NoFill' /\ LockHeld'
  BY <1>2, <1>3, StoreAssumption DEF Inv, TypeOK, NoFill, LockHeld
<1>5. Startup'
  BY <1>2, <1>3, StoreAssumption DEF Inv, TypeOK, Startup
<1>6. Ordered'
  <2>1. Of(published)'
    BY <1>2 DEF Inv, Ordered, Of
  <2>2. ASSUME NEW u \in Threads, pc'[u] \in {"publish", "seed"}
        PROVE  Of(buf[u])' /\ buf'[u].src.id >= published'.src.id
    BY <1>2, <1>3, <2>2 DEF Inv, Ordered, Of
  <2> QED
    BY <2>1, <2>2 DEF Ordered
<1>7. ASSUME TickPending, "load" \notin Failures PROVE TickPending'
  <2>1. CASE t # Main
    BY <1>2, <1>3, <1>7, <2>1, StoreAssumption DEF TickPending, Inv, LockHeld
  <2>2. CASE t = Main
    <3>1. ~Request(t) /\ ~LoadFails(t) /\ ~OpenFails(t) /\ ~Hit(t)
      BY <1>7, <2>2, StoreAssumption DEF Request, LoadFails, OpenFails, FileIsRead, Hit, CacheHit
    <3>2. pc[t] = "lock" => wlock' = t /\ pc'[t] = "check"
      BY <3>1, <2>2 DEF CopyOut, Miss, Stat, CopyIn, FileUnder, LoadDoc, WriteFails, Return, Lock,
                        Inv, TypeOK
    <3>3. pc[t] \in {"check", "read"} => pc[t] = "check" /\ wlock' = wlock /\ pc'[t] = "read"
      BY <3>1, <2>2 DEF CopyOut, Miss, Stat, CopyIn, FileUnder, LoadDoc, WriteFails, Return, Lock,
                        Inv, TypeOK
    <3>4. pc[t] # "publish"
      BY <3>1, <2>2 DEF CopyOut, Miss, Stat, CopyIn, FileUnder, LoadDoc, WriteFails, Return, Lock
    <3> QED
      BY <1>2, <1>3, <1>7, <2>2, <3>2, <3>3, <3>4 DEF TickPending
  <2> QED
    BY <2>1, <2>2
<1> QED
  BY <1>1, <1>2, <1>4, <1>5, <1>6, <1>7 DEF Inv

LEMMA InvNext ==
  ASSUME FileIsRead, Inv, [Next]_vars
  PROVE  /\ Inv' /\ published'.src.id >= published.src.id
         /\ TickPending /\ "load" \notin Failures => TickPending'
<1>1. published.src.id \in Nat
  BY StoreAssumption DEF Inv, TypeOK, Readings, Files
<1>2. CASE Edit
  BY <1>1, <1>2, EditStep DEF Edit
<1>3. ASSUME NEW t \in Threads, WriteDoc(t) \/ Save(t) \/ ReadFile(t) \/ Tick(t)
      PROVE  Inv' /\ (TickPending => TickPending') /\ published' = published
  BY <1>3, WriteStep, ReadStep, TickStep DEF WriteDoc, Save, ReadFile, Tick
<1>4. ASSUME NEW t \in Threads, Publish(t) \/ Seed(t)
      PROVE  Inv' /\ (TickPending => TickPending') /\ published'.src.id >= published.src.id
  BY <1>4, PublishStep, SeedStep
<1>5. ASSUME NEW t \in Threads,
             Request(t) \/ Hit(t) \/ (\E k \in Keys : CopyOut(t, k)) \/ Miss(t) \/ OpenFails(t)
               \/ LoadFails(t) \/ Stat(t) \/ (\E k \in Keys : CopyIn(t, k)) \/ FileUnder(t)
               \/ LoadDoc(t) \/ WriteFails(t) \/ Return(t) \/ Lock(t)
      PROVE  /\ Inv' /\ published' = published
             /\ TickPending /\ "load" \notin Failures => TickPending'
  BY <1>5, OtherStep DEF Request, Hit, CopyOut, Miss, OpenFails, LoadFails, Stat, CopyIn,
                         FileUnder, LoadDoc, WriteFails, Return, Lock
<1>6. CASE UNCHANGED vars
  <2>1. TypeOK'
    BY <1>6, TypeNext DEF Inv
  <2> QED
    BY <1>1, <1>6, <2>1 DEF vars, Inv, NoFill, LockHeld, Startup, Ordered, Of, TickPending
<1>7. CASE Next
  <2>1. PICK t \in Threads : Edit \/ Request(t) \/ Step(t)
    BY <1>7 DEF Next
  <2> QED
    BY <1>1, <1>2, <1>3, <1>4, <1>5, <2>1 DEF Step
<1> QED
  BY <1>6, <1>7

LEMMA Invariance == ASSUME FileIsRead PROVE Spec => []Inv
<1>1. ASSUME Inv, [Next]_vars PROVE Inv'
  BY <1>1, InvNext
<1> QED
  BY <1>1, InvInit, PTL DEF Spec

(***************************************************************************)
(* Publications do not go back in time: whoever reloads, and whatever is   *)
(* edited or saved meanwhile, no reload of a server that reads its file    *)
(* replaces what came from one version by what came from an older one.     *)
(***************************************************************************)
THEOREM PublicationsAdvance == ASSUME FileIsRead PROVE Spec => NoRollback
<1>1. ASSUME Inv, [Next]_vars PROVE [published'.src.id >= published.src.id]_vars
  BY <1>1, InvNext
<1> QED
  BY <1>1, Invariance, PTL DEF Spec, NoRollback

(***************************************************************************)
(* When the main loop has nothing to do, the snapshot is the file: no edit *)
(* is missed, however it falls between the load at startup, the stat() and *)
(* the load of a tick and the reloads of other threads, so long as loads   *)
(* do not fail.                                                            *)
(***************************************************************************)
THEOREM QuietMeansFresh ==
  ASSUME FileIsRead, "load" \notin Failures PROVE Spec => []QuietIsFresh
<1>1. ASSUME Inv /\ TickPending, [Next]_vars PROVE (Inv /\ TickPending)'
  BY <1>1, InvNext
<1>2. ASSUME Inv, TickPending PROVE QuietIsFresh
  <2>1. SUFFICES ASSUME pc[Main] = "idle", last = file.id
                 PROVE  published.cfg = Parsed(file.doc)
    BY DEF QuietIsFresh
  <2>2. wlock # Main
    BY <1>2, <2>1 DEF Inv, LockHeld
  <2>3. published.src = file
    BY <1>2, <2>1, <2>2 DEF TickPending
  <2> QED
    BY <1>2, <2>3 DEF Inv, Ordered, Of
<1> QED
  BY <1>1, <1>2, InvInit, PTL DEF Spec
-----------------------------------------------------------------------------
(* The keys a request is not about.                                        *)

\* A write leaves a key as the thread's buffer has it, or config_save drops it.
LEMMA WriteKeeps ==
  ASSUME TypeOK, NEW t \in Threads, WriteDoc(t) \/ Save(t), NEW k \in Keys \ DOMAIN patch[t]
  PROVE  \/ file'.doc[k] = buf[t].cfg[k]
         \/ op[t] \in Savers /\ k \in Lost(Patched(buf[t].cfg, patch[t]))
<1>1. CASE WriteDoc(t)
  <2>1. PICK j \in DOMAIN patch[t] :
           Replace(Patched(buf[t].cfg, [i \in {j} |-> patch[t][i]]))
    BY <1>1, WriteDocType
  <2>2. file'.doc = Patched(buf[t].cfg, [i \in {j} |-> patch[t][i]])
    BY <2>1 DEF Replace
  <2> QED
    BY <2>1, <2>2 DEF Patched
<1>2. CASE Save(t)
  <2>1. file'.doc = Saved(Patched(buf[t].cfg, patch[t])) /\ op[t] \in Savers
    BY <1>2 DEF Save, Replace
  <2>2. Patched(buf[t].cfg, patch[t])[k] = buf[t].cfg[k]
    BY DEF Patched
  <2> QED
    BY <2>1, <2>2 DEF Lost
<1> QED
  BY <1>1, <1>2

\* Only a write takes its thread past "write" and changes the file.
LEMMA WhoWrites ==
  ASSUME TypeOK, [Next]_vars, file' # file,
         NEW t \in Threads, pc[t] = "write", pc'[t] # "write"
  PROVE  WriteDoc(t) \/ Save(t)
<1>1. ~Edit
  BY DEF Edit, TypeOK
<1>2. PICK u \in Threads : Request(u) \/ Step(u)
  BY <1>1 DEF Next, vars
<1>3. WriteDoc(u) \/ Save(u)
  BY <1>2 DEF Step, Request, Hit, CopyOut, Miss, ReadFile, OpenFails, LoadFails, Stat, CopyIn,
              FileUnder, LoadDoc, WriteFails, Return, Lock, Publish, Seed, Tick
<1>4. u = t
  BY <1>3 DEF WriteDoc, Save, TypeOK
<1> QED
  BY <1>3, <1>4

\* Without the cache, what a thread is about to write or to publish is what it
\* read from the version it names.
Faithful(r) == r.cfg = Parsed(r.src.doc)
FromDisk ==
    /\ TypeOK /\ NoFill
    /\ Faithful(published)
    /\ \A t \in Threads : pc[t] \in {"write", "publish", "seed"} => Faithful(buf[t])

LEMMA FromDiskNext ==
  ASSUME UseCache = FALSE, FromDisk, [Next]_vars
  PROVE  FromDisk'
<1>1. TypeOK'
  BY TypeNext DEF FromDisk
<1>2. Faithful(Read(file)) /\ Faithful(Blank)
  BY StoreAssumption DEF Faithful, Read, Blank, NoFile, Parsed
<1>3. CASE Edit \/ UNCHANGED vars
  BY <1>1, <1>3 DEF Edit, vars, FromDisk, NoFill, Faithful
<1>4. ASSUME NEW u \in Threads, Request(u) \/ Step(u) PROVE FromDisk'
  <2>1. \A t \in Threads : t # u => pc'[t] = pc[t] /\ buf'[t] = buf[t]
    <3> USE DEF FromDisk, TypeOK
    <3>1. CASE Request(u)
      BY <3>1 DEF Request
    <3>2. CASE Hit(u) \/ Miss(u) \/ ReadFile(u) \/ OpenFails(u) \/ LoadFails(u)
                  \/ \E k \in Keys : CopyOut(u, k)
      BY <3>2 DEF Hit, Miss, ReadFile, OpenFails, LoadFails, CopyOut
    <3>3. CASE Stat(u) \/ FileUnder(u) \/ \E k \in Keys : CopyIn(u, k)
      BY <3>3 DEF Stat, FileUnder, CopyIn
    <3>4. CASE LoadDoc(u) \/ WriteDoc(u) \/ Save(u) \/ WriteFails(u) \/ Return(u)
      BY <3>4 DEF LoadDoc, WriteDoc, Save, WriteFails, Return
    <3>5. CASE Lock(u) \/ Publish(u) \/ Seed(u) \/ Tick(u)
      BY <3>5 DEF Lock, Publish, Seed, Tick
    <3> QED
      BY <1>4, <3>1, <3>2, <3>3, <3>4, <3>5 DEF Step
  <2>2. /\ pc'[u] \notin {"copyOut", "loadStat", "loadFill", "saveStat", "saveFill"}
        /\ pc'[u] \in {"write", "publish", "seed"} => Faithful(buf'[u])
        /\ Faithful(published')
    <3> USE <1>2 DEF FromDisk, TypeOK, NoFill
    <3>1. CASE Request(u)
      BY <3>1 DEF Request
    <3>2. CASE Miss(u)
      BY <3>2 DEF Miss
    <3>3. CASE ReadFile(u) \/ OpenFails(u)
      BY <3>3 DEF ReadFile, OpenFails, Loaded
    <3>4. CASE LoadFails(u)
      BY <3>4 DEF LoadFails, AfterReload
    <3>5. CASE LoadDoc(u)
      BY <3>5 DEF LoadDoc
    <3>6. CASE WriteDoc(u) \/ Save(u)
      <4>1. pc'[u] \in {"lock", "done"} /\ published' = published
        BY <3>6 DEF WriteDoc, Save, AfterSave
      <4> QED
        BY <4>1
    <3>7. CASE WriteFails(u) \/ Return(u) \/ Lock(u) \/ Tick(u)
      BY <3>7 DEF WriteFails, Return, Lock, Tick
    <3>8. CASE Publish(u) \/ Seed(u)
      BY <3>8 DEF Publish, Seed, AfterReload
    <3>9. ~Hit(u) /\ ~(\E k \in Keys : CopyOut(u, k)) /\ ~Stat(u)
          /\ ~(\E k \in Keys : CopyIn(u, k)) /\ ~FileUnder(u)
      BY DEF Hit, CacheHit, CopyOut, Stat, CopyIn, FileUnder
    <3> QED
      BY <1>4, <3>1, <3>2, <3>3, <3>4, <3>5, <3>6, <3>7, <3>8, <3>9 DEF Step
  <2>3. NoFill'
    BY <2>1, <2>2 DEF FromDisk, NoFill
  <2>4. (\A t \in Threads : pc[t] \in {"write", "publish", "seed"} => Faithful(buf[t]))'
    BY <2>1, <2>2 DEF FromDisk, Faithful
  <2> QED
    BY <1>1, <2>2, <2>3, <2>4 DEF FromDisk, Faithful
<1> QED
  BY <1>3, <1>4 DEF Next

(***************************************************************************)
(* Without the cache, any number of threads, setters and edits: whoever    *)
(* starts from the file as it is drops no key it is not about, except for  *)
(* what config_save does not write of the structure it is given.           *)
(***************************************************************************)
THEOREM KeysKeptWithoutCache == ASSUME UseCache = FALSE PROVE Spec => OtherKeysKept
<1>1. ASSUME Init PROVE FromDisk
  <2>1. Faithful(Blank)
    BY StoreAssumption DEF Faithful, Blank, NoFile, Parsed
  <2>2. TypeOK
    BY <1>1, TypeInit
  <2>3. published = Blank /\ \A t \in Threads : pc[t] \in {"idle", "check"}
    BY <1>1 DEF Init
  <2> QED
    BY <2>1, <2>2, <2>3 DEF FromDisk, NoFill
<1>2. ASSUME UseCache = FALSE, FromDisk, [Next]_vars PROVE FromDisk'
  BY <1>2, FromDiskNext
<1>3. ASSUME FromDisk, [Next]_vars,
             NEW t \in Threads, pc[t] = "write", pc'[t] # "write", file' # file, buf[t].src = file,
             NEW k \in Keys \ DOMAIN patch[t]
      PROVE  \/ file'.doc[k] = Parsed(file.doc)[k]
             \/ op[t] \in Savers
                   /\ k \in Lost(buf[t].cfg) \cup Lost(Patched(buf[t].cfg, patch[t]))
  <2>1. WriteDoc(t) \/ Save(t)
    BY <1>3, WhoWrites DEF FromDisk
  <2>2. buf[t].cfg = Parsed(file.doc)
    BY <1>3 DEF FromDisk, Faithful
  <2> QED
    BY <1>3, <2>1, <2>2, WriteKeeps DEF FromDisk
<1>4. ASSUME FromDisk, [Next]_vars
      PROVE  [\A t \in Threads :
                pc[t] = "write" /\ pc'[t] # "write" /\ file' # file /\ buf[t].src = file =>
                \A k \in Keys \ DOMAIN patch[t] :
                   \/ file'.doc[k] = Parsed(file.doc)[k]
                   \/ op[t] \in Savers
                         /\ k \in Lost(buf[t].cfg) \cup Lost(Patched(buf[t].cfg, patch[t]))]_vars
  BY <1>3, <1>4
<1> QED
  BY <1>1, <1>2, <1>4, PTL DEF Spec, OtherKeysKept
=============================================================================
