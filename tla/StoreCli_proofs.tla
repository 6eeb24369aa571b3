--------------------------- MODULE StoreCli_proofs ---------------------------
(***************************************************************************)
(* A process of one thread that nobody edits the file under: its cache is  *)
(* honest and its requests keep the keys they are not about, config_save's *)
(* omissions apart, whatever fails, for any settings, values, requests and *)
(* number of versions, and whatever config_save omits.                     *)
(***************************************************************************)
EXTENDS ConfigStore_proofs

USE DEF Goto, threadVars, Threads

Alone == /\ Daemon = FALSE /\ Edits = {}
         /\ Workers # {} /\ \A v, w \in Workers : v = w

Filling == {"loadFill", "saveFill"}

\* A configuration is what the file says, or what config_save made the file from.
Agrees(cfg) == file.doc = cfg \/ file.doc = Saved(cfg)

\* Where the thread is, the file, the cache and its buffer agree as far as this.
Agreement(w) ==
    /\ pc[w] \in Filling \cup {"loadStat", "saveStat"} => Agrees(buf[w].cfg)
    /\ pc[w] \in Filling => /\ sid[w] = file.id
                            /\ \A k \in Keys \ todo[w] : cache.cfg[k] = buf[w].cfg[k]
    /\ pc[w] \notin Filling /\ cache.id = file.id => Agrees(cache.cfg)
    /\ pc[w] = "copyOut" => /\ cache.id = file.id
                            /\ \A k \in Keys \ todo[w] : buf[w].cfg[k] = cache.cfg[k]
    /\ pc[w] \in {"write", "publish"} /\ buf[w].src = file => Agrees(buf[w].cfg)
    /\ published.src = file => Agrees(published.cfg)
    /\ buf[w].src.id <= file.id
    /\ op[w] # "seed" /\ pc[w] # "seed"

CliInv == /\ TypeOK
          /\ pc[Main] = "idle" /\ op[Main] = "none"
          /\ file.doc \in Configs
          /\ cache.id <= file.id /\ cache.src.id <= file.id /\ published.src.id <= file.id
          /\ \A w \in Workers : Agreement(w)

\* What was read or written before the file has its present version names another.
LEMMA CliIds ==
  ASSUME CliInv
  PROVE  /\ file \in Files /\ file.id \in Nat /\ cache.id \in Nat
         /\ cache.src.id \in Nat /\ published.src.id \in Nat
         /\ \A w \in Workers : buf[w].src.id \in Nat
         /\ NoFile # file /\ NoFile.id = 0
  BY StoreAssumption DEF CliInv, TypeOK, Files, Readings, NoFile

LEMMA CliInit == ASSUME Alone PROVE Init => CliInv
<1> SUFFICES ASSUME Init PROVE CliInv
  OBVIOUS
<1>1. TypeOK
  BY TypeInit
<1>2. /\ file.doc \in Configs /\ file.id = 1
      /\ cache.id = 0 /\ cache.src.id = 0 /\ published.src.id = 0
  BY StoreAssumption DEF Init, Defaults, Configs, Blank, NoFile
<1>3. \A w \in Threads : pc[w] = "idle" /\ op[w] = "none" /\ buf[w].src.id = 0
  BY DEF Init, Alone, Blank, NoFile
<1> QED
  BY <1>1, <1>2, <1>3 DEF CliInv, Agreement, Filling

\* Loading: from the cache, or from the file.
LEMMA CliLoad ==
  ASSUME Alone, CliInv, NEW w \in Workers,
         Hit(w) \/ (\E k \in Keys : CopyOut(w, k)) \/ Miss(w) \/ ReadFile(w)
            \/ OpenFails(w) \/ LoadFails(w)
  PROVE  CliInv'
<1>1. /\ TypeOK' /\ w \in Threads /\ w # Main
      /\ \A v \in Workers : v = w
  BY TypeLoad, StoreAssumption DEF CliInv, Alone
<1>2. /\ file' = file /\ cache' = cache /\ op' = op /\ published' = published
      /\ pc'[Main] = pc[Main]
  BY <1>1 DEF Hit, CopyOut, Miss, ReadFile, OpenFails, LoadFails, CliInv, TypeOK
<1>3. Loaded(w) \in {"publish", "write"} /\ AfterReload(w) \in {"doc", "done"}
  BY DEF Loaded, AfterReload, CliInv, Agreement
<1>4. Agreement(w)'
  <2> USE DEF CliInv, Agreement, Filling
  <2>1. CASE Hit(w)
    <3>1. /\ buf'[w].src = cache.src /\ todo'[w] = Keys /\ cache.id = file.id
          /\ pc'[w] = "copyOut" /\ pc[w] = "check"
      BY <1>1, <2>1 DEF Hit, CacheHit, TypeOK
    <3> QED
      BY <1>2, <3>1 DEF Agrees
  <2>2. ASSUME NEW k \in Keys, CopyOut(w, k) PROVE Agreement(w)'
    <3>1. /\ pc[w] = "copyOut" /\ todo'[w] = todo[w] \ {k}
          /\ pc'[w] = IF todo'[w] = {} THEN Loaded(w) ELSE "copyOut"
      BY <1>1, <2>2 DEF CopyOut, TypeOK
    <3>2. buf'[w].cfg = [buf[w].cfg EXCEPT ![k] = cache.cfg[k]] /\ buf'[w].src = buf[w].src
      BY <1>1, <2>2 DEF CopyOut, TypeOK, Readings
    <3>3. /\ buf[w].cfg \in Configs /\ cache.cfg \in Configs /\ buf'[w].cfg \in Configs
          /\ todo[w] \subseteq Keys
      BY <1>1 DEF TypeOK, Readings
    <3>4. \A j \in Keys \ todo'[w] : buf'[w].cfg[j] = cache.cfg[j]
      BY <3>1, <3>2, <3>3 DEF Configs
    <3>5. cache.id = file.id /\ Agrees(cache.cfg)
      BY <3>1
    <3>6. todo'[w] = {} => buf'[w].cfg = cache.cfg
      BY <3>3, <3>4 DEF Configs
    <3> QED
      BY <1>2, <1>3, <3>1, <3>2, <3>4, <3>5, <3>6 DEF Agrees
  <2>3. CASE Miss(w)
    BY <1>1, <1>2, <2>3 DEF Miss, TypeOK, Agrees
  <2>4. CASE ReadFile(w)
    <3>1. Agrees(Read(file).cfg) /\ Read(file).src.id <= file.id
      BY CliIds DEF Read, Parsed, Agrees
    <3>2. /\ buf'[w] = Read(file) /\ pc'[w] \in {"loadStat", "publish", "write"} /\ pc[w] = "read"
      BY <1>1, <1>3, <2>4 DEF ReadFile, TypeOK
    <3> QED
      BY <1>2, <3>1, <3>2 DEF Agrees
  <2>5. CASE OpenFails(w)
    <3>1. /\ buf'[w] = Blank /\ pc'[w] \in {"publish", "write"} /\ pc[w] \in {"read", "doc"}
      BY <1>1, <1>3, <2>5 DEF OpenFails, TypeOK
    <3>2. Blank.src # file /\ Blank.src.id <= file.id
      BY CliIds DEF Blank
    <3> QED
      BY <1>2, <3>1, <3>2 DEF Agrees
  <2>6. CASE LoadFails(w)
    <3>1. pc'[w] \in {"doc", "done"} /\ pc[w] = "read" /\ buf' = buf
      BY <1>1, <1>3, <2>6 DEF LoadFails, TypeOK
    <3> QED
      BY <1>2, <3>1 DEF Agrees
  <2> QED
    BY <2>1, <2>2, <2>3, <2>4, <2>5, <2>6
<1> QED
  BY <1>1, <1>2, <1>4 DEF CliInv

\* Filling the cache, under the identity the file has all along.
LEMMA CliFill ==
  ASSUME Alone, CliInv, NEW w \in Workers,
         Stat(w) \/ (\E k \in Keys : CopyIn(w, k)) \/ FileUnder(w)
  PROVE  CliInv'
<1>1. /\ TypeOK' /\ w \in Threads /\ w # Main
      /\ \A v \in Workers : v = w
  BY TypeFill, StoreAssumption DEF CliInv, Alone
<1>2. /\ file' = file /\ op' = op /\ buf' = buf /\ published' = published
      /\ pc'[Main] = pc[Main]
  BY <1>1 DEF Stat, CopyIn, FileUnder, CliInv, TypeOK
<1>3. file.doc # Absent
  BY StoreAssumption DEF CliInv
<1>4. AfterFill(w) \in {"publish", "write", "lock", "done"}
  BY DEF AfterFill, AfterSave, Loaded, CliInv, Agreement, Filling
<1>5. Agreement(w)' /\ cache'.id <= file.id /\ cache'.src.id <= file.id
  <2> USE DEF CliInv, Agreement, Filling
  <2>1. CASE Stat(w)
    <3>1. /\ cache' = cache /\ pc[w] \in {"loadStat", "saveStat"}
          /\ pc'[w] \in {"loadFill", "saveFill"} /\ sid'[w] = file.id /\ todo'[w] = Keys
      BY <1>1, <1>3, <2>1 DEF Stat, TypeOK
    <3> QED
      BY <1>2, <3>1 DEF Agrees
  <2>2. ASSUME NEW k \in Keys, CopyIn(w, k)
        PROVE  Agreement(w)' /\ cache'.id <= file.id /\ cache'.src.id <= file.id
    <3>1. /\ pc[w] \in Filling /\ pc' = pc /\ sid' = sid /\ todo'[w] = todo[w] \ {k}
      BY <1>1, <2>2 DEF CopyIn, TypeOK
    <3>2. /\ cache'.cfg = [cache.cfg EXCEPT ![k] = buf[w].cfg[k]] /\ cache'.id = cache.id
          /\ cache'.src = buf[w].src
      BY <2>2 DEF CopyIn, TypeOK
    <3>3. cache.cfg \in Configs /\ todo[w] \subseteq Keys
      BY <1>1 DEF TypeOK
    <3>4. \A j \in Keys \ todo'[w] : cache'.cfg[j] = buf[w].cfg[j]
      BY <3>1, <3>2, <3>3 DEF Configs
    <3> QED
      BY <1>2, <3>1, <3>2, <3>4 DEF Agrees
  <2>3. CASE FileUnder(w)
    <3>1. /\ pc[w] \in Filling /\ pc'[w] = AfterFill(w) /\ todo[w] = {}
          /\ cache'.id = file.id /\ cache'.cfg = cache.cfg /\ cache'.src = cache.src
      BY <1>1, <2>3 DEF FileUnder, TypeOK
    <3>2. cache.cfg = buf[w].cfg /\ Agrees(buf[w].cfg)
      <4>1. /\ cache.cfg \in Configs /\ buf[w].cfg \in Configs
            /\ \A k \in Keys : cache.cfg[k] = buf[w].cfg[k]
        BY <1>1, <3>1 DEF TypeOK, Readings
      <4> QED
        BY <3>1, <4>1 DEF Configs
    <3>3. file.id <= file.id
      BY CliIds
    <3> QED
      BY <1>2, <1>4, <3>1, <3>2, <3>3 DEF Agrees
  <2> QED
    BY <2>1, <2>2, <2>3
<1> QED
  BY <1>1, <1>2, <1>5 DEF CliInv

\* What a request writes, and what it goes on with.
LEMMA CliWrite ==
  ASSUME Alone, CliInv, NEW w \in Workers, WriteDoc(w) \/ Save(w)
  PROVE  CliInv'
<1>1. /\ TypeOK' /\ w \in Threads /\ w # Main
      /\ \A v \in Workers : v = w
  BY TypeWrite, StoreAssumption DEF CliInv, Alone
<1>2. /\ pc[w] = "write" /\ op' = op /\ cache' = cache /\ published' = published
      /\ pc'[Main] = pc[Main]
  BY <1>1 DEF WriteDoc, Save, CliInv, TypeOK
<1>3. pc'[w] \in {"lock", "saveStat", "done"}
  BY <1>1 DEF WriteDoc, Save, AfterSave, CliInv, TypeOK
<1>4. /\ file'.id = file.id + 1 /\ file'.doc \in Configs /\ buf'[w].src = file'
  BY <1>1, WriteType DEF CliInv
<1>5. /\ cache'.id <= file'.id /\ cache'.id # file'.id
      /\ cache'.src.id <= file'.id /\ published'.src.id <= file'.id
      /\ published'.src # file' /\ buf'[w].src.id <= file'.id
  BY <1>2, <1>4, CliIds DEF CliInv
<1>6. pc'[w] = "saveStat" => Agrees(buf[w].cfg)'
  <2>1. CASE WriteDoc(w)
    BY <1>1, <2>1 DEF WriteDoc, CliInv, TypeOK
  <2>2. CASE Save(w)
    <3>1. file'.doc = Saved(Patched(buf[w].cfg, patch[w]))
      BY <2>2 DEF Save, Replace
    <3>2. buf'[w].cfg = Patched(buf[w].cfg, patch[w])
      BY <1>1, <2>2 DEF Save, CliInv, TypeOK
    <3> QED
      BY <3>1, <3>2 DEF Agrees
  <2> QED
    BY <2>1, <2>2
<1>7. Agreement(w)'
  <2>1. op'[w] # "seed"
    BY <1>2 DEF CliInv, Agreement
  <2> QED
    BY <1>3, <1>5, <1>6, <2>1 DEF Agreement, Filling
<1>8. \A v \in Workers : Agreement(v)'
  BY <1>1, <1>7
<1> QED
  BY <1>1, <1>2, <1>4, <1>5, <1>8 DEF CliInv

\* The rest of a request, and of its reload.
LEMMA CliOther ==
  ASSUME Alone, CliInv, NEW w \in Workers,
         Request(w) \/ LoadDoc(w) \/ WriteFails(w) \/ Return(w)
            \/ Lock(w) \/ Publish(w) \/ Seed(w) \/ Tick(w)
  PROVE  CliInv'
<1>1. /\ TypeOK' /\ w \in Threads /\ w # Main
      /\ \A v \in Workers : v = w
  BY TypeRequest, TypeReload, StoreAssumption DEF CliInv, Alone
<1>2. file' = file /\ cache' = cache /\ pc'[Main] = pc[Main] /\ op'[Main] = op[Main]
  BY <1>1 DEF Request, LoadDoc, WriteFails, Return, Lock, Publish, Seed, Tick, CliInv, TypeOK
<1>3. Agreement(w)' /\ published'.src.id <= file.id
  <2> USE DEF CliInv, Agreement, Filling
  <2>1. CASE LoadDoc(w)
    <3>1. Agrees(Read(file).cfg) /\ Read(file).src.id <= file.id
      BY CliIds DEF Read, Parsed, Agrees
    <3>2. /\ pc[w] = "doc" /\ pc'[w] = "write" /\ buf'[w] = Read(file)
          /\ op' = op /\ published' = published
      BY <1>1, <2>1 DEF LoadDoc, TypeOK
    <3> QED
      BY <1>2, <3>1, <3>2 DEF Agrees
  <2>2. CASE Request(w)
    <3>1. /\ pc[w] = "idle" /\ op'[w] \in Ops /\ published' = published
          /\ \/ pc'[w] \in {"doc", "check"} /\ buf' = buf
             \/ pc'[w] = "write" /\ buf'[w] = published
      BY <1>1, <2>2 DEF Request, Alone, TypeOK
    <3>2. op'[w] # "seed"
      BY <3>1, StoreAssumption DEF Alone
    <3> QED
      BY <1>2, <3>1, <3>2 DEF Agrees
  <2>3. CASE Publish(w)
    <3>1. /\ pc[w] = "publish" /\ pc'[w] \in {"done", "doc"} /\ published' = buf[w]
          /\ buf' = buf /\ op' = op
      BY <1>1, <2>3 DEF Publish, AfterReload, TypeOK
    <3> QED
      BY <1>2, <3>1 DEF Agrees
  <2>4. CASE WriteFails(w) \/ Lock(w) \/ Tick(w)
    <3>1. /\ pc[w] \notin Filling /\ pc'[w] \in {"done", "check"}
          /\ op' = op /\ buf' = buf /\ published' = published
      BY <1>1, <2>4 DEF WriteFails, Lock, Tick, TypeOK
    <3> QED
      BY <1>2, <3>1 DEF Agrees
  <2>5. CASE Return(w)
    <3>1. /\ pc[w] = "done" /\ pc'[w] = "idle" /\ op'[w] = "none" /\ buf'[w] = Blank
          /\ published' = published
      BY <1>1, <2>5 DEF Return, TypeOK
    <3>2. Blank.src.id <= file.id
      BY CliIds DEF Blank
    <3> QED
      BY <1>2, <3>1, <3>2 DEF Agrees
  <2>6. ~Seed(w)
    BY DEF Seed
  <2> QED
    BY <2>1, <2>2, <2>3, <2>4, <2>5, <2>6
<1> QED
  BY <1>1, <1>2, <1>3 DEF CliInv

\* The main loop has nothing to do here.
LEMMA MainIsIdle ==
  ASSUME Alone, CliInv, NEW t \in Threads, Request(t) \/ Step(t)
  PROVE  t \in Workers
<1> SUFFICES ASSUME t = Main PROVE FALSE
  OBVIOUS
<1>1. pc[t] = "idle" /\ Main \notin Workers
  BY StoreAssumption DEF CliInv
<1> QED
  BY <1>1 DEF Step, Request, Hit, CopyOut, Miss, ReadFile, OpenFails, LoadFails, Stat, CopyIn,
              FileUnder, LoadDoc, WriteDoc, Save, WriteFails, Return, Lock, Publish, Seed, Tick,
              Alone

LEMMA CliNext == ASSUME Alone, CliInv, [Next]_vars PROVE CliInv'
<1>1. CASE UNCHANGED vars
  <2>1. TypeOK'
    BY <1>1, TypeNext DEF CliInv
  <2> QED
    BY <1>1, <2>1 DEF vars, CliInv, Agreement, Agrees
<1>2. CASE Next
  <2>1. ~Edit
    BY DEF Edit, Alone
  <2>2. PICK w \in Workers : Request(w) \/ Step(w)
    BY <1>2, <2>1, MainIsIdle DEF Next
  <2> QED
    BY <2>2, CliLoad, CliFill, CliWrite, CliOther DEF Step
<1> QED
  BY <1>1, <1>2

\* config_set writes what it found in the file itself: only a reload, or a
\* request that ends in config_save, goes by way of the cache.
FromFile(w) ==
    op[w] \notin Savers =>
       /\ pc[w] \in {"check", "copyOut", "read", "loadStat", "loadFill"} => wlock = w
       /\ pc[w] = "write" /\ buf[w].src = file => buf[w].cfg = file.doc

LEMMA FromFileNext ==
  ASSUME Alone, CliInv, NEW w \in Workers, FromFile(w), [Next]_vars
  PROVE  FromFile(w)'
<1>1. CASE UNCHANGED vars
  BY <1>1 DEF vars, FromFile
<1>2. CASE Next
  <2> USE DEF CliInv, TypeOK, FromFile
  <2>1. ~Edit /\ w \in Threads
    BY DEF Edit, Alone
  <2>2. Request(w) \/ Step(w)
    <3>1. PICK v \in Workers : Request(v) \/ Step(v)
      BY <1>2, <2>1, MainIsIdle DEF Next
    <3> QED
      BY <3>1 DEF Alone
  <2>3. Loaded(w) = IF wlock = w THEN "publish" ELSE "write"
    BY DEF Loaded, Agreement
  <2>4. CASE Request(w)
    <3>1. op'[w] \in Ops /\ (op'[w] \in {"set", "group"} => pc'[w] = "doc")
      BY <2>1, <2>4 DEF Request
    <3> QED
      BY <3>1, StoreAssumption DEF Savers
  <2>5. CASE Hit(w) \/ Miss(w) \/ \E k \in Keys : CopyOut(w, k)
    BY <2>1, <2>3, <2>5 DEF Hit, Miss, CopyOut
  <2>6. CASE ReadFile(w)
    BY <2>1, <2>3, <2>6 DEF ReadFile
  <2>7. CASE OpenFails(w)
    <3>1. /\ buf'[w] = Blank /\ Blank.src # file /\ file' = file
      BY <2>1, <2>7, CliIds DEF OpenFails, Blank
    <3>2. pc'[w] \in {"write", "publish"}
      BY <2>1, <2>3, <2>7 DEF OpenFails
    <3> QED
      BY <3>1, <3>2
  <2>8. CASE LoadFails(w) \/ Publish(w)
    BY <2>1, <2>8 DEF LoadFails, Publish, AfterReload
  <2>9. CASE Stat(w) \/ FileUnder(w) \/ \E k \in Keys : CopyIn(w, k)
    BY <2>1, <2>3, <2>9 DEF Stat, FileUnder, CopyIn, AfterFill, AfterSave
  <2>10. CASE LoadDoc(w)
    <3>1. buf'[w] = Read(file) /\ pc'[w] = "write" /\ Read(file).cfg = file.doc
      BY <2>1, <2>10 DEF LoadDoc, Read, Parsed
    <3> QED
      BY <2>10, <3>1 DEF LoadDoc
  <2>11. CASE WriteDoc(w) \/ Save(w)
    BY <2>1, <2>11 DEF WriteDoc, Save, AfterSave
  <2>12. CASE WriteFails(w) \/ Return(w) \/ Lock(w) \/ Tick(w)
    BY <2>1, <2>12 DEF WriteFails, Return, Lock, Tick
  <2>13. ~Seed(w)
    BY DEF Seed, Agreement
  <2> QED
    BY <2>2, <2>4, <2>5, <2>6, <2>7, <2>8, <2>9, <2>10, <2>11, <2>12, <2>13 DEF Step
<1> QED
  BY <1>1, <1>2

CliAll == CliInv /\ \A w \in Workers : FromFile(w)

LEMMA CliInvariance == ASSUME Alone PROVE Spec => []CliAll
<1>1. ASSUME Alone, CliAll, [Next]_vars PROVE CliAll'
  <2>1. CliInv'
    BY <1>1, CliNext DEF CliAll
  <2>2. \A w \in Workers : FromFile(w)'
    BY <1>1, FromFileNext DEF CliAll
  <2> QED
    BY <2>1, <2>2 DEF CliAll
<1>2. Init => CliAll
  <2>1. Init => \A w \in Workers : pc[w] = "idle"
    BY StoreAssumption DEF Init
  <2> QED
    BY <2>1, CliInit DEF CliAll, FromFile
<1> QED
  BY <1>1, <1>2, PTL DEF Spec

(***************************************************************************)
(* What the cache serves for the file as it is is what the file says, or   *)
(* the whole structure config_save made the file from; whatever load, open *)
(* or write has failed before.                                             *)
(***************************************************************************)
THEOREM CliCacheIsHonest == ASSUME Alone PROVE Spec => []CacheIsHonest
<1>1. ASSUME Alone, CliAll PROVE CacheIsHonest
  <2>1. SUFFICES ASSUME CacheHit, \A t \in Threads : pc[t] \notin {"loadFill", "saveFill"}
                 PROVE  Parsed(file.doc) \in {cache.cfg, Saved(cache.cfg)}
    BY DEF CacheIsHonest
  <2>2. Parsed(file.doc) = file.doc /\ cache.id = file.id
    BY <1>1, <2>1 DEF CliAll, CliInv, Parsed, CacheHit
  <2>3. PICK w \in Workers : Agreement(w)
    BY <1>1 DEF CliAll, CliInv, Alone
  <2> QED
    BY <2>1, <2>2, <2>3 DEF Agreement, Filling, Agrees
<1> QED
  BY <1>1, CliInvariance, PTL

(***************************************************************************)
(* A request that starts from the file as it is, read now, cached or still *)
(* in the snapshot, changes the keys it is about and no other, except for  *)
(* what config_save does not write of the structure that it, or the save   *)
(* that the cache still remembers, was given.                              *)
(***************************************************************************)
THEOREM CliKeysKept == ASSUME Alone PROVE Spec => OtherKeysKept
<1>1. ASSUME Alone, CliAll, [Next]_vars,
             NEW t \in Threads, pc[t] = "write", pc'[t] # "write", file' # file, buf[t].src = file,
             NEW k \in Keys \ DOMAIN patch[t]
      PROVE  \/ file'.doc[k] = Parsed(file.doc)[k]
             \/ op[t] \in Savers
                   /\ k \in Lost(buf[t].cfg) \cup Lost(Patched(buf[t].cfg, patch[t]))
  <2>1. WriteDoc(t) \/ Save(t)
    BY <1>1, WhoWrites DEF CliAll, CliInv
  <2>2. t \in Workers
    BY <1>1, StoreAssumption DEF CliAll, CliInv
  <2>3. Agrees(buf[t].cfg) /\ Parsed(file.doc) = file.doc
    BY <1>1, <2>2 DEF CliAll, CliInv, Agreement, Parsed
  <2>4. CASE file.doc = buf[t].cfg
    BY <1>1, <2>1, <2>3, <2>4, WriteKeeps DEF CliAll, CliInv
  <2>5. CASE file.doc = Saved(buf[t].cfg) /\ file.doc # buf[t].cfg
    <3>1. k \notin Lost(buf[t].cfg) => file.doc[k] = buf[t].cfg[k]
      BY <2>5 DEF Lost
    <3>2. op[t] \notin Savers => file.doc = buf[t].cfg
      BY <1>1, <2>2 DEF CliAll, FromFile
    <3> QED
      BY <1>1, <2>1, <2>3, <3>1, <3>2, WriteKeeps DEF CliAll, CliInv
  <2> QED
    BY <2>3, <2>4, <2>5 DEF Agrees
<1>2. ASSUME Alone, CliAll, [Next]_vars
      PROVE  [\A t \in Threads :
                pc[t] = "write" /\ pc'[t] # "write" /\ file' # file /\ buf[t].src = file =>
                \A k \in Keys \ DOMAIN patch[t] :
                   \/ file'.doc[k] = Parsed(file.doc)[k]
                   \/ op[t] \in Savers
                         /\ k \in Lost(buf[t].cfg) \cup Lost(Patched(buf[t].cfg, patch[t]))]_vars
  BY <1>1, <1>2
<1> QED
  BY <1>2, CliInvariance, PTL DEF Spec, OtherKeysKept
=============================================================================
