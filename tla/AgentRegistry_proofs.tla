------------------------ MODULE AgentRegistry_proofs ------------------------
(***************************************************************************)
(* AgentRegistry for any threads, agents and number of versions: the types *)
(* of its variables, what may be in the cache, the zero-agent guard, where *)
(* the roster is, and what a lookup finds of it.                           *)
(***************************************************************************)
EXTENDS AgentRegistry, TLAPS

Stages == {"idle", "pick", "check", "read", "publish", "found", "failed", "loaded",
           "count", "open", "rename", "drop"}

-----------------------------------------------------------------------------
(* Types.                                                                  *)

\* The version after the last one, while the bound allows it.
LEMMA VersionType ==
    ASSUME TypeOK
    PROVE  /\ Version \in 0 .. MaxFiles
           /\ \A n \in Files : file[n].id <= Version
<1>1. file["models"].id \in 0 .. MaxFiles /\ file["agents"].id \in 0 .. MaxFiles
  BY DEF TypeOK, Files
<1> QED BY <1>1, RegistryAssumption DEF Version, Files

\* Goto keeps its two variables in their types.
LEMMA GotoType ==
    ASSUME TypeOK, NEW t \in Threads, NEW stage \in Stages, Goto(t, stage)
    PROVE  /\ pc' \in [Threads -> Stages]
           /\ known' \in [Threads -> {"no", "half", "yes"}]
BY DEF Goto, TypeOK, Stages

\* So do a return and an end.
LEMMA ReturnType ==
    ASSUME TypeOK, NEW t \in Threads, NEW c \in Cfgs, Return(t, c)
    PROVE  /\ pc' \in [Threads -> Stages]
           /\ known' \in [Threads -> {"no", "half", "yes"}]
           /\ cfg' \in [Threads -> Cfgs]
<1>1. [agents |-> c.agents \cap {about[t]}, src |-> 0, normal |-> c.normal] \in Cfgs
  BY RegistryAssumption DEF Cfgs
<1>2. cfg \in [Threads -> Cfgs] BY DEF TypeOK
<1>3. cfg' \in [Threads -> Cfgs] BY <1>1, <1>2 DEF Return
<1>4. Goto(t, "loaded") \/ Goto(t, "found") BY DEF Return
<1>5. "loaded" \in Stages /\ "found" \in Stages BY DEF Stages
<1> QED BY <1>3, <1>4, <1>5, GotoType

LEMMA EndedType ==
    ASSUME TypeOK, NEW t \in Threads, Ended(t)
    PROVE  /\ pc' \in [Threads -> Stages]
           /\ known' \in [Threads -> {"no", "half", "yes"}]
           /\ cfg' \in [Threads -> Cfgs]
           /\ about' \in [Threads -> Agents \cup {NoAgent}]
           /\ counted' \in [Threads -> 0 .. MaxFiles]
           /\ moved' \subseteq Threads
           /\ there' \in [Threads -> SUBSET Agents]
<1>1. "idle" \in Stages BY DEF Stages
<1>2. Blank \in Cfgs BY RegistryAssumption DEF Blank, Cfg, Cfgs
<1>3. 0 \in 0 .. MaxFiles BY RegistryAssumption
<1>4. Goto(t, "idle") BY DEF Ended
<1> QED BY <1>1, <1>2, <1>3, <1>4, GotoType DEF Ended, TypeOK

\* A new version of a file keeps the file and the ghost of the lookups in type.
LEMMA ReplaceType ==
    ASSUME TypeOK, NEW n \in Files, NEW body \in Bodies, Replace(n, body)
    PROVE  /\ file' \in [Files -> [id : 0 .. MaxFiles, body : Bodies]]
           /\ there' \in [Threads -> SUBSET Agents]
           /\ file'[n].id = Version + 1
<1>1. Version \in 0 .. MaxFiles BY VersionType
<1>2. Version + 1 \in 0 .. MaxFiles BY <1>1, RegistryAssumption DEF Replace
<1>3. [id |-> Version + 1, body |-> body] \in [id : 0 .. MaxFiles, body : Bodies] BY <1>2
<1> QED BY <1>3 DEF Replace, TypeOK

LEMMA PointsType ==
    ASSUME TypeOK, NEW t \in Threads, NEW n \in Files, Points(t, n)
    PROVE  path' \in Files /\ moved' \subseteq Threads
BY DEF Points, TypeOK

LEMMA InitType == Init => TypeOK
<1> SUFFICES ASSUME Init PROVE TypeOK OBVIOUS
<1>1. 0 \in 0 .. MaxFiles /\ 1 \in 0 .. MaxFiles BY RegistryAssumption
<1>2. Blank \in Cfgs BY <1>1 DEF Blank, Cfg, Cfgs
<1>3. NoFile \in [id : 0 .. MaxFiles, body : Bodies] BY <1>1 DEF NoFile, Bodies
<1>4. file \in [Files -> [id : 0 .. MaxFiles, body : Bodies]]
  <2>1. PICK s \in Starts, S \in SUBSET Agents :
          file = [n \in Files |->
                    IF n = s THEN [id |-> 1, body |-> [says |-> "roster", agents |-> S]]
                    ELSE NoFile]
    BY DEF Init
  <2>2. [id |-> 1, body |-> [says |-> "roster", agents |-> S]]
          \in [id : 0 .. MaxFiles, body : Bodies]
    BY <1>1 DEF Bodies
  <2> QED BY <2>1, <2>2, <1>3
<1> QED BY <1>1, <1>2, <1>4 DEF Init, TypeOK, Files

LEMMA NextType == TypeOK /\ [Next]_vars => TypeOK'
<1> SUFFICES ASSUME TypeOK, [Next]_vars PROVE TypeOK' OBVIOUS
<1> USE DEF Stages
<1>1. ASSUME NEW t \in Threads, ResolveFirst(t) \/ ResolveLegacy(t) PROVE TypeOK'
  <2>1. known' \in [Threads -> {"no", "half", "yes"}]
    BY <1>1 DEF ResolveFirst, ResolveLegacy, TypeOK
  <2>2. PICK n \in Files : Points(t, n)
    BY <1>1 DEF ResolveFirst, ResolveLegacy, TypeOK, Files
  <2> QED BY <2>1, <2>2, PointsType DEF Points, TypeOK
<1>2. ASSUME NEW t \in Threads, Load(t) PROVE TypeOK'
  BY <1>2, GotoType DEF Load, TypeOK
<1>3. ASSUME NEW t \in Threads, NEW a \in Agents, Find(t, a) PROVE TypeOK'
  BY <1>3, GotoType DEF Find, TypeOK
<1>4. ASSUME NEW t \in Threads, Pick(t) \/ Check(t) PROVE TypeOK'
  <2>1. cache.cfg \in Cfgs BY DEF TypeOK
  <2>2. /\ pc' \in [Threads -> Stages]
        /\ known' \in [Threads -> {"no", "half", "yes"}]
        /\ cfg' \in [Threads -> Cfgs]
    <3>1. CASE Return(t, cache.cfg) BY <2>1, <3>1, ReturnType
    <3>2. CASE UNCHANGED cfg /\ (Goto(t, "check") \/ Goto(t, "read"))
      BY <3>2, GotoType DEF TypeOK
    <3> QED BY <1>4, <3>1, <3>2 DEF Pick, Check
  <2> QED BY <1>4, <2>2 DEF Pick, Check, TypeOK
<1>5. ASSUME NEW t \in Threads, ReadFile(t) PROVE TypeOK'
  <2>1. file[path] \in [id : 0 .. MaxFiles, body : Bodies] BY DEF TypeOK
  <2>2. /\ pc' \in [Threads -> Stages]
        /\ known' \in [Threads -> {"no", "half", "yes"}]
        /\ cfg' \in [Threads -> Cfgs]
    <3>1. CASE /\ cfg' = [cfg EXCEPT ![t] = Cfg(file[path].body.agents, file[path].id)]
               /\ Goto(t, "publish")
      <4>1. Cfg(file[path].body.agents, file[path].id) \in Cfgs
        BY <2>1 DEF Cfg, Cfgs, Bodies
      <4> QED BY <3>1, <4>1, GotoType DEF TypeOK
    <3>2. CASE \E S \in Partial(file[path]) :
                  Return(t, Cfg(IF about[t] = NoAgent THEN S ELSE {}, 0))
      <4>1. PICK S \in Partial(file[path]) :
              Return(t, Cfg(IF about[t] = NoAgent THEN S ELSE {}, 0))
        BY <3>2
      <4>2. S \subseteq Agents BY <2>1 DEF Partial, Bodies
      <4>3. Cfg(IF about[t] = NoAgent THEN S ELSE {}, 0) \in Cfgs
        BY <4>2, RegistryAssumption DEF Cfg, Cfgs
      <4> QED BY <4>1, <4>3, ReturnType
    <3> QED BY <1>5, <3>1, <3>2 DEF ReadFile
  <2> QED BY <1>5, <2>2 DEF ReadFile, TypeOK
<1>6. ASSUME NEW t \in Threads, Publish(t) PROVE TypeOK'
  <2>1. cfg[t] \in Cfgs /\ file[path].id \in 0 .. MaxFiles BY DEF TypeOK
  <2>2. cache' \in [id : 0 .. MaxFiles, cfg : Cfgs] BY <1>6, <2>1 DEF Publish, TypeOK
  <2>3. Return(t, cfg[t]) BY <1>6 DEF Publish
  <2> QED BY <1>6, <2>1, <2>2, <2>3, ReturnType DEF Publish, TypeOK
<1>7. ASSUME NEW t \in Threads, Done(t) PROVE TypeOK'
  <2>1. Ended(t) BY <1>7 DEF Done
  <2> QED BY <1>7, <2>1, EndedType DEF Done, TypeOK
<1>8. ASSUME NEW t \in Threads, Save(t) PROVE TypeOK'
  <2>1. cfg' \in [Threads -> Cfgs]
    <3>1. cfg \in [Threads -> Cfgs] BY DEF TypeOK
    <3>2. Blank \in Cfgs BY RegistryAssumption DEF Blank, Cfg, Cfgs
    <3>3. ASSUME NEW a \in Agents,
                 cfg' = [cfg EXCEPT ![t].agents = @ \cup {a}, ![t].normal = FALSE]
          PROVE  cfg' \in [Threads -> Cfgs]
      BY <3>1, <3>3 DEF Cfgs
    <3>4. ASSUME NEW a, cfg' = [cfg EXCEPT ![t].agents = @ \ {a}]
          PROVE  cfg' \in [Threads -> Cfgs]
      BY <3>1, <3>4 DEF Cfgs
    <3> QED BY <1>8, <3>1, <3>2, <3>3, <3>4 DEF Save
  <2>2. about' \in [Threads -> Agents \cup {NoAgent}]
    <3>1. about \in [Threads -> Agents \cup {NoAgent}] /\ cfg[t].agents \subseteq Agents
      BY DEF TypeOK, Cfgs
    <3>2. about' = about \/ \E a \in cfg[t].agents : about' = [about EXCEPT ![t] = a]
      BY <1>8 DEF Save
    <3> QED BY <3>1, <3>2
  <2>3. Goto(t, "count") \/ Goto(t, "open") BY <1>8 DEF Save
  <2> QED BY <1>8, <2>1, <2>2, <2>3, GotoType DEF Save, TypeOK
<1>9. ASSUME NEW t \in Threads, Count(t) PROVE TypeOK'
  <2>1. CASE Ended(t) BY <1>9, <2>1, EndedType DEF Count, TypeOK
  <2>2. CASE /\ Goto(t, "open")
             /\ counted' = [counted EXCEPT ![t] = file[path].id]
             /\ UNCHANGED <<cfg, about, moved, there>>
    <3>1. file[path].id \in 0 .. MaxFiles BY DEF TypeOK
    <3> QED BY <1>9, <2>2, <3>1, GotoType DEF Count, TypeOK
  <2> QED BY <1>9, <2>1, <2>2 DEF Count
<1>10. ASSUME NEW t \in Threads, Open(t) PROVE TypeOK'
  <2>1. CASE Ended(t) BY <1>10, <2>1, EndedType DEF Open, TypeOK
  <2>2. CASE Goto(t, "rename") /\ UNCHANGED <<cfg, about, counted, moved, there>>
    BY <1>10, <2>2, GotoType DEF Open, TypeOK
  <2> QED BY <1>10, <2>1, <2>2 DEF Open
<1>11. ASSUME NEW t \in Threads, Rename(t) PROVE TypeOK'
  <2>1. CASE Ended(t) /\ UNCHANGED file
    BY <1>11, <2>1, EndedType DEF Rename, TypeOK
  <2>2. CASE /\ Replace(path, [says |-> "roster", agents |-> cfg[t].agents])
             /\ Goto(t, "drop")
             /\ UNCHANGED <<cfg, about, counted, moved>>
    <3>1. [says |-> "roster", agents |-> cfg[t].agents] \in Bodies
      BY DEF TypeOK, Cfgs, Bodies
    <3>2. path \in Files BY DEF TypeOK
    <3> QED BY <1>11, <2>2, <3>1, <3>2, ReplaceType, GotoType DEF Rename, TypeOK
  <2> QED BY <1>11, <2>1, <2>2 DEF Rename
<1>12. ASSUME NEW t \in Threads, Drop(t) PROVE TypeOK'
  <2>1. Ended(t) BY <1>12 DEF Drop
  <2>2. cache' \in [id : 0 .. MaxFiles, cfg : Cfgs]
    BY <1>12, RegistryAssumption DEF Drop, TypeOK
  <2> QED BY <1>12, <2>1, <2>2, EndedType DEF Drop, TypeOK
<1>13. ASSUME NEW n \in Files, Edit(n) PROVE TypeOK'
  <2>1. PICK b \in Edits : Replace(n, b) BY <1>13 DEF Edit
  <2>2. b \in Bodies BY RegistryAssumption
  <2> QED BY <1>13, <2>1, <2>2, ReplaceType DEF Edit, TypeOK
<1>14. CASE UNCHANGED vars BY <1>14 DEF vars, TypeOK
<1>15. ASSUME NEW t \in Threads, LoadFails(t) PROVE TypeOK'
  <2>1. Blank \in Cfgs BY RegistryAssumption DEF Blank, Cfg, Cfgs
  <2>2. cfg' \in [Threads -> Cfgs] BY <1>15, <2>1 DEF LoadFails, TypeOK
  <2>3. Goto(t, "loaded") \/ Goto(t, "failed") BY <1>15 DEF LoadFails
  <2> QED BY <1>15, <2>2, <2>3, GotoType DEF LoadFails, TypeOK
<1>16. ASSUME NEW t \in Threads, CountFails(t) PROVE TypeOK'
  <2>1. 0 \in 0 .. MaxFiles BY RegistryAssumption
  <2> QED BY <1>16, <2>1, GotoType DEF CountFails, TypeOK
<1> QED
  BY <1>1, <1>2, <1>3, <1>4, <1>5, <1>6, <1>7, <1>8, <1>9, <1>10, <1>11, <1>12, <1>13,
     <1>14, <1>15, <1>16 DEF Next

\* The variables of the registry stay in their types whatever threads, agents and
\* edits there are.
THEOREM TypeCorrect == Spec => []TypeOK
<1>1. Init => TypeOK BY InitType
<1>2. TypeOK /\ [Next]_vars => TypeOK' BY NextType
<1> QED BY <1>1, <1>2, PTL DEF Spec

-----------------------------------------------------------------------------
(* The cache holds what a load has normalised.                             *)

\* A structure is a caller's own only between its change to it and the end of its
\* save; the cache and every stage of a load and a lookup have normalised ones.
Loading == {"idle", "pick", "check", "read", "publish", "found", "failed", "loaded"}
NormalInv ==
    /\ cache.cfg.normal
    /\ \A t \in Threads : pc[t] \in Loading => cfg[t].normal

\* A step of one thread to a stage at which its structure is normalised, or to one
\* at which it need not be.
LEMMA NormalMove ==
    ASSUME TypeOK, NormalInv, NEW t \in Threads, NEW stage \in Stages,
           pc' = [pc EXCEPT ![t] = stage],
           \A u \in Threads \ {t} : cfg'[u] = cfg[u],
           stage \in Loading => cfg'[t].normal,
           cache'.cfg.normal
    PROVE  NormalInv'
BY DEF NormalInv, TypeOK

LEMMA NormalReturn ==
    ASSUME TypeOK, NormalInv, NEW t \in Threads, NEW c, c.normal, Return(t, c),
           cache'.cfg.normal
    PROVE  NormalInv'
<1>1. cfg'[t].normal /\ \A u \in Threads \ {t} : cfg'[u] = cfg[u]
  BY DEF Return, TypeOK
<1>2. PICK stage \in Stages : pc' = [pc EXCEPT ![t] = stage] BY DEF Return, Goto, Stages
<1> QED BY <1>1, <1>2, NormalMove

LEMMA NormalEnd ==
    ASSUME TypeOK, NormalInv, NEW t \in Threads, Ended(t), cache'.cfg.normal
    PROVE  NormalInv'
<1>1. cfg'[t].normal /\ \A u \in Threads \ {t} : cfg'[u] = cfg[u]
  BY DEF Ended, Blank, Cfg, TypeOK
<1>2. "idle" \in Stages /\ pc' = [pc EXCEPT ![t] = "idle"] BY DEF Ended, Goto, Stages
<1> QED BY <1>1, <1>2, NormalMove

LEMMA NormalStep == TypeOK /\ NormalInv /\ [Next]_vars => NormalInv'
<1> SUFFICES ASSUME TypeOK, NormalInv, [Next]_vars PROVE NormalInv' OBVIOUS
<1> USE DEF Stages, Loading
<1>1. ASSUME NEW t \in Threads, ResolveFirst(t) \/ ResolveLegacy(t) PROVE NormalInv'
  BY <1>1 DEF ResolveFirst, ResolveLegacy, Points, NormalInv
<1>2. ASSUME NEW t \in Threads, Load(t) \/ \E a \in Agents : Find(t, a)
      PROVE  NormalInv'
  <2>1. PICK stage \in Stages : /\ pc' = [pc EXCEPT ![t] = stage]
                                /\ stage \in Loading => pc[t] \in Loading
    BY <1>2 DEF Load, Find, Goto
  <2>2. cache' = cache /\ cfg' = cfg
    BY <1>2 DEF Load, Find
  <2> QED BY <2>1, <2>2, NormalMove DEF NormalInv
<1>3. ASSUME NEW t \in Threads, Pick(t) \/ Check(t) PROVE NormalInv'
  <2>1. cache' = cache /\ cache.cfg.normal BY <1>3 DEF Pick, Check, NormalInv
  <2>2. CASE Return(t, cache.cfg) BY <2>1, <2>2, NormalReturn
  <2>3. CASE UNCHANGED cfg /\ (Goto(t, "check") \/ Goto(t, "read"))
    <3>1. pc[t] \in Loading BY <1>3 DEF Pick, Check, At
    <3>2. PICK stage \in Stages : pc' = [pc EXCEPT ![t] = stage] BY <2>3 DEF Goto
    <3> QED BY <2>1, <2>3, <3>1, <3>2, NormalMove DEF NormalInv
  <2> QED BY <1>3, <2>2, <2>3 DEF Pick, Check
<1>4. ASSUME NEW t \in Threads, ReadFile(t) PROVE NormalInv'
  <2>1. cache' = cache /\ cache.cfg.normal BY <1>4 DEF ReadFile, NormalInv
  <2>2. CASE /\ cfg' = [cfg EXCEPT ![t] = Cfg(file[path].body.agents, file[path].id)]
             /\ Goto(t, "publish")
    <3>1. cfg'[t].normal /\ \A u \in Threads \ {t} : cfg'[u] = cfg[u]
      BY <2>2 DEF Cfg, TypeOK
    <3>2. pc' = [pc EXCEPT ![t] = "publish"] BY <2>2 DEF Goto
    <3> QED BY <2>1, <3>1, <3>2, NormalMove
  <2>3. CASE \E S \in Partial(file[path]) :
                Return(t, Cfg(IF about[t] = NoAgent THEN S ELSE {}, 0))
    <3>1. PICK S \in Partial(file[path]) :
            Return(t, Cfg(IF about[t] = NoAgent THEN S ELSE {}, 0))
      BY <2>3
    <3>2. Cfg(IF about[t] = NoAgent THEN S ELSE {}, 0).normal BY DEF Cfg
    <3> QED BY <2>1, <3>1, <3>2, NormalReturn
  <2> QED BY <1>4, <2>2, <2>3 DEF ReadFile
<1>5. ASSUME NEW t \in Threads, Publish(t) PROVE NormalInv'
  <2>1. cfg[t].normal BY <1>5 DEF Publish, At, NormalInv
  <2>2. cache'.cfg.normal BY <1>5, <2>1 DEF Publish, NormalInv
  <2>3. Return(t, cfg[t]) BY <1>5 DEF Publish
  <2> QED BY <2>1, <2>2, <2>3, NormalReturn
<1>6. ASSUME NEW t \in Threads, Ended(t), cache'.cfg = cache.cfg PROVE NormalInv'
  BY <1>6, NormalEnd DEF NormalInv
<1>7. ASSUME NEW t \in Threads, Save(t) PROVE NormalInv'
  <2>1. PICK stage \in {"count", "open"} : pc' = [pc EXCEPT ![t] = stage]
    BY <1>7 DEF Save, Goto
  <2>2. \A u \in Threads \ {t} : cfg'[u] = cfg[u] BY <1>7 DEF Save, TypeOK
  <2>3. cache'.cfg.normal BY <1>7 DEF Save, NormalInv
  <2> QED BY <2>1, <2>2, <2>3, NormalMove
<1>8. ASSUME NEW t \in Threads, cfg' = cfg, cache' = cache,
             Goto(t, "open") \/ Goto(t, "rename") \/ Goto(t, "drop")
      PROVE  NormalInv'
  <2>1. PICK stage \in {"open", "rename", "drop"} : pc' = [pc EXCEPT ![t] = stage]
    BY <1>8 DEF Goto
  <2> QED BY <1>8, <2>1, NormalMove DEF NormalInv
<1>9. ASSUME NEW t \in Threads, Count(t) \/ CountFails(t) \/ Open(t) \/ Rename(t)
      PROVE  NormalInv'
  <2>1. cache' = cache BY <1>9 DEF Count, CountFails, Open, Rename
  <2>2. \/ Ended(t)
        \/ cfg' = cfg /\ (Goto(t, "open") \/ Goto(t, "rename") \/ Goto(t, "drop"))
    BY <1>9 DEF Count, CountFails, Open, Rename
  <2> QED BY <1>6, <1>8, <2>1, <2>2
<1>10. ASSUME NEW t \in Threads, Done(t) \/ Drop(t) PROVE NormalInv'
  <2>1. Ended(t) BY <1>10 DEF Done, Drop
  <2>2. cache'.cfg = cache.cfg BY <1>10 DEF Done, Drop, TypeOK
  <2> QED BY <1>6, <2>1, <2>2
<1>11. ASSUME NEW n \in Files, Edit(n) PROVE NormalInv'
  BY <1>11 DEF Edit, NormalInv
<1>12. CASE UNCHANGED vars BY <1>12 DEF vars, NormalInv
<1>13. ASSUME NEW t \in Threads, LoadFails(t) PROVE NormalInv'
  <2>1. cfg'[t].normal /\ \A u \in Threads \ {t} : cfg'[u] = cfg[u]
    BY <1>13 DEF LoadFails, Blank, Cfg, TypeOK
  <2>2. PICK stage \in {"loaded", "failed"} : pc' = [pc EXCEPT ![t] = stage]
    BY <1>13 DEF LoadFails, Goto
  <2>3. cache'.cfg.normal BY <1>13 DEF LoadFails, NormalInv
  <2> QED BY <2>1, <2>2, <2>3, NormalMove
<1> QED
  BY <1>1, <1>2, <1>3, <1>4, <1>5, <1>7, <1>9, <1>10, <1>11, <1>12, <1>13 DEF Next

\* Whatever loads, lookups, saves and edits cross, what the cache answers with and
\* what a lookup returns is normalised: a caller's own structure never gets there.
THEOREM CacheIsNormal == Spec => []NormalOnly
<1>1. Init => NormalInv BY DEF Init, NormalInv, Blank, Cfg
<1>2. NormalInv => NormalOnly BY DEF NormalInv, NormalOnly, Loading
<1> QED BY <1>1, <1>2, InitType, NextType, NormalStep, PTL DEF Spec

-----------------------------------------------------------------------------
(* The zero-agent guard.                                                   *)

\* A save of an empty roster that its caller has not declared, past the guard.
Passed(t) == pc[t] \in {"open", "rename"} /\ cfg[t].agents = {} /\ about[t] = NoAgent

\* A version is of one file and is never written twice, so a version that the guard
\* has counted stays as it counted it.
GuardInv ==
    /\ \A n \in Files : file[n].id = 0 => ~Populated(file[n])
    /\ file["models"].id = file["agents"].id => file["models"].id = 0
    /\ \A t \in Threads : counted[t] <= Version
    /\ \A t \in Threads, n \in Files :
          Passed(t) /\ file[n].id = counted[t] => ~Populated(file[n])

\* Nothing is written, and no save but those under way is past the guard.
LEMMA GuardSame ==
    ASSUME TypeOK, GuardInv, file' = file,
           \A u \in Threads : counted'[u] = counted[u] \/ counted'[u] = 0,
           \A u \in Threads : Passed(u)' => Passed(u) /\ counted'[u] = counted[u]
    PROVE  GuardInv'
<1>1. Version' = Version /\ Version \in Nat BY VersionType, RegistryAssumption DEF Version
<1>2. \A u \in Threads : counted'[u] <= Version' BY <1>1 DEF GuardInv
<1>3. \A u \in Threads, n \in Files :
         (Passed(u) /\ file[n].id = counted[u])' => ~Populated(file'[n])
  BY DEF GuardInv
<1>4. /\ \A n \in Files : file'[n].id = 0 => ~Populated(file'[n])
      /\ file'["models"].id = file'["agents"].id => file'["models"].id = 0
  BY DEF GuardInv
<1> QED BY <1>2, <1>3, <1>4 DEF GuardInv, Populated

\* A new version is none of those that were counted.
LEMMA GuardReplace ==
    ASSUME TypeOK, GuardInv, NEW m \in Files, NEW body \in Bodies, Replace(m, body),
           counted' = counted,
           \A u \in Threads : Passed(u)' => Passed(u)
    PROVE  GuardInv'
<1>1. /\ Version \in Nat
      /\ \A n \in Files : file[n].id \in Nat /\ file[n].id <= Version
  <2>1. \A n \in Files : file[n].id \in 0 .. MaxFiles BY DEF TypeOK
  <2> QED BY <2>1, VersionType, RegistryAssumption
<1>2. /\ file'[m].id = Version + 1
      /\ \A n \in Files \ {m} : file'[n] = file[n]
  BY DEF Replace, TypeOK
<1>3. \A u \in Threads : counted[u] \in Nat /\ counted[u] <= Version
  BY RegistryAssumption DEF TypeOK, GuardInv
<1>4. \A n \in Files : file'[n].id = 0 => ~Populated(file'[n])
  BY <1>1, <1>2 DEF GuardInv, Populated
<1>5. file'["models"].id = file'["agents"].id => file'["models"].id = 0
  BY <1>1, <1>2 DEF GuardInv, Files
<1>6. Version' = Version + 1
  BY <1>1, <1>2 DEF Version, Files
<1>7. \A u \in Threads : counted'[u] <= Version' BY <1>1, <1>3, <1>6
<1>8. \A u \in Threads, n \in Files :
         Passed(u)' /\ file'[n].id = counted'[u] => ~Populated(file'[n])
  BY <1>1, <1>2, <1>3 DEF GuardInv, Populated
<1> QED BY <1>4, <1>5, <1>7, <1>8 DEF GuardInv

LEMMA GuardEnd ==
    ASSUME TypeOK, GuardInv, NEW t \in Threads, Ended(t), file' = file
    PROVE  GuardInv'
<1>1. \A u \in Threads : counted'[u] = counted[u] \/ counted'[u] = 0
  BY DEF Ended, TypeOK
<1>2. \A u \in Threads : Passed(u)' => Passed(u) /\ counted'[u] = counted[u]
  BY DEF Ended, Goto, Passed, TypeOK
<1> QED BY <1>1, <1>2, GuardSame

\* A step that only sends a thread to a stage that is not past the guard.
LEMMA GuardMove ==
    ASSUME TypeOK, GuardInv, NEW t \in Threads, file' = file, counted' = counted,
           NEW stage \in Stages, Goto(t, stage),
           \A u \in Threads \ {t} : cfg'[u] = cfg[u] /\ about'[u] = about[u],
           Passed(t)' => Passed(t)
    PROVE  GuardInv'
<1>1. \A u \in Threads \ {t} : Passed(u)' => Passed(u) BY DEF Goto, Passed, TypeOK
<1> QED BY <1>1, GuardSame

LEMMA GuardStep == TypeOK /\ GuardInv /\ [Next]_vars => GuardInv'
<1> SUFFICES ASSUME TypeOK, GuardInv, [Next]_vars PROVE GuardInv' OBVIOUS
<1> USE DEF Stages, Loading
<1>1. ASSUME NEW t \in Threads, ResolveFirst(t) \/ ResolveLegacy(t) PROVE GuardInv'
  BY <1>1, GuardSame DEF ResolveFirst, ResolveLegacy, Points, Passed
<1>2. ASSUME NEW t \in Threads, NEW stage \in Loading \ {"idle"},
             file' = file, counted' = counted, Goto(t, stage),
             \A u \in Threads \ {t} : cfg'[u] = cfg[u] /\ about'[u] = about[u]
      PROVE  GuardInv'
  <2>1. ~Passed(t)' BY <1>2 DEF Goto, Passed, TypeOK
  <2> QED BY <1>2, <2>1, GuardMove
<1>3. ASSUME NEW t \in Threads,
             \/ Load(t) \/ \E a \in Agents : Find(t, a)
             \/ Pick(t) \/ Check(t) \/ ReadFile(t) \/ LoadFails(t) \/ Publish(t)
      PROVE  GuardInv'
  <2>1. file' = file /\ counted' = counted
    BY <1>3 DEF Load, Find, Pick, Check, ReadFile, LoadFails, Publish
  <2>2. \A u \in Threads \ {t} : cfg'[u] = cfg[u] /\ about'[u] = about[u]
    BY <1>3 DEF Load, Find, Pick, Check, ReadFile, LoadFails, Publish, Return, TypeOK
  <2>3. \E stage \in Loading \ {"idle"} : Goto(t, stage)
    BY <1>3 DEF Load, Find, Pick, Check, ReadFile, LoadFails, Publish, Return
  <2> QED BY <1>2, <2>1, <2>2, <2>3
<1>4. ASSUME NEW t \in Threads, Done(t) \/ Drop(t) PROVE GuardInv'
  BY <1>4, GuardEnd DEF Done, Drop
<1>5. ASSUME NEW t \in Threads, Save(t) PROVE GuardInv'
  <2>1. PICK stage \in {"count", "open"} :
           /\ Goto(t, stage)
           /\ stage = "open" => ~(cfg'[t].agents = {} /\ about'[t] = NoAgent)
    BY <1>5 DEF Save
  <2>2. ~Passed(t)' BY <2>1 DEF Goto, Passed, TypeOK
  <2>3. \A u \in Threads \ {t} : cfg'[u] = cfg[u] /\ about'[u] = about[u]
    BY <1>5 DEF Save, TypeOK
  <2> QED BY <1>5, <2>1, <2>2, <2>3, GuardMove DEF Save
<1>6. ASSUME NEW t \in Threads, Count(t) PROVE GuardInv'
  <2>1. CASE Ended(t) BY <1>6, <2>1, GuardEnd DEF Count
  <2>2. CASE /\ ~(Exists(path) /\ Populated(file[path]))
             /\ Goto(t, "open")
             /\ counted' = [counted EXCEPT ![t] = file[path].id]
             /\ UNCHANGED <<cfg, about>>
    <3>1. file' = file /\ Version' = Version BY <1>6 DEF Count, Version
    <3>2. path \in Files /\ \A n \in Files : file[n].id \in Nat
      <4>1. \A n \in Files : file[n].id \in 0 .. MaxFiles BY DEF TypeOK
      <4> QED BY <4>1, RegistryAssumption DEF TypeOK
    <3>3. \A u \in Threads : counted'[u] <= Version'
      BY <2>2, <3>1, <3>2, VersionType DEF GuardInv, TypeOK
    <3>4. \A n \in Files : file[n].id = file[path].id => ~Populated(file[n])
      BY <2>2, <3>2 DEF GuardInv, Exists, Files
    <3>5. \A u \in Threads \ {t} : counted'[u] = counted[u] /\ (Passed(u)' => Passed(u))
      BY <2>2 DEF Goto, Passed, TypeOK
    <3>6. counted'[t] = file[path].id BY <2>2 DEF TypeOK
    <3>7. \A u \in Threads, n \in Files :
             Passed(u)' /\ file'[n].id = counted'[u] => ~Populated(file'[n])
      BY <3>1, <3>4, <3>5, <3>6 DEF GuardInv
    <3> QED BY <3>1, <3>3, <3>7 DEF GuardInv, Populated
  <2> QED BY <1>6, <2>1, <2>2 DEF Count
<1>7. ASSUME NEW t \in Threads, Open(t) PROVE GuardInv'
  <2>1. CASE Ended(t) BY <1>7, <2>1, GuardEnd DEF Open
  <2>2. CASE Goto(t, "rename") /\ UNCHANGED <<cfg, about, counted, moved, there>>
    <3>1. Passed(t)' => Passed(t) BY <1>7, <2>2 DEF Open, At, Passed
    <3> QED BY <1>7, <2>2, <3>1, GuardMove DEF Open
  <2> QED BY <1>7, <2>1, <2>2 DEF Open
<1>8. ASSUME NEW t \in Threads, Rename(t) PROVE GuardInv'
  <2>1. CASE Ended(t) /\ UNCHANGED file BY <2>1, GuardEnd
  <2>2. CASE /\ Replace(path, [says |-> "roster", agents |-> cfg[t].agents])
             /\ Goto(t, "drop")
             /\ UNCHANGED <<cfg, about, counted, moved>>
    <3>1. path \in Files /\ [says |-> "roster", agents |-> cfg[t].agents] \in Bodies
      BY DEF TypeOK, Cfgs, Bodies
    <3>2. \A u \in Threads : Passed(u)' => Passed(u) BY <2>2 DEF Goto, Passed, TypeOK
    <3> QED BY <2>2, <3>1, <3>2, GuardReplace
  <2> QED BY <1>8, <2>1, <2>2 DEF Rename
<1>9. ASSUME NEW n \in Files, Edit(n) PROVE GuardInv'
  <2>1. PICK b \in Edits : Replace(n, b) BY <1>9 DEF Edit
  <2>2. b \in Bodies BY RegistryAssumption
  <2> QED BY <1>9, <2>1, <2>2, GuardReplace DEF Edit, Passed
<1>10. CASE UNCHANGED vars BY <1>10, GuardSame DEF vars, Passed
<1>11. ASSUME NEW t \in Threads, CountFails(t) PROVE GuardInv'
  <2>1. /\ file' = file /\ Version' = Version /\ counted'[t] = 0
        /\ \A u \in Threads \ {t} : counted'[u] = counted[u] /\ (Passed(u)' => Passed(u))
    BY <1>11 DEF CountFails, Goto, Passed, Version, TypeOK
  <2>2. 0 <= Version BY VersionType, RegistryAssumption
  <2>3. \A u \in Threads : counted'[u] <= Version' BY <2>1, <2>2 DEF GuardInv
  <2>4. \A u \in Threads, n \in Files :
           Passed(u)' /\ file'[n].id = counted'[u] => ~Populated(file'[n])
    BY <2>1 DEF GuardInv
  <2> QED BY <2>1, <2>3, <2>4 DEF GuardInv, Populated
<1> QED
  BY <1>1, <1>3, <1>4, <1>5, <1>6, <1>7, <1>8, <1>9, <1>10, <1>11 DEF Next

LEMMA GuardInit == Init => GuardInv
<1> SUFFICES ASSUME Init PROVE GuardInv OBVIOUS
<1>1. PICK s \in Starts, S \in SUBSET Agents :
        file = [n \in Files |->
                  IF n = s THEN [id |-> 1, body |-> [says |-> "roster", agents |-> S]]
                  ELSE NoFile]
  BY DEF Init
<1>2. \A n \in Files : file[n].id \in Nat /\ (file[n].id = 0 => ~Populated(file[n]))
  BY <1>1 DEF NoFile, Populated
<1>3. file["models"].id = file["agents"].id => file["models"].id = 0
  BY <1>1 DEF NoFile, Files
<1>4. \A t \in Threads : counted[t] <= Version
  BY <1>2 DEF Init, Version, Files
<1>5. \A t \in Threads : ~Passed(t) BY DEF Init, Passed
<1> QED BY <1>2, <1>3, <1>4, <1>5 DEF GuardInv

\* Whatever interleaves with it and whatever fails, an undeclared save of an empty
\* roster replaces a populated file only if that is not the file, or not the version,
\* the guard has counted, or if the guard could not read the file and counted none.
THEOREM GuardHolds == Spec => Guarded
<1>1. TypeOK /\ GuardInv /\ [Next]_vars =>
        [\A t \in Threads :
           pc[t] = "rename" /\ pc'[t] = "drop" /\ cfg[t].agents = {} /\ about[t] = NoAgent
              => \/ ~Populated(file[path])
                 \/ counted[t] # 0 /\ file[path].id # counted[t]
                 \/ counted[t] = 0]_vars
  BY DEF TypeOK, GuardInv, Passed
<1> QED BY <1>1, InitType, NextType, GuardInit, GuardStep, PTL DEF Spec, Guarded

-----------------------------------------------------------------------------
(* One roster.                                                             *)

\* A thread that has resolved the path and finds it to be models.json, which is not
\* there, has had it changed.
PathInv ==
    /\ Exists("models") \/ Exists("agents")
    /\ \A t \in Threads :
          known[t] = "yes" /\ path = "models" /\ ~Exists("models") => t \in moved

\* A step that resolves nothing and writes nothing.
LEMMA PathMove ==
    ASSUME TypeOK, PathInv, NEW t \in Threads, NEW stage \in Stages, Goto(t, stage),
           file' = file, path' = path,
           \A u \in Threads \ {t} : u \in moved => u \in moved',
           known'[t] = "yes" => known[t] = "yes" /\ moved' = moved
    PROVE  PathInv'
BY DEF PathInv, Exists, Goto, TypeOK

\* A new version leaves every file that was there.
LEMMA PathReplace ==
    ASSUME TypeOK, PathInv, NEW m \in Files, NEW body \in Bodies, Replace(m, body),
           path' = path, moved' = moved,
           \A u \in Threads : known'[u] = "yes" => known[u] = "yes"
    PROVE  PathInv'
<1>1. Version + 1 # 0 BY VersionType, RegistryAssumption
<1>2. \A n \in Files : Exists(n) => Exists(n)'
  BY <1>1 DEF Replace, Exists, TypeOK
<1> QED BY <1>2 DEF PathInv, Files

LEMMA PathEnd ==
    ASSUME TypeOK, PathInv, NEW t \in Threads, Ended(t), file' = file, path' = path
    PROVE  PathInv'
<1>1. known'[t] = "no" BY DEF Ended, Goto, TypeOK
<1> QED BY <1>1, PathMove DEF Ended, Stages

LEMMA PathStep == TypeOK /\ PathInv /\ [Next]_vars => PathInv'
<1> SUFFICES ASSUME TypeOK, PathInv, [Next]_vars PROVE PathInv' OBVIOUS
<1> USE DEF Stages
<1>1. ASSUME NEW t \in Threads, ResolveFirst(t) PROVE PathInv'
  <2>1. file' = file /\ known'[t] = "half" /\ path' = "models"
    BY <1>1 DEF ResolveFirst, Points, TypeOK
  <2>2. \A u \in Threads \ {t} : known'[u] = known[u] BY <1>1 DEF ResolveFirst, TypeOK
  <2>3. \A u \in Threads \ {t} : known[u] = "yes" /\ path # "models" => u \in moved'
    BY <1>1 DEF ResolveFirst, Points
  <2>4. moved \subseteq moved' BY <1>1 DEF ResolveFirst, Points
  <2> QED BY <2>1, <2>2, <2>3, <2>4 DEF PathInv, Exists
<1>2. ASSUME NEW t \in Threads, ResolveLegacy(t) PROVE PathInv'
  <2>1. file' = file /\ moved \subseteq moved' BY <1>2 DEF ResolveLegacy, Points
  <2>2. \A u \in Threads \ {t} : known'[u] = known[u] BY <1>2 DEF ResolveLegacy, TypeOK
  <2>3. path' = "models" => path = "models" /\ Exists("models")
    BY <1>2 DEF ResolveLegacy, Points, PathInv
  <2> QED BY <2>1, <2>2, <2>3 DEF PathInv, Exists
<1>3. ASSUME NEW t \in Threads, file' = file, path' = path, moved' = moved,
             NEW stage \in Stages, Goto(t, stage),
             stage \in {"read", "publish"} => known[t] = "yes"
      PROVE  PathInv'
  <2>1. known'[t] = "yes" => known[t] = "yes" BY <1>3 DEF Goto, TypeOK
  <2> QED BY <1>3, <2>1, PathMove
<1>4. ASSUME NEW t \in Threads,
             \/ Load(t) \/ \E a \in Agents : Find(t, a)
             \/ Pick(t) \/ Check(t) \/ ReadFile(t) \/ LoadFails(t) \/ Publish(t)
      PROVE  PathInv'
  <2>1. file' = file /\ path' = path /\ moved' = moved
    BY <1>4 DEF Load, Find, Pick, Check, ReadFile, LoadFails, Publish
  <2>2. \E stage \in Stages :
           Goto(t, stage) /\ (stage \in {"read", "publish"} => known[t] = "yes")
    BY <1>4 DEF Load, Find, Pick, Check, ReadFile, LoadFails, Publish, Return, At
  <2> QED BY <1>3, <2>1, <2>2
<1>5. ASSUME NEW t \in Threads, Done(t) \/ Drop(t) PROVE PathInv'
  BY <1>5, PathEnd DEF Done, Drop
<1>6. ASSUME NEW t \in Threads, Save(t) PROVE PathInv'
  <2>1. PICK stage \in {"count", "open"} : Goto(t, stage) BY <1>6 DEF Save
  <2>2. known'[t] = "no" BY <2>1 DEF Goto, TypeOK
  <2> QED BY <1>6, <2>1, <2>2, PathMove DEF Save
<1>7. ASSUME NEW t \in Threads, Count(t) \/ CountFails(t) \/ Open(t) PROVE PathInv'
  <2>1. file' = file /\ path' = path BY <1>7 DEF Count, CountFails, Open
  <2>2. Ended(t) \/ (moved' = moved /\ (Goto(t, "open") \/ Goto(t, "rename")))
    BY <1>7 DEF Count, CountFails, Open
  <2> QED BY <1>3, <2>1, <2>2, PathEnd
<1>8. ASSUME NEW t \in Threads, Rename(t) PROVE PathInv'
  <2>1. CASE Ended(t) /\ UNCHANGED file BY <1>8, <2>1, PathEnd DEF Rename
  <2>2. CASE /\ Replace(path, [says |-> "roster", agents |-> cfg[t].agents])
             /\ Goto(t, "drop")
             /\ UNCHANGED <<cfg, about, counted, moved>>
    <3>1. path \in Files /\ [says |-> "roster", agents |-> cfg[t].agents] \in Bodies
      BY DEF TypeOK, Cfgs, Bodies
    <3>2. \A u \in Threads : known'[u] = "yes" => known[u] = "yes"
      BY <2>2 DEF Goto, TypeOK
    <3> QED BY <1>8, <2>2, <3>1, <3>2, PathReplace DEF Rename
  <2> QED BY <1>8, <2>1, <2>2 DEF Rename
<1>9. ASSUME NEW n \in Files, Edit(n) PROVE PathInv'
  <2>1. PICK b \in Edits : Replace(n, b) BY <1>9 DEF Edit
  <2>2. b \in Bodies BY RegistryAssumption
  <2> QED BY <1>9, <2>1, <2>2, PathReplace DEF Edit
<1>10. CASE UNCHANGED vars BY <1>10 DEF vars, PathInv, Exists
<1> QED BY <1>1, <1>2, <1>4, <1>5, <1>6, <1>7, <1>8, <1>9, <1>10 DEF Next

LEMMA PathInit == Init => PathInv
<1> SUFFICES ASSUME Init PROVE PathInv OBVIOUS
<1>1. PICK s \in Starts, S \in SUBSET Agents :
        file = [n \in Files |->
                  IF n = s THEN [id |-> 1, body |-> [says |-> "roster", agents |-> S]]
                  ELSE NoFile]
  BY DEF Init
<1>2. s \in Files BY RegistryAssumption
<1>3. Exists("models") \/ Exists("agents") BY <1>1, <1>2 DEF Exists, Files
<1> QED BY <1>3 DEF PathInv, Init

\* With one thread, or with saves that resolve no path while another does, a save
\* writes the file the roster is in: models.json is made beside an agents.json only
\* under a thread whose path was changed.
THEOREM OneRoster == Spec => NotForked
<1>1. TypeOK /\ PathInv /\ [Next]_vars =>
        [\A t \in Threads :
           pc[t] = "rename" /\ pc'[t] = "drop" /\ Exists("agents") /\ path = "models"
              => Exists("models") \/ t \in moved]_vars
  <2> SUFFICES ASSUME TypeOK, PathInv, [Next]_vars, NEW t \in Threads,
                      pc[t] = "rename", pc'[t] = "drop", path = "models", ~Exists("models")
               PROVE  t \in moved \/ UNCHANGED vars
    OBVIOUS
  <2>1. CASE UNCHANGED vars BY <2>1
  <2>2. CASE Next
    <3>1. known[t] = "yes"
      <4>1. ASSUME NEW u \in Threads, Rename(u) PROVE known[t] = "yes"
        BY <4>1 DEF Rename, At, Goto, Ended, TypeOK
      <4>2. ASSUME NEW u \in Threads, Save(u) \/ Count(u) \/ CountFails(u) \/ Open(u) \/ Drop(u) \/ Done(u)
            PROVE  FALSE
        BY <4>2 DEF Save, Count, CountFails, Open, Drop, Done, Goto, Ended, TypeOK
      <4>3. ASSUME NEW u \in Threads,
                   \/ Load(u) \/ \E a \in Agents : Find(u, a)
                   \/ Pick(u) \/ Check(u) \/ ReadFile(u) \/ LoadFails(u) \/ Publish(u)
            PROVE  FALSE
        BY <4>3 DEF Load, Find, Pick, Check, ReadFile, LoadFails, Publish, Return, Goto, TypeOK
      <4>4. ASSUME NEW u \in Threads, ResolveFirst(u) \/ ResolveLegacy(u) PROVE FALSE
        BY <4>4 DEF ResolveFirst, ResolveLegacy, Points
      <4>5. ASSUME NEW n \in Files, Edit(n) PROVE FALSE BY <4>5 DEF Edit
      <4> QED BY <2>2, <4>1, <4>2, <4>3, <4>4, <4>5 DEF Next
    <3> QED BY <3>1 DEF PathInv
  <2> QED BY <2>1, <2>2
<1> QED BY <1>1, InitType, NextType, PathInit, PathStep, PTL DEF Spec, NotForked
-----------------------------------------------------------------------------
(* What a lookup finds.                                                    *)

\* Where a version is still there, a structure says what the version says.
AsRead(c) == \A n \in Files : file[n].id = c.src => c.agents = InRoster(file[n])

\* What the cache holds, and what a load is about to put there, is as it was read.
\* No version is yet to come that it could be taken for.
ReadInv ==
    /\ cache.cfg.src <= Version /\ AsRead(cache.cfg)
    /\ \A t \in Threads : pc[t] = "publish" => cfg[t].src <= Version /\ AsRead(cfg[t])

Looking == {"pick", "check", "read", "publish"}

\* A lookup whose agent no file since has left out: the agent is where the roster is,
\* in the file that the lookup has resolved, and in what it has read.  Between its two
\* looks at the file system a thread has the path at the first name.
Seeks(t) ==
    /\ pc[t] = "idle" => there[t] = {}
    /\ known[t] = "half" => path = "models" \/ t \in moved
    /\ pc[t] \in Looking /\ there[t] # {} =>
          /\ there[t] = {about[t]}
          /\ about[t] \in InRoster(file[Home])
          /\ known[t] = "yes" /\ t \notin moved => about[t] \in InRoster(file[path])
          /\ pc[t] = "publish" /\ t \notin moved => about[t] \in cfg[t].agents
SeekInv == \A t \in Threads : Seeks(t)

FindInv == TypeOK /\ GuardInv /\ ReadInv /\ SeekInv

\* A step that writes no file and sends a thread to a stage, with what it has read.
LEMMA ReadMove ==
    ASSUME TypeOK, ReadInv, file' = file, NEW t \in Threads, NEW stage \in Stages,
           Goto(t, stage), \A u \in Threads \ {t} : cfg'[u] = cfg[u],
           cache'.cfg.src <= Version /\ AsRead(cache'.cfg),
           stage = "publish" => cfg'[t].src <= Version /\ AsRead(cfg'[t])
    PROVE  ReadInv'
<1>1. Version' = Version BY DEF Version
<1>2. AsRead(cache.cfg)' BY DEF AsRead
<1>3. ASSUME NEW u \in Threads, pc'[u] = "publish"
      PROVE  cfg'[u].src <= Version /\ AsRead(cfg[u])'
  BY <1>3 DEF AsRead, ReadInv, Goto, TypeOK
<1> QED BY <1>1, <1>2, <1>3 DEF ReadInv

\* A new version has an identity of its own.
LEMMA ReadReplace ==
    ASSUME TypeOK, ReadInv, NEW m \in Files, NEW body \in Bodies, Replace(m, body),
           cache' = cache, cfg' = cfg, \A u \in Threads : pc'[u] = "publish" => pc[u] = "publish"
    PROVE  ReadInv'
<1>1. Version \in Nat /\ \A n \in Files : file[n].id \in Nat /\ file[n].id <= Version
  <2>1. \A n \in Files : file[n].id \in 0 .. MaxFiles BY DEF TypeOK
  <2> QED BY <2>1, VersionType, RegistryAssumption
<1>2. file'[m].id = Version + 1 /\ \A n \in Files \ {m} : file'[n] = file[n]
  BY DEF Replace, TypeOK
<1>3. Version' = Version + 1 BY <1>1, <1>2 DEF Version, Files
<1>4. ASSUME NEW c \in Cfgs, c.src <= Version, AsRead(c)
      PROVE  c.src <= Version' /\ \A n \in Files : file'[n].id = c.src => c.agents = InRoster(file'[n])
  <2>1. c.src \in Int BY DEF Cfgs
  <2> QED BY <1>1, <1>2, <1>3, <1>4, <2>1 DEF AsRead
<1>5. cache.cfg \in Cfgs /\ \A u \in Threads : cfg[u] \in Cfgs BY DEF TypeOK
<1> QED BY <1>4, <1>5 DEF ReadInv, AsRead

LEMMA ReadStep == TypeOK /\ GuardInv /\ ReadInv /\ [Next]_vars => ReadInv'
<1> SUFFICES ASSUME TypeOK, GuardInv, ReadInv, [Next]_vars PROVE ReadInv' OBVIOUS
<1> USE DEF Stages
<1>0. cache.cfg.src <= Version /\ AsRead(cache.cfg) BY DEF ReadInv
<1>1. ASSUME NEW t \in Threads, ResolveFirst(t) \/ ResolveLegacy(t) PROVE ReadInv'
  BY <1>1 DEF ResolveFirst, ResolveLegacy, Points, ReadInv, AsRead, Version
<1>2. ASSUME NEW t \in Threads, file' = file, cache'.cfg = cache.cfg,
             \A u \in Threads \ {t} : cfg'[u] = cfg[u],
             NEW stage \in Stages \ {"publish"}, Goto(t, stage)
      PROVE  ReadInv'
  BY <1>0, <1>2, ReadMove
<1>3. ASSUME NEW t \in Threads,
             Load(t) \/ (\E a \in Agents : Find(t, a)) \/ Pick(t) \/ Check(t) \/ LoadFails(t)
               \/ Save(t)
      PROVE  ReadInv'
  <2>1. /\ file' = file /\ cache' = cache
        /\ \A u \in Threads \ {t} : cfg'[u] = cfg[u]
    BY <1>3 DEF Load, Find, Pick, Check, LoadFails, Return, Save, TypeOK
  <2>2. \E stage \in Stages \ {"publish"} : Goto(t, stage)
    BY <1>3 DEF Load, Find, Pick, Check, LoadFails, Return, Save
  <2> QED BY <1>2, <2>1, <2>2
<1>4. ASSUME NEW t \in Threads, ReadFile(t) PROVE ReadInv'
  <2>1. file' = file /\ cache' = cache BY <1>4 DEF ReadFile
  <2>2. CASE /\ file[path].id # 0 /\ file[path].body.says = "roster"
             /\ cfg' = [cfg EXCEPT ![t] = Cfg(file[path].body.agents, file[path].id)]
             /\ Goto(t, "publish")
    <3>1. path \in Files BY DEF TypeOK
    <3>2. /\ cfg'[t].src = file[path].id
          /\ cfg'[t].agents = file[path].body.agents
          /\ \A u \in Threads \ {t} : cfg'[u] = cfg[u]
      BY <2>2 DEF Cfg, TypeOK
    <3>3. cfg'[t].src <= Version BY <3>1, <3>2, VersionType
    <3>4. \A n \in Files : file[n].id = file[path].id => n = path
      BY <2>2, <3>1 DEF GuardInv, Files
    <3>5. AsRead(cfg'[t]) BY <2>2, <3>2, <3>4 DEF AsRead, InRoster
    <3>6. cache'.cfg.src <= Version /\ AsRead(cache'.cfg) BY <1>0, <2>1
    <3> QED BY <2>1, <2>2, <3>2, <3>3, <3>5, <3>6, ReadMove
  <2>3. CASE \E S \in Partial(file[path]) :
                Return(t, Cfg(IF about[t] = NoAgent THEN S ELSE {}, 0))
    <3>1. \A u \in Threads \ {t} : cfg'[u] = cfg[u] BY <2>3 DEF Return, TypeOK
    <3>2. \E stage \in Stages \ {"publish"} : Goto(t, stage) BY <2>3 DEF Return
    <3> QED BY <1>2, <2>1, <3>1, <3>2
  <2> QED BY <1>4, <2>2, <2>3 DEF ReadFile
<1>5. ASSUME NEW t \in Threads, Publish(t) PROVE ReadInv'
  <2>1. /\ file' = file
        /\ cache'.cfg = cache.cfg \/ cache'.cfg = cfg[t]
        /\ Return(t, cfg[t])
    BY <1>5 DEF Publish
  <2>2. cfg[t].src <= Version /\ AsRead(cfg[t]) BY <1>5 DEF Publish, At, ReadInv
  <2>3. cache'.cfg.src <= Version /\ AsRead(cache'.cfg) BY <1>0, <2>1, <2>2
  <2>4. \A u \in Threads \ {t} : cfg'[u] = cfg[u] BY <2>1 DEF Return, TypeOK
  <2>5. PICK stage \in Stages \ {"publish"} : Goto(t, stage) BY <2>1 DEF Return
  <2> QED BY <2>1, <2>3, <2>4, <2>5, ReadMove
<1>6. ASSUME NEW t \in Threads, Ended(t), file' = file, cache'.cfg = cache.cfg PROVE ReadInv'
  <2>1. \A u \in Threads \ {t} : cfg'[u] = cfg[u] BY <1>6 DEF Ended, TypeOK
  <2> QED BY <1>2, <1>6, <2>1 DEF Ended
<1>7. ASSUME NEW t \in Threads, Done(t) \/ Drop(t) PROVE ReadInv'
  <2>1. Ended(t) /\ file' = file BY <1>7 DEF Done, Drop
  <2>2. cache'.cfg = cache.cfg BY <1>7 DEF Done, Drop, TypeOK
  <2> QED BY <1>6, <2>1, <2>2
<1>8. ASSUME NEW t \in Threads, Count(t) \/ CountFails(t) \/ Open(t) PROVE ReadInv'
  <2>1. file' = file /\ cache' = cache BY <1>8 DEF Count, CountFails, Open
  <2>2. Ended(t) \/ (cfg' = cfg /\ (Goto(t, "open") \/ Goto(t, "rename")))
    BY <1>8 DEF Count, CountFails, Open
  <2> QED BY <1>2, <1>6, <2>1, <2>2
<1>9. ASSUME NEW t \in Threads, Rename(t) PROVE ReadInv'
  <2>1. CASE Ended(t) /\ UNCHANGED file BY <1>6, <1>9, <2>1 DEF Rename
  <2>2. CASE /\ Replace(path, [says |-> "roster", agents |-> cfg[t].agents])
             /\ Goto(t, "drop")
             /\ UNCHANGED <<cfg, about, counted, moved>>
    <3>1. path \in Files /\ [says |-> "roster", agents |-> cfg[t].agents] \in Bodies
      BY DEF TypeOK, Cfgs, Bodies
    <3>2. \A u \in Threads : pc'[u] = "publish" => pc[u] = "publish"
      BY <2>2 DEF Goto, TypeOK
    <3> QED BY <1>9, <2>2, <3>1, <3>2, ReadReplace DEF Rename
  <2> QED BY <1>9, <2>1, <2>2 DEF Rename
<1>10. ASSUME NEW n \in Files, Edit(n) PROVE ReadInv'
  <2>1. PICK b \in Edits : Replace(n, b) BY <1>10 DEF Edit
  <2>2. b \in Bodies BY RegistryAssumption
  <2> QED BY <1>10, <2>1, <2>2, ReadReplace DEF Edit
<1>11. CASE UNCHANGED vars BY <1>11 DEF vars, ReadInv, AsRead, Version
<1> QED
  BY <1>1, <1>3, <1>4, <1>5, <1>7, <1>8, <1>9, <1>10, <1>11 DEF Next

\* A step that writes no file and resolves nothing.
LEMMA SeekMove ==
    ASSUME TypeOK, SeekInv, NEW t \in Threads, NEW stage \in Stages, Goto(t, stage),
           file' = file, path' = path,
           \A u \in Threads \ {t} : /\ u \in moved <=> u \in moved'
                                    /\ there'[u] = there[u] /\ about'[u] = about[u]
                                    /\ cfg'[u] = cfg[u],
           Seeks(t)'
    PROVE  SeekInv'
<1>1. Home' = Home BY DEF Home, Exists
<1>2. ASSUME NEW u \in Threads \ {t} PROVE Seeks(u)'
  <2>1. pc'[u] = pc[u] /\ known'[u] = known[u] BY DEF Goto, TypeOK
  <2>2. Seeks(u) BY DEF SeekInv
  <2> QED BY <1>1, <2>1, <2>2 DEF Seeks
<1> QED BY <1>2 DEF SeekInv

\* Of a thread that leaves the lookup nothing more is asked.
LEMMA SeekLeave ==
    ASSUME TypeOK, SeekInv, NEW t \in Threads, NEW stage \in Stages \ (Looking \cup {"idle"}),
           Goto(t, stage), file' = file, path' = path, there' = there,
           \A u \in Threads \ {t} : /\ u \in moved <=> u \in moved'
                                    /\ about'[u] = about[u] /\ cfg'[u] = cfg[u]
    PROVE  SeekInv'
<1>1. pc'[t] = stage /\ known'[t] = "no" BY DEF Goto, TypeOK, Looking
<1>2. Seeks(t)' BY <1>1 DEF Seeks
<1> QED BY <1>2, SeekMove

LEMMA SeekEnd ==
    ASSUME TypeOK, SeekInv, NEW t \in Threads, Ended(t), file' = file, path' = path
    PROVE  SeekInv'
<1>1. Goto(t, "idle") /\ "idle" \in Stages BY DEF Ended, Stages
<1>2. pc'[t] = "idle" /\ known'[t] = "no" /\ there'[t] = {} BY DEF Ended, Goto, TypeOK
<1>3. Seeks(t)' BY <1>2 DEF Seeks, Looking
<1>4. \A u \in Threads \ {t} : /\ u \in moved <=> u \in moved'
                               /\ there'[u] = there[u] /\ about'[u] = about[u]
                               /\ cfg'[u] = cfg[u]
  BY DEF Ended, TypeOK
<1> QED BY <1>1, <1>3, <1>4, SeekMove

\* The roster is in the file that has just been written, or where it was; a lookup
\* that every file still answers finds its agent in either.
LEMMA SeekReplace ==
    ASSUME TypeOK, SeekInv, NEW m \in Files, NEW body \in Bodies, Replace(m, body),
           path' = path, moved' = moved, about' = about, cfg' = cfg,
           \A u \in Threads : \/ pc'[u] = pc[u] /\ known'[u] = known[u]
                              \/ pc'[u] = "drop" /\ known'[u] = "no"
    PROVE  SeekInv'
<1>1. file'[m].id # 0 /\ \A n \in Files \ {m} : file'[n] = file[n]
  <2>1. Version + 1 # 0 BY VersionType, RegistryAssumption
  <2> QED BY <2>1 DEF Replace, TypeOK
<1>2. Home' \in Files /\ (Home' = m \/ Home' = Home)
  BY <1>1 DEF Home, Exists, Files
<1>3. ASSUME NEW u \in Threads PROVE Seeks(u)'
  <2>1. Seeks(u) /\ there'[u] = there[u] \cap InRoster(file'[m]) BY DEF SeekInv, Replace
  <2>2. CASE pc'[u] = "drop" /\ known'[u] = "no" BY <2>2 DEF Seeks, Looking
  <2>3. CASE pc'[u] = pc[u] /\ known'[u] = known[u]
    <3>1. pc'[u] = "idle" => there'[u] = {} BY <2>1, <2>3 DEF Seeks
    <3>2. known'[u] = "half" => path' = "models" \/ u \in moved' BY <2>1, <2>3 DEF Seeks
    <3>3. ASSUME pc'[u] \in Looking, there'[u] # {}
          PROVE  /\ there[u] = {about[u]} /\ there'[u] = {about[u]}
                 /\ about[u] \in InRoster(file'[m])
      BY <2>1, <2>3, <3>3 DEF Seeks
    <3>4. ASSUME pc'[u] \in Looking, there'[u] # {}
          PROVE  about[u] \in InRoster(file'[Home'])
      BY <1>1, <1>2, <2>1, <2>3, <3>3, <3>4 DEF Seeks
    <3>5. ASSUME pc'[u] \in Looking, there'[u] # {}, known'[u] = "yes", u \notin moved'
          PROVE  about[u] \in InRoster(file'[path])
      <4>1. path \in Files BY DEF TypeOK
      <4> QED BY <1>1, <2>1, <2>3, <3>3, <3>5, <4>1 DEF Seeks
    <3>6. pc'[u] = "publish" /\ there'[u] # {} /\ u \notin moved' => about[u] \in cfg[u].agents
      BY <2>1, <2>3, <3>3 DEF Seeks, Looking
    <3>7. InRoster(file[Home])' = InRoster(file'[Home']) /\ InRoster(file[path])' = InRoster(file'[path])
      BY DEF InRoster
    <3> QED BY <3>1, <3>2, <3>3, <3>4, <3>5, <3>6, <3>7 DEF Seeks
  <2> QED BY <2>2, <2>3
<1> QED BY <1>3 DEF SeekInv

LEMMA SeekStep == TypeOK /\ GuardInv /\ PathInv /\ SeekInv /\ [Next]_vars => SeekInv'
<1> SUFFICES ASSUME TypeOK, GuardInv, PathInv, SeekInv, [Next]_vars PROVE SeekInv' OBVIOUS
<1> USE DEF Stages
<1>0. \A u \in Threads : Seeks(u) BY DEF SeekInv
<1>1. ASSUME NEW t \in Threads, ResolveFirst(t) PROVE SeekInv'
  <2>1. UNCHANGED <<file, pc, cfg, about, there>> /\ path' = "models" /\ known'[t] = "half"
    BY <1>1 DEF ResolveFirst, Points, TypeOK
  <2>2. \A u \in Threads \ {t} :
           /\ known'[u] = known[u]
           /\ u \notin moved' => u \notin moved /\ (known[u] = "no" \/ path' = path)
    BY <1>1 DEF ResolveFirst, Points, TypeOK
  <2>3. Home' = Home BY <2>1 DEF Home, Exists
  <2>4. t \notin moved' => t \notin moved BY <1>1 DEF ResolveFirst, Points
  <2>5. Seeks(t)' BY <1>0, <2>1, <2>3, <2>4 DEF Seeks
  <2>6. ASSUME NEW u \in Threads \ {t} PROVE Seeks(u)'
    BY <1>0, <2>1, <2>2, <2>3 DEF Seeks
  <2> QED BY <2>5, <2>6 DEF SeekInv
<1>2. ASSUME NEW t \in Threads, ResolveLegacy(t) PROVE SeekInv'
  <2>1. /\ UNCHANGED <<file, pc, cfg, about, there>>
        /\ known[t] = "half" /\ known'[t] = "yes"
        /\ path' = IF ~Exists(path) /\ Exists("agents") THEN "agents" ELSE path
    BY <1>2 DEF ResolveLegacy, Points, TypeOK
  <2>2. \A u \in Threads \ {t} :
           /\ known'[u] = known[u]
           /\ u \notin moved' => u \notin moved /\ (known[u] = "no" \/ path' = path)
    BY <1>2 DEF ResolveLegacy, Points, TypeOK
  <2>3. Home' = Home BY <2>1 DEF Home, Exists
  <2>4. t \notin moved' => t \notin moved BY <1>2 DEF ResolveLegacy, Points
  <2>5. t \notin moved => path' = Home BY <1>0, <2>1 DEF Seeks, Home
  <2>6. Seeks(t)' BY <1>0, <2>1, <2>3, <2>4, <2>5 DEF Seeks
  <2>7. ASSUME NEW u \in Threads \ {t} PROVE Seeks(u)'
    BY <1>0, <2>1, <2>2, <2>3 DEF Seeks
  <2> QED BY <2>6, <2>7 DEF SeekInv
<1>3. ASSUME NEW t \in Threads, Load(t) PROVE SeekInv'
  <2>1. /\ UNCHANGED <<file, path, cfg, about, moved, there>>
        /\ Goto(t, "check") /\ there[t] = {}
    BY <1>0, <1>3 DEF Load, Seeks
  <2>2. pc'[t] = "check" /\ known'[t] = "no" BY <2>1 DEF Goto, TypeOK
  <2>3. Seeks(t)' BY <2>1, <2>2 DEF Seeks
  <2> QED BY <2>1, <2>3, SeekMove
<1>4. ASSUME NEW t \in Threads, NEW a \in Agents, Find(t, a) PROVE SeekInv'
  <2>1. /\ UNCHANGED <<file, path, cfg, moved>>
        /\ Goto(t, "pick")
        /\ about'[t] = a /\ there'[t] = {a} \cap InRoster(file[Home])
        /\ \A u \in Threads \ {t} : about'[u] = about[u] /\ there'[u] = there[u]
    BY <1>4 DEF Find, TypeOK
  <2>2. pc'[t] = "pick" /\ known'[t] = "no" BY <2>1 DEF Goto, TypeOK
  <2>3. Home' = Home BY <2>1 DEF Home, Exists
  <2>4. Seeks(t)' BY <2>1, <2>2, <2>3 DEF Seeks
  <2> QED BY <2>1, <2>4, SeekMove
<1>5. ASSUME NEW t \in Threads, NEW c, Return(t, c),
             UNCHANGED <<file, path, about, moved, there>>
      PROVE  SeekInv'
  <2>1. PICK stage \in {"loaded", "found"} : Goto(t, stage) BY <1>5 DEF Return
  <2>2. \A u \in Threads \ {t} : cfg'[u] = cfg[u] BY <1>5 DEF Return, TypeOK
  <2>3. stage \in Stages \ (Looking \cup {"idle"}) BY DEF Looking
  <2> QED BY <1>5, <2>1, <2>2, <2>3, SeekLeave
<1>6. ASSUME NEW t \in Threads, Pick(t) \/ Check(t) PROVE SeekInv'
  <2>1. UNCHANGED <<file, path, about, moved, there>> /\ At(t, pc[t]) /\ pc[t] \in Looking
    BY <1>6 DEF Pick, Check, At, Looking
  <2>2. CASE Return(t, cache.cfg) BY <1>5, <2>1, <2>2
  <2>3. CASE UNCHANGED cfg /\ (Goto(t, "check") \/ Goto(t, "read"))
    <3>1. PICK stage \in {"check", "read"} : Goto(t, stage) BY <2>3
    <3>2. pc'[t] = stage /\ known[t] = "yes" /\ known'[t] # "half"
      BY <2>1, <3>1 DEF Goto, At, TypeOK
    <3>3. Home' = Home BY <2>1 DEF Home, Exists
    <3>4. Seeks(t)' BY <1>0, <2>1, <2>3, <3>2, <3>3 DEF Seeks
    <3> QED BY <2>1, <2>3, <3>1, <3>4, SeekMove
  <2> QED BY <1>6, <2>2, <2>3 DEF Pick, Check
<1>7. ASSUME NEW t \in Threads, ReadFile(t) PROVE SeekInv'
  <2>1. UNCHANGED <<file, path, about, moved, there>> /\ pc[t] = "read" /\ known[t] = "yes"
    BY <1>7 DEF ReadFile, At
  <2>2. CASE /\ file[path].body.says = "roster"
             /\ cfg' = [cfg EXCEPT ![t] = Cfg(file[path].body.agents, file[path].id)]
             /\ Goto(t, "publish")
    <3>1. pc'[t] = "publish" /\ known'[t] = "yes" BY <2>2 DEF Goto, TypeOK
    <3>2. cfg'[t].agents = InRoster(file[path]) BY <2>2 DEF Cfg, InRoster, TypeOK
    <3>3. Home' = Home BY <2>1 DEF Home, Exists
    <3>4. Seeks(t)' BY <1>0, <2>1, <3>1, <3>2, <3>3 DEF Seeks, Looking
    <3>5. \A u \in Threads \ {t} : cfg'[u] = cfg[u] BY <2>2 DEF TypeOK
    <3> QED BY <2>1, <2>2, <3>4, <3>5, SeekMove
  <2>3. CASE \E S \in Partial(file[path]) :
                Return(t, Cfg(IF about[t] = NoAgent THEN S ELSE {}, 0))
    BY <1>5, <2>1, <2>3
  <2> QED BY <1>7, <2>2, <2>3 DEF ReadFile
<1>8. ASSUME NEW t \in Threads, Publish(t) PROVE SeekInv'
  BY <1>5, <1>8 DEF Publish
<1>9. ASSUME NEW t \in Threads, Done(t) \/ Drop(t) PROVE SeekInv'
  BY <1>9, SeekEnd DEF Done, Drop
<1>10. ASSUME NEW t \in Threads, Save(t) PROVE SeekInv'
  <2>1. PICK stage \in {"count", "open"} : Goto(t, stage) BY <1>10 DEF Save
  <2>2. UNCHANGED <<file, path, there>> BY <1>10 DEF Save
  <2>3. \A u \in Threads \ {t} : /\ u \in moved <=> u \in moved'
                                 /\ about'[u] = about[u] /\ cfg'[u] = cfg[u]
    BY <1>10 DEF Save, TypeOK
  <2>4. stage \in Stages \ (Looking \cup {"idle"}) BY DEF Looking
  <2> QED BY <2>1, <2>2, <2>3, <2>4, SeekLeave
<1>11. ASSUME NEW t \in Threads, Count(t) \/ CountFails(t) \/ Open(t) PROVE SeekInv'
  <2>1. UNCHANGED <<file, path>> BY <1>11 DEF Count, CountFails, Open
  <2>2. CASE Ended(t) BY <2>1, <2>2, SeekEnd
  <2>3. CASE UNCHANGED <<cfg, about, moved, there>> /\ (Goto(t, "open") \/ Goto(t, "rename"))
    <3>1. {"open", "rename"} \subseteq Stages \ (Looking \cup {"idle"}) BY DEF Looking
    <3> QED BY <2>1, <2>3, <3>1, SeekLeave
  <2> QED BY <1>11, <2>2, <2>3 DEF Count, CountFails, Open
<1>12. ASSUME NEW t \in Threads, Rename(t) PROVE SeekInv'
  <2>1. CASE Ended(t) /\ UNCHANGED file BY <1>12, <2>1, SeekEnd DEF Rename
  <2>2. CASE /\ Replace(path, [says |-> "roster", agents |-> cfg[t].agents])
             /\ Goto(t, "drop")
             /\ UNCHANGED <<cfg, about, counted, moved>>
    <3>1. path \in Files /\ [says |-> "roster", agents |-> cfg[t].agents] \in Bodies
      BY DEF TypeOK, Cfgs, Bodies
    <3>2. \A u \in Threads : \/ pc'[u] = pc[u] /\ known'[u] = known[u]
                             \/ pc'[u] = "drop" /\ known'[u] = "no"
      BY <2>2 DEF Goto, TypeOK
    <3> QED BY <1>12, <2>2, <3>1, <3>2, SeekReplace DEF Rename
  <2> QED BY <1>12, <2>1, <2>2 DEF Rename
<1>13. ASSUME NEW n \in Files, Edit(n) PROVE SeekInv'
  <2>1. PICK b \in Edits : Replace(n, b) BY <1>13 DEF Edit
  <2>2. b \in Bodies BY RegistryAssumption
  <2> QED BY <1>13, <2>1, <2>2, SeekReplace DEF Edit
<1>14. CASE UNCHANGED vars BY <1>0, <1>14 DEF vars, SeekInv, Seeks, Home, Exists
<1>15. ASSUME NEW t \in Threads, LoadFails(t) PROVE SeekInv'
  <2>1. PICK stage \in {"loaded", "failed"} : Goto(t, stage) BY <1>15 DEF LoadFails
  <2>2. UNCHANGED <<file, path, about, moved, there>> BY <1>15 DEF LoadFails
  <2>3. \A u \in Threads \ {t} : cfg'[u] = cfg[u] BY <1>15 DEF LoadFails, TypeOK
  <2>4. stage \in Stages \ (Looking \cup {"idle"}) BY DEF Looking
  <2> QED BY <2>1, <2>2, <2>3, <2>4, SeekLeave
<1> QED
  BY <1>1, <1>2, <1>3, <1>4, <1>6, <1>7, <1>8, <1>9, <1>10, <1>11, <1>12, <1>13, <1>14,
     <1>15 DEF Next

LEMMA FindInit == Init => FindInv
<1> SUFFICES ASSUME Init PROVE FindInv OBVIOUS
<1>1. TypeOK /\ GuardInv BY InitType, GuardInit
<1>2. cache.cfg.src = 0 /\ cache.cfg.agents = {} BY DEF Init, Blank, Cfg
<1>3. AsRead(cache.cfg)
  BY <1>1, <1>2 DEF AsRead, InRoster, GuardInv, Populated
<1>4. 0 <= Version BY <1>1, VersionType, RegistryAssumption
<1>5. ReadInv BY <1>2, <1>3, <1>4 DEF ReadInv, Init
<1>6. SeekInv BY DEF Init, SeekInv, Seeks, Looking
<1> QED BY <1>1, <1>5, <1>6 DEF FindInv

\* A lookup returns out of the cache, out of a file that fails, or with what it read.
LEMMA FoundBy ==
    ASSUME TypeOK, Next, NEW t \in Threads, pc[t] # "found", pc'[t] = "found"
    PROVE  Pick(t) \/ Check(t) \/ ReadFile(t) \/ Publish(t)
<1>1. ASSUME NEW u \in Threads, Pick(u) \/ Check(u) \/ ReadFile(u) \/ Publish(u)
      PROVE  u = t
  BY <1>1 DEF Pick, Check, ReadFile, Publish, Return, Goto, TypeOK
<1>2. ASSUME NEW u \in Threads, Load(u) \/ \E a \in Agents : Find(u, a) PROVE FALSE
  BY <1>2 DEF Load, Find, Goto, TypeOK
<1>3. ASSUME NEW u \in Threads,
             \/ Save(u) \/ Count(u) \/ CountFails(u) \/ Open(u) \/ Rename(u) \/ Drop(u)
             \/ Done(u) \/ LoadFails(u)
      PROVE  FALSE
  BY <1>3 DEF Save, Count, CountFails, LoadFails, Open, Rename, Drop, Done, Goto, Ended, TypeOK
<1>4. ASSUME NEW u \in Threads, ResolveFirst(u) \/ ResolveLegacy(u) PROVE FALSE
  BY <1>4 DEF ResolveFirst, ResolveLegacy, Points
<1>5. ASSUME NEW n \in Files, Edit(n) PROVE FALSE BY <1>5 DEF Edit
<1> QED BY <1>1, <1>2, <1>3, <1>4, <1>5 DEF Next

\* What a lookup returns holds the agent that the structure it is taken from holds.
LEMMA ReturnFound ==
    ASSUME TypeOK, NEW t \in Threads, NEW c, Return(t, c), pc'[t] = "found",
           about[t] \in c.agents
    PROVE  about[t] \in cfg'[t].agents
BY DEF Return, Goto, TypeOK

\* However lookups, loads, saves and edits interleave: an agent that the roster has,
\* and that every version written since has, is found, unless the path was changed
\* under the lookup, the cache answered with another version than its identity says,
\* or the system refused the lookup its memory or the file.
THEOREM LookupsFind == Spec => FindsWhatIsThere
<1>1. ASSUME FindInv, Next, NEW t \in Threads,
             pc[t] # "found", pc'[t] = "found", there[t] # {}, t \notin moved,
             pc[t] \in {"pick", "check"} => cache.cfg.src = cache.id
      PROVE  about[t] \in cfg'[t].agents
  <2> USE <1>1 DEF FindInv
  <2>1. Seeks(t) BY DEF SeekInv
  <2>2. CASE Pick(t) \/ Check(t)
    <3>1. At(t, pc[t]) /\ pc[t] \in {"pick", "check"} /\ path \in Files
      BY <2>2 DEF Pick, Check, At, TypeOK
    <3>2. Current /\ Return(t, cache.cfg)
      BY <2>2 DEF Pick, Check, At, Goto, TypeOK
    <3>3. about[t] \in InRoster(file[path]) BY <2>1, <3>1 DEF Seeks, Looking, At
    <3>4. cache.cfg.agents = InRoster(file[path])
      BY <3>1, <3>2 DEF Current, ReadInv, AsRead
    <3> QED BY <3>2, <3>3, <3>4, ReturnFound
  <2>3. CASE ReadFile(t)
    <3>1. about[t] \in InRoster(file[path]) BY <2>1, <2>3 DEF ReadFile, At, Seeks, Looking
    <3>2. path \in Files /\ file[path].id # 0 /\ file[path].body.says = "roster"
      BY <3>1 DEF InRoster, GuardInv, Populated, TypeOK
    <3>3. Goto(t, "publish") BY <2>3, <3>2 DEF ReadFile
    <3> QED BY <3>3 DEF Goto, TypeOK
  <2>4. CASE Publish(t)
    <3>1. about[t] \in cfg[t].agents BY <2>1, <2>4 DEF Publish, At, Seeks, Looking
    <3> QED BY <2>4, <3>1, ReturnFound DEF Publish
  <2> QED BY <2>2, <2>3, <2>4, FoundBy
<1>2. TypeOK /\ GuardInv /\ PathInv /\ ReadInv /\ SeekInv /\ [Next]_vars =>
        [\A t \in Threads :
           pc[t] \notin Answers /\ pc'[t] \in Answers /\ there[t] # {}
              => \/ about[t] \in cfg'[t].agents
                 \/ t \in moved
                 \/ pc[t] \in {"pick", "check"} /\ cache.cfg.src # cache.id
                 \/ pc'[t] = "failed"]_vars
  BY <1>1 DEF FindInv, Answers
<1>3. Init => TypeOK /\ GuardInv /\ ReadInv /\ SeekInv BY FindInit DEF FindInv
<1> QED
  BY <1>2, <1>3, PathInit, NextType, GuardStep, PathStep, ReadStep, SeekStep, PTL
  DEF Spec, FindsWhatIsThere
=============================================================================
