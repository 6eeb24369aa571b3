------------------------ MODULE LegacyMigration_proofs ------------------------
(***************************************************************************)
(* Proofs about LegacyMigration, for any number of processes, credentials, *)
(* edits and requests: a migration takes no credential out of the file     *)
(* that the store does not have, replaces none, and does not guess.        *)
(***************************************************************************)
EXTENDS LegacyMigration, TLAPS

LEMMA ChainFacts ==
    /\ Len(Chain) = 5
    /\ \A i \in 1..5 : Chain[i] \in Fields
    /\ \A x \in Fields : \E i \in 1..5 : Chain[i] = x
    /\ \A x \in Fields : Name[x] \in Names
    /\ {"kb_api_bearer_token", "kb_client_bearer_token", "server_api_bearer_token",
        "server_api_bearer_extra"} \subseteq Fields
    /\ {"AIMEE_API_BEARER_TOKEN", "AIMEE_KB_API_BEARER_TOKEN"} \subseteq Names
<1>1. Len(Chain) = 5
  BY DEF Chain
<1>2. Fields = {"proxy_token", "kb_api_bearer_token", "kb_client_bearer_token",
                "server_api_bearer_token", "server_api_bearer_extra"}
  <2>1. 1..Len(Chain) = {1, 2, 3, 4, 5}
    BY <1>1
  <2> QED BY <2>1 DEF Fields, Chain
<1>3. \A i \in 1..5 : Chain[i] \in Fields
  BY <1>1 DEF Fields
<1>4. \A x \in Fields : \E i \in 1..5 : Chain[i] = x
  BY <1>1 DEF Fields
<1>5. \A x \in Fields : Name[x] \in Names
  BY DEF Names
<1>6. /\ Name["server_api_bearer_token"] = "AIMEE_API_BEARER_TOKEN"
      /\ Name["kb_api_bearer_token"] = "AIMEE_KB_API_BEARER_TOKEN"
  BY DEF Name
<1> QED BY <1>1, <1>2, <1>3, <1>4, <1>5, <1>6

LEMMA NameFacts ==
    /\ Name["server_api_bearer_token"] = "AIMEE_API_BEARER_TOKEN"
    /\ \A x \in Fields : Name[x] = "AIMEE_KB_API_BEARER_TOKEN"
          <=> x \in {"kb_api_bearer_token", "kb_client_bearer_token"}
<1>1. 1..Len(Chain) = {1, 2, 3, 4, 5}
  BY DEF Chain
<1>2. Fields = {"proxy_token", "kb_api_bearer_token", "kb_client_bearer_token",
                "server_api_bearer_token", "server_api_bearer_extra"}
  BY <1>1 DEF Fields, Chain
<1> QED BY <1>2 DEF Name

-----------------------------------------------------------------------------
(* Types.                                                                  *)

LEMMA InitType == Init => TypeOK
<1> SUFFICES ASSUME Init PROVE TypeOK
  OBVIOUS
<1>1. Empty \in Contents
  BY DEF Empty, Contents
<1>2. file \in [id : 1 .. MaxFiles, creds : Contents] /\ store \in Records
  BY MigrationAssumption DEF Init
<1>3. 1 \in 1 .. MaxFiles /\ 1 \in 1 .. Len(Chain)
  BY MigrationAssumption, ChainFacts
<1> HIDE DEF Contents, Records
<1> QED BY <1>1, <1>2, <1>3 DEF Init, TypeOK

LEMMA ReplaceType ==
    ASSUME TypeOK, NEW c \in Contents, Replace(c)
    PROVE  file' \in [id : 1 .. MaxFiles, creds : Contents]
<1> HIDE DEF Contents
<1> QED BY MigrationAssumption DEF TypeOK, Replace

LEMMA PutType ==
    ASSUME TypeOK, NEW n \in Names, NEW v \in Values, NEW p, Put(n, v, p)
    PROVE  store' \in Records /\ raced' \subseteq Processes
<1>1. store' = [store EXCEPT ![n] = v]
  BY DEF Put
<1>2. store' \in Records
  BY <1>1 DEF TypeOK, Records
<1> QED BY <1>2 DEF Put, TypeOK

\* The part of the state that a process keeps to itself.
Locals ==
    /\ pc \in [Processes -> {"idle", "ask", "seal", "save"}]
    /\ at \in [Processes -> 1 .. Len(Chain)]
    /\ cfg \in [Processes -> Contents]
    /\ failed \in [Processes -> BOOLEAN]
    /\ src \in [Processes -> 1 .. MaxFiles]
    /\ revoked \subseteq Processes

LEMMA EndType ==
    ASSUME TypeOK, NEW p \in Processes, End(p)
    PROVE  Locals'
<1>1. Empty \in Contents
  BY DEF Empty, Contents
<1>2. 1 \in 1 .. MaxFiles /\ 1 \in 1 .. Len(Chain)
  BY MigrationAssumption, ChainFacts
<1> HIDE DEF Contents
<1> QED BY <1>1, <1>2 DEF TypeOK, End, Locals

LEMMA AdvanceType ==
    ASSUME TypeOK, NEW p \in Processes, NEW b \in BOOLEAN, Advance(p, b)
    PROVE  Locals'
<1>1. CASE at[p] < Len(Chain)
  <2>1. at[p] + 1 \in 1 .. Len(Chain)
    BY <1>1, ChainFacts DEF TypeOK
  <2>2. /\ pc' = [pc EXCEPT ![p] = "ask"]
        /\ at' = [at EXCEPT ![p] = at[p] + 1]
        /\ failed' = [failed EXCEPT ![p] = b]
        /\ UNCHANGED <<cfg, src, revoked>>
    BY <1>1 DEF Advance
  <2> HIDE DEF Contents
  <2> QED BY <2>1, <2>2 DEF TypeOK, Locals
<1>2. CASE ~(at[p] < Len(Chain)) /\ (b \/ cfg[p] = Empty)
  <2>1. End(p)
    BY <1>2 DEF Advance
  <2> QED BY <2>1, EndType
<1>3. CASE ~(at[p] < Len(Chain)) /\ ~(b \/ cfg[p] = Empty)
  <2>1. pc' = [pc EXCEPT ![p] = "save"] /\ UNCHANGED <<at, cfg, failed, src, revoked>>
    BY <1>3 DEF Advance
  <2> HIDE DEF Contents
  <2> QED BY <2>1 DEF TypeOK, Locals
<1> QED BY <1>1, <1>2, <1>3

LEMMA LoadedType == TypeOK => Loaded \in Contents
<1> SUFFICES ASSUME TypeOK PROVE Loaded \in Contents
  OBVIOUS
<1>1. file.creds \in Contents /\ store["AIMEE_API_BEARER_TOKEN"] \in Values \cup {None}
  BY ChainFacts DEF TypeOK, Records
<1> QED BY <1>1 DEF Loaded, Contents

LEMMA NextType == TypeOK /\ [Next]_vars => TypeOK'
<1> SUFFICES ASSUME TypeOK, [Next]_vars PROVE TypeOK'
  OBVIOUS
<1>e. Empty \in Contents
  BY DEF Empty, Contents
<1>0. Locals /\ Fields # {}
  BY ChainFacts DEF TypeOK, Locals
<1> HIDE DEF Contents, Records
<1>1. ASSUME NEW p \in Processes, Begin(p) PROVE TypeOK'
  BY <1>1, LoadedType DEF Begin, TypeOK
<1>2. ASSUME NEW p \in Processes, Ask(p) PROVE TypeOK'
  <2>1. Locals'
    <3>1. CASE Advance(p, failed[p])
      BY <3>1, AdvanceType DEF TypeOK
    <3>2. CASE pc' = [pc EXCEPT ![p] = "seal"] /\ UNCHANGED <<at, cfg, failed, src, revoked>>
      BY <3>2, <1>0 DEF Locals
    <3> QED BY <1>2, <3>1, <3>2 DEF Ask
  <2> QED BY <1>2, <2>1 DEF Ask, TypeOK, Locals
<1>3. ASSUME NEW p \in Processes, Seal(p) PROVE TypeOK'
  <2> DEFINE x == Chain[at[p]]
  <2>1. x \in Fields /\ Name[x] \in Names
    BY ChainFacts DEF TypeOK
  <2>2. CASE Put(Name[x], cfg[p][x], p) /\ Advance(p, failed[p])
    <3>1. Locals'
      BY <2>2, AdvanceType DEF TypeOK
    <3>2. cfg[p][x] \in Values \cup {None}
      BY <2>1 DEF TypeOK, Contents
    <3>3. store' \in Records /\ raced' \subseteq Processes
      <4>1. store' = [store EXCEPT ![Name[x]] = cfg[p][x]]
        BY <2>2 DEF Put
      <4>2. store' \in Records
        BY <4>1, <3>2, <2>1 DEF TypeOK, Records
      <4> QED BY <4>2, <2>2 DEF Put, TypeOK
    <3> QED BY <1>3, <3>1, <3>3 DEF Seal, TypeOK, Locals
  <2>3. CASE raced' = raced \ {p} /\ Advance(p, TRUE) /\ UNCHANGED store
    <3>1. Locals'
      BY <2>3, AdvanceType
    <3> QED BY <1>3, <2>3, <3>1 DEF Seal, TypeOK, Locals
  <2> QED BY <1>3, <2>2, <2>3 DEF Seal
<1>4. ASSUME NEW p \in Processes, Save(p) PROVE TypeOK'
  BY <1>4, <1>e, ReplaceType, EndType DEF Save, TypeOK, Locals
<1>5. ASSUME NEW p \in Processes, Crash(p) PROVE TypeOK'
  BY <1>5, EndType DEF Crash, TypeOK, Locals
<1>6. ASSUME NEW e \in Edits, Edit(e[1], e[2]) PROVE TypeOK'
  <2>1. e[1] \in Fields /\ e[2] \in Values \cup {None}
    BY MigrationAssumption
  <2>2. [file.creds EXCEPT ![e[1]] = e[2]] \in Contents
    BY <2>1 DEF TypeOK, Contents
  <2> QED BY <1>6, <2>2, ReplaceType DEF Edit, Others, TypeOK
<1>7. CASE Setter
  BY <1>7, <1>e, ReplaceType DEF Setter, Others, TypeOK
<1>8. ASSUME NEW r \in Requests, StoreSecret(r[1], r[2]) PROVE TypeOK'
  <2>1. r[1] \in Names /\ r[2] \in Values
    BY MigrationAssumption
  <2> QED BY <1>8, <2>1, PutType DEF StoreSecret, Others, TypeOK
<1>9. CASE UNCHANGED vars
  BY <1>9 DEF vars, TypeOK
<1> QED BY <1>1, <1>2, <1>3, <1>4, <1>5, <1>6, <1>7, <1>8, <1>9 DEF Next

\* The state of the migrations, the file and the store stays in its types, for any
\* number of processes and credentials.
THEOREM TypeCorrect == Spec => []TypeOK
BY InitType, NextType, PTL DEF Spec

-----------------------------------------------------------------------------
(* What a migration has handed over, and what it has loaded.               *)

Busy(p) == pc[p] # "idle"

\* The fields that p is past, while the writer has not failed.
Past(p) == IF pc[p] = "save" THEN 1 .. 5 ELSE 1 .. at[p] - 1
HandedOver(p) ==
    Busy(p) /\ ~failed[p] =>
        \A i \in Past(p) : cfg[p][Chain[i]] # None => store[Name[Chain[i]]] # None

SavesUnfailed(p) == pc[p] = "save" => ~failed[p]
RestsAtFirst(p) == ~Busy(p) => at[p] = 1
SealsSome(p) == pc[p] = "seal" => cfg[p][Chain[at[p]]] # None

\* A migration holds what the file of its version has, but for what the store's
\* primary token replaces and revokes.
HoldsItsFile(p) ==
    Busy(p) =>
        /\ src[p] <= file.id
        /\ src[p] = file.id =>
              \A x \in Fields : file.creds[x] # None =>
                  cfg[p][x] # None \/ (x = "server_api_bearer_extra" /\ p \in revoked)

Sound(p) ==
    /\ HandedOver(p) /\ SavesUnfailed(p) /\ HoldsItsFile(p)
    /\ RestsAtFirst(p) /\ SealsSome(p)
HandInv == \A p \in Processes : Sound(p)

LEMMA HandInit == Init => HandInv
BY DEF Init, HandInv, Sound, HandedOver, SavesUnfailed, HoldsItsFile, RestsAtFirst, SealsSome, Busy

\* What is in the store stays there, in this version or another.
StoreGrows == \A n \in Names : store[n] # None => store'[n] # None

LEMMA Grows ==
    ASSUME TypeOK, NEW n \in Names, NEW v \in Values \cup {None}, NEW p, Put(n, v, p), v # None
    PROVE  StoreGrows /\ store'[n] # None
BY DEF Put, StoreGrows, TypeOK, Records

\* A process at rest, or one that nothing of this step is about, keeps the invariant.
LEMMA HandOther ==
    ASSUME TypeOK, TypeOK', HandInv, StoreGrows, NEW q \in Processes,
           UNCHANGED <<pc[q], at[q], cfg[q], failed[q], src[q]>>,
           q \in revoked <=> q \in revoked',
           file'.id > file.id \/ UNCHANGED file
    PROVE  Sound(q)'
<1>1. \A i \in Past(q) : Name[Chain[i]] \in Names
  BY ChainFacts DEF Past, TypeOK
<1>2. Past(q)' = Past(q)
  BY DEF Past
<1>3. HandedOver(q)' /\ SavesUnfailed(q)' /\ RestsAtFirst(q)' /\ SealsSome(q)'
  BY <1>1, <1>2 DEF HandInv, Sound, HandedOver, SavesUnfailed, RestsAtFirst, SealsSome,
                    StoreGrows, Busy
<1>4. ASSUME Busy(q)' PROVE HoldsItsFile(q)'
  <2>1. Busy(q) /\ src[q] \in Int /\ file.id \in Int /\ file'.id \in Int
    BY <1>4 DEF Busy, TypeOK
  <2>2. CASE UNCHANGED file
    BY <2>1, <2>2 DEF HandInv, Sound, HoldsItsFile
  <2>3. CASE file'.id > file.id
    BY <2>1, <2>3 DEF HandInv, Sound, HoldsItsFile
  <2> QED BY <2>2, <2>3
<1> QED BY <1>3, <1>4 DEF Sound, HoldsItsFile

\* On to the next field: what p is past is in the store, or the writer has failed.
LEMMA HandAdvance ==
    ASSUME TypeOK, TypeOK', HandInv, StoreGrows, UNCHANGED file,
           NEW p \in Processes, Busy(p), pc[p] # "save",
           NEW b \in BOOLEAN, Advance(p, b), failed[p] => b,
           b \/ cfg[p][Chain[at[p]]] = None \/ store'[Name[Chain[at[p]]]] # None
    PROVE  HandInv'
<1>1. ASSUME NEW q \in Processes, q # p PROVE Sound(q)'
  <2>1. UNCHANGED <<pc[q], at[q], cfg[q], failed[q], src[q]>>
    BY <1>1 DEF Advance, End, TypeOK
  <2>2. q \in revoked <=> q \in revoked'
    BY <1>1 DEF Advance, End
  <2> QED BY <1>1, <2>1, <2>2, HandOther
<1>2. Sound(p)'
  <2>1. at[p] \in 1 .. 5 /\ Len(Chain) = 5
    BY ChainFacts DEF TypeOK
  <2>2. \A i \in 1 .. 5 : Name[Chain[i]] \in Names
    BY ChainFacts
  <2>3. ASSUME ~b, NEW i \in 1 .. at[p], cfg[p][Chain[i]] # None
        PROVE  store'[Name[Chain[i]]] # None
    <3>1. CASE i = at[p]
      BY <2>3, <3>1
    <3>2. CASE i # at[p]
      <4>1. i \in Past(p) /\ i \in 1 .. 5
        BY <2>1, <2>3, <3>2 DEF Past
      <4>2. store[Name[Chain[i]]] # None
        BY <2>3, <4>1 DEF HandInv, Sound, HandedOver, Busy
      <4> QED BY <2>2, <4>1, <4>2 DEF StoreGrows
    <3> QED BY <3>1, <3>2
  <2>4. CASE at[p] < Len(Chain)
    <3>1. /\ pc'[p] = "ask" /\ at'[p] = at[p] + 1 /\ failed'[p] = b
          /\ UNCHANGED <<cfg, src, revoked>>
      BY <2>4 DEF Advance, TypeOK
    <3>2. Past(p)' = 1 .. at[p]
      BY <3>1, <2>1 DEF Past
    <3> QED BY <3>1, <3>2, <2>3
      DEF HandInv, Sound, HandedOver, SavesUnfailed, HoldsItsFile, RestsAtFirst, SealsSome, Busy
  <2>5. CASE ~(at[p] < Len(Chain)) /\ (b \/ cfg[p] = Empty)
    <3>1. pc'[p] = "idle" /\ at'[p] = 1
      BY <2>5 DEF Advance, End, TypeOK
    <3> QED BY <3>1 DEF Sound, HandedOver, SavesUnfailed, HoldsItsFile, RestsAtFirst, SealsSome, Busy
  <2>6. CASE ~(at[p] < Len(Chain)) /\ ~(b \/ cfg[p] = Empty)
    <3>1. pc'[p] = "save" /\ UNCHANGED <<at, cfg, failed, src, revoked>>
      BY <2>6 DEF Advance, TypeOK
    <3>2. at[p] = 5 /\ ~failed[p] /\ ~b
      BY <2>1, <2>6
    <3>3. Past(p)' = 1 .. at[p]
      BY <3>1, <3>2 DEF Past
    <3> QED BY <3>1, <3>2, <3>3, <2>3
      DEF HandInv, Sound, HandedOver, SavesUnfailed, HoldsItsFile, RestsAtFirst, SealsSome, Busy
  <2> QED BY <2>4, <2>5, <2>6
<1> QED BY <1>1, <1>2 DEF HandInv

\* A process that begins or ends leaves the others alone.
LEMMA HandEnds ==
    ASSUME TypeOK, TypeOK', HandInv, UNCHANGED store, NEW p \in Processes, End(p),
           file'.id > file.id \/ UNCHANGED file
    PROVE  HandInv'
<1>1. ASSUME NEW q \in Processes, q # p PROVE Sound(q)'
  <2>1. /\ UNCHANGED <<pc[q], at[q], cfg[q], failed[q], src[q]>>
        /\ q \in revoked <=> q \in revoked'
    BY <1>1 DEF End, TypeOK
  <2> QED BY <1>1, <2>1, HandOther DEF StoreGrows
<1>2. pc'[p] = "idle" /\ at'[p] = 1
  BY DEF End, TypeOK
<1>3. Sound(p)'
  BY <1>2 DEF Sound, HandedOver, SavesUnfailed, HoldsItsFile, RestsAtFirst, SealsSome, Busy
<1> QED BY <1>1, <1>3 DEF HandInv

\* A step of nobody's migration.
LEMMA HandOthers ==
    ASSUME TypeOK, TypeOK', HandInv, StoreGrows, Others,
           file'.id > file.id \/ UNCHANGED file
    PROVE  HandInv'
<1>1. ASSUME NEW q \in Processes PROVE Sound(q)'
  BY <1>1, HandOther DEF Others
<1> QED BY <1>1 DEF HandInv

LEMMA HandStep == TypeOK /\ HandInv /\ [Next]_vars => HandInv'
<1> SUFFICES ASSUME TypeOK, HandInv, [Next]_vars PROVE HandInv'
  OBVIOUS
<1>t. TypeOK'
  BY NextType
<1>i. \A c : Replace(c) => file'.id > file.id
  BY DEF Replace, TypeOK
<1>s. UNCHANGED store => StoreGrows
  BY DEF StoreGrows
<1>1. ASSUME NEW p \in Processes, Begin(p) PROVE HandInv'
  <2>1. ASSUME NEW q \in Processes, q # p PROVE Sound(q)'
    <3>1. /\ UNCHANGED <<pc[q], at[q], cfg[q], failed[q], src[q]>>
          /\ q \in revoked <=> q \in revoked'
          /\ UNCHANGED file
      BY <1>1, <2>1 DEF Begin, TypeOK
    <3> QED BY <1>1, <1>s, <1>t, <3>1, HandOther DEF Begin
  <2>2. Sound(p)'
    <3>1. /\ pc'[p] = "ask" /\ cfg'[p] = Loaded /\ src'[p] = file.id
          /\ Revokes => p \in revoked'
          /\ UNCHANGED <<file, store, at, failed>>
      BY <1>1 DEF Begin, TypeOK
    <3>2. HoldsItsFile(p)'
      BY <3>1 DEF HoldsItsFile, TypeOK, Loaded
    <3>3. at'[p] = 1
      BY <1>1, <3>1 DEF Begin, Busy, HandInv, Sound, RestsAtFirst
    <3>4. HandedOver(p)'
      BY <3>1, <3>3 DEF HandedOver, Past
    <3> QED BY <3>1, <3>2, <3>4 DEF Sound, SavesUnfailed, RestsAtFirst, SealsSome, Busy
  <2> QED BY <2>1, <2>2 DEF HandInv
<1>2. ASSUME NEW p \in Processes, Ask(p) PROVE HandInv'
  <2> DEFINE x == Chain[at[p]]
  <2>1. CASE (Skips(p, x) \/ store[Name[x]] # None) /\ Advance(p, failed[p])
    <3>1. failed[p] \/ cfg[p][x] = None \/ store'[Name[x]] # None
      BY <1>2, <2>1 DEF Ask, Skips
    <3>2. /\ Busy(p) /\ pc[p] # "save" /\ StoreGrows /\ UNCHANGED file
          /\ failed[p] \in BOOLEAN /\ Advance(p, failed[p])
      BY <1>2, <1>s, <2>1 DEF Ask, Busy, TypeOK
    <3> HIDE DEF x
    <3> QED BY <1>t, <3>1, <3>2, HandAdvance DEF x
  <2>2. CASE pc' = [pc EXCEPT ![p] = "seal"] /\ UNCHANGED <<at, cfg, failed, src, revoked>>
    <3>1. ~Skips(p, x)
      BY <1>2, <2>2 DEF Ask, Advance, End, TypeOK
    <3>2. \A q \in Processes : Sound(q)'
      BY <1>2, <2>2, <3>1 DEF Skips, Ask, HandInv, Sound, HandedOver, SavesUnfailed, HoldsItsFile, RestsAtFirst, SealsSome, Busy,
                        Past, TypeOK
    <3> QED BY <3>2 DEF HandInv
  <2> QED BY <1>2, <2>1, <2>2 DEF Ask
<1>3. ASSUME NEW p \in Processes, Seal(p) PROVE HandInv'
  <2> DEFINE x == Chain[at[p]]
  <2>1. x \in Fields /\ Name[x] \in Names
    BY ChainFacts DEF TypeOK
  <2>2. CASE Put(Name[x], cfg[p][x], p) /\ Advance(p, failed[p])
    <3>1. store' = [store EXCEPT ![Name[x]] = cfg[p][x]]
      BY <2>2 DEF Put
    <3>2. store'[Name[x]] = cfg[p][x]
      BY <3>1, <2>1 DEF TypeOK, Records
    <3>3. cfg[p][x] \in Values \cup {None} /\ cfg[p][x] # None
      BY <1>3, <2>1 DEF Seal, HandInv, Sound, SealsSome, TypeOK, Contents
    <3>4. StoreGrows
      BY <2>1, <2>2, <3>3, Grows
    <3>5. /\ Busy(p) /\ pc[p] # "save" /\ UNCHANGED file
          /\ failed[p] \in BOOLEAN /\ Advance(p, failed[p])
      BY <1>3, <2>2 DEF Seal, Busy, TypeOK
    <3> HIDE DEF x
    <3> QED BY <1>t, <3>2, <3>3, <3>4, <3>5, HandAdvance DEF x
  <2>3. CASE Advance(p, TRUE) /\ UNCHANGED store
    <3>1. Busy(p) /\ pc[p] # "save" /\ UNCHANGED file
      BY <1>3 DEF Seal, Busy
    <3> QED BY <1>s, <1>t, <2>3, <3>1, HandAdvance
  <2> QED BY <1>3, <2>2, <2>3 DEF Seal
<1>4. ASSUME NEW p \in Processes, Save(p) PROVE HandInv'
  BY <1>4, <1>i, <1>t, HandEnds DEF Save
<1>5. ASSUME NEW p \in Processes, Crash(p) PROVE HandInv'
  BY <1>5, <1>t, HandEnds DEF Crash
<1>6. ASSUME NEW e \in Edits, Edit(e[1], e[2]) PROVE HandInv'
  BY <1>6, <1>i, <1>s, <1>t, HandOthers DEF Edit
<1>7. CASE Setter
  BY <1>7, <1>i, <1>s, <1>t, HandOthers DEF Setter
<1>8. ASSUME NEW r \in Requests, StoreSecret(r[1], r[2]) PROVE HandInv'
  <2>1. r[1] \in Names /\ r[2] \in Values /\ r[2] # None
    BY MigrationAssumption
  <2> QED BY <1>8, <1>t, <2>1, Grows, HandOthers DEF StoreSecret
<1>9. CASE UNCHANGED vars
  BY <1>9, <1>s, <1>t, HandOthers DEF vars, Others
<1> QED BY <1>1, <1>2, <1>3, <1>4, <1>5, <1>6, <1>7, <1>8, <1>9 DEF Next

\* A migration takes out of the file only what the store has, for any interleaving of
\* migrations, crashes, failing writers, edits and requests.
THEOREM Scrubbed == Spec => ScrubsOnlySealed
<1>1. TypeOK /\ HandInv /\ [Next]_vars =>
         [\A p \in Processes :
            pc[p] = "save" /\ file' # file /\ src[p] = file.id
               => \A x \in Fields :
                     file.creds[x] # None
                        => \/ store[Name[x]] # None
                           \/ x = "server_api_bearer_extra" /\ p \in revoked]_vars
  <2> SUFFICES ASSUME HandInv, NEW p \in Processes, pc[p] = "save", src[p] = file.id,
                      NEW x \in Fields, file.creds[x] # None
               PROVE  \/ store[Name[x]] # None
                      \/ x = "server_api_bearer_extra" /\ p \in revoked
    OBVIOUS
  <2>1. /\ Busy(p) /\ ~failed[p]
        /\ cfg[p][x] # None \/ (x = "server_api_bearer_extra" /\ p \in revoked)
    BY DEF HandInv, Sound, SavesUnfailed, HoldsItsFile, Busy
  <2>2. PICK i \in 1 .. 5 : Chain[i] = x
    BY ChainFacts
  <2>3. i \in Past(p)
    BY DEF Past
  <2> QED BY <2>1, <2>2, <2>3 DEF HandInv, Sound, HandedOver
<1>2. Spec => []TypeOK
  BY TypeCorrect
<1> QED BY <1>1, <1>2, HandInit, HandStep, PTL DEF Spec, ScrubsOnlySealed

-----------------------------------------------------------------------------
(* What a migration replaces in the store, and what it guesses.            *)

NameAt(p) == Name[Chain[at[p]]]
Conflict(c) ==
    /\ c["kb_api_bearer_token"] # None /\ c["kb_client_bearer_token"] # None
    /\ c["kb_api_bearer_token"] # c["kb_client_bearer_token"]

\* A migration that asked and found nothing is told of what comes in between; one
\* that loaded two different tokens found one in the store.
Careful(p) ==
    /\ pc[p] = "seal" => store[NameAt(p)] = None \/ p \in raced
    /\ Busy(p) /\ Conflict(cfg[p]) => store["AIMEE_KB_API_BEARER_TOKEN"] # None
    /\ pc[p] = "seal" /\ NameAt(p) = "AIMEE_KB_API_BEARER_TOKEN" => ~Conflict(cfg[p])
CareInv == \A p \in Processes : Careful(p)

LEMMA CareInit == Init => CareInv
BY DEF Init, CareInv, Careful, Busy

\* A process that is not about to seal, or a store that nothing is put in.
LEMMA CareKept ==
    ASSUME TypeOK, CareInv, NEW q \in Processes, StoreGrows,
           UNCHANGED <<pc[q], at[q], cfg[q]>>,
           \/ UNCHANGED store /\ (q \in raced => q \in raced')
           \/ \E n \in Names : \E v : store' = [store EXCEPT ![n] = v]
                                 /\ (pc[q] = "seal" /\ NameAt(q) = n => q \in raced')
                                 /\ (q \in raced => q \in raced')
    PROVE  Careful(q)'
<1>1. NameAt(q) \in Names /\ "AIMEE_KB_API_BEARER_TOKEN" \in Names
  BY ChainFacts DEF NameAt, TypeOK
<1>2. NameAt(q)' = NameAt(q)
  BY DEF NameAt
<1>3. pc[q] = "seal" => store'[NameAt(q)] = None \/ q \in raced'
  <2>1. CASE UNCHANGED store /\ (q \in raced => q \in raced')
    BY <2>1 DEF CareInv, Careful
  <2>2. ASSUME NEW n \in Names, NEW v, store' = [store EXCEPT ![n] = v],
               pc[q] = "seal" /\ NameAt(q) = n => q \in raced',
               q \in raced => q \in raced'
        PROVE  pc[q] = "seal" => store'[NameAt(q)] = None \/ q \in raced'
    BY <2>2, <1>1 DEF CareInv, Careful, TypeOK, Records
  <2> QED BY <2>1, <2>2
<1> QED BY <1>1, <1>2, <1>3 DEF CareInv, Careful, StoreGrows, Busy

LEMMA CareStep == TypeOK /\ HandInv /\ CareInv /\ [Next]_vars => CareInv'
<1> SUFFICES ASSUME TypeOK, HandInv, CareInv, [Next]_vars PROVE CareInv'
  OBVIOUS
<1>n. "AIMEE_KB_API_BEARER_TOKEN" \in Names
  BY ChainFacts
<1>s. UNCHANGED store => StoreGrows
  BY DEF StoreGrows
<1>a. ASSUME NEW p \in Processes, NEW b, Advance(p, b) \/ End(p)
      PROVE  /\ \A q \in Processes \ {p} : UNCHANGED <<pc[q], at[q], cfg[q]>>
             /\ pc'[p] # "seal"
             /\ Busy(p)' => cfg'[p] = cfg[p]
  BY <1>a DEF Advance, End, TypeOK, Busy
<1>1. ASSUME NEW p \in Processes, Begin(p) PROVE CareInv'
  <2>1. ASSUME NEW q \in Processes, q # p PROVE Careful(q)'
    <3>1. UNCHANGED <<pc[q], at[q], cfg[q]>> /\ UNCHANGED <<store, raced>>
      BY <1>1, <2>1 DEF Begin, TypeOK
    <3> QED BY <1>s, <3>1, CareKept
  <2>2. pc'[p] = "ask" /\ cfg'[p] = Loaded /\ UNCHANGED store /\ ~Ambiguous(Loaded)
    BY <1>1 DEF Begin, TypeOK
  <2>3. Careful(p)'
    BY <2>2 DEF Careful, Ambiguous, Conflict
  <2> QED BY <2>1, <2>3 DEF CareInv
<1>2. ASSUME NEW p \in Processes, Ask(p) PROVE CareInv'
  <2>1. CASE Advance(p, failed[p])
    <3>1. ASSUME NEW q \in Processes, q # p PROVE Careful(q)'
      BY <1>2, <1>a, <1>s, <2>1, <3>1, CareKept DEF Ask
    <3>2. Careful(p)'
      BY <1>2, <1>a, <2>1 DEF Ask, CareInv, Careful, Busy
    <3> QED BY <3>1, <3>2 DEF CareInv
  <2>2. CASE /\ pc' = [pc EXCEPT ![p] = "seal"] /\ UNCHANGED <<at, cfg>>
             /\ store[NameAt(p)] = None
    <3>1. ASSUME NEW q \in Processes, q # p PROVE Careful(q)'
      <4>1. UNCHANGED <<pc[q], at[q], cfg[q]>> /\ UNCHANGED <<store, raced>>
        BY <1>2, <2>2, <3>1 DEF Ask, TypeOK
      <4> QED BY <1>s, <4>1, CareKept
    <3>2. Careful(p)'
      BY <1>2, <2>2 DEF Ask, CareInv, Careful, Busy, NameAt
    <3> QED BY <3>1, <3>2 DEF CareInv
  <2> QED BY <1>2, <2>1, <2>2 DEF Ask, NameAt
<1>3. ASSUME NEW p \in Processes, Seal(p) PROVE CareInv'
  <2> DEFINE x == Chain[at[p]]
  <2>1. x \in Fields /\ Name[x] \in Names
    BY ChainFacts DEF TypeOK
  <2>2. CASE Put(Name[x], cfg[p][x], p) /\ Advance(p, failed[p])
    <3>1. cfg[p][x] \in Values \cup {None} /\ cfg[p][x] # None
      BY <1>3, <2>1 DEF Seal, HandInv, Sound, SealsSome, TypeOK, Contents
    <3>2. StoreGrows
      BY <2>1, <2>2, <3>1, Grows
    <3>3. ASSUME NEW q \in Processes, q # p PROVE Careful(q)'
      <4>1. UNCHANGED <<pc[q], at[q], cfg[q]>>
        BY <1>a, <2>2, <3>3
      <4>2. /\ store' = [store EXCEPT ![Name[x]] = cfg[p][x]]
            /\ pc[q] = "seal" /\ NameAt(q) = Name[x] => q \in raced'
            /\ q \in raced => q \in raced'
        BY <2>2, <3>3 DEF Put, NameAt
      <4> HIDE DEF x
      <4> QED BY <2>1, <3>2, <4>1, <4>2, CareKept
    <3>4. Careful(p)'
      BY <1>3, <1>a, <1>n, <2>2, <3>2 DEF Seal, CareInv, Careful, Busy, StoreGrows
    <3> QED BY <3>3, <3>4 DEF CareInv
  <2>3. CASE raced' = raced \ {p} /\ Advance(p, TRUE) /\ UNCHANGED store
    <3>1. ASSUME NEW q \in Processes, q # p PROVE Careful(q)'
      BY <1>a, <1>s, <2>3, <3>1, CareKept
    <3>2. Careful(p)'
      BY <1>3, <1>a, <2>3 DEF Seal, CareInv, Careful, Busy
    <3> QED BY <3>1, <3>2 DEF CareInv
  <2> QED BY <1>3, <2>2, <2>3 DEF Seal
<1>4. ASSUME NEW p \in Processes, Save(p) \/ Crash(p) PROVE CareInv'
  <2>1. /\ End(p) /\ UNCHANGED store
        /\ \A q \in Processes \ {p} : q \in raced => q \in raced'
    BY <1>4 DEF Save, Crash
  <2>2. ASSUME NEW q \in Processes, q # p PROVE Careful(q)'
    BY <1>a, <1>s, <2>1, <2>2, CareKept
  <2>3. pc'[p] = "idle"
    BY <2>1 DEF End, TypeOK
  <2>4. Careful(p)'
    BY <2>3 DEF Careful, Busy
  <2> QED BY <2>2, <2>4 DEF CareInv
<1>5. ASSUME NEW r \in Requests, StoreSecret(r[1], r[2]) PROVE CareInv'
  <2>1. r[1] \in Names /\ r[2] \in Values /\ None \notin Values
    BY MigrationAssumption
  <2>2. StoreGrows
    BY <1>5, <2>1, Grows DEF StoreSecret
  <2>3. ASSUME NEW q \in Processes PROVE Careful(q)'
    <3>1. UNCHANGED <<pc[q], at[q], cfg[q]>>
      BY <1>5 DEF StoreSecret, Others
    <3>2. q # None
      BY MigrationAssumption
    <3>3. /\ store' = [store EXCEPT ![r[1]] = r[2]]
          /\ pc[q] = "seal" /\ NameAt(q) = r[1] => q \in raced'
          /\ q \in raced => q \in raced'
      BY <1>5, <3>2 DEF StoreSecret, Put, NameAt
    <3> QED BY <2>1, <2>2, <3>1, <3>3, CareKept
  <2> QED BY <2>3 DEF CareInv
<1>6. CASE UNCHANGED <<store, raced, pc, at, cfg>>
  BY <1>6 DEF CareInv, Careful, Busy, NameAt
<1> QED BY <1>1, <1>2, <1>3, <1>4, <1>5, <1>6 DEF Next, Edit, Setter, Others, vars

\* The store's credentials are authoritative: no migration replaces one that was
\* there when it asked.
THEOREM StoreIsKept == Spec => NothingOverwritten
<1>1. TypeOK /\ CareInv /\ [Next]_vars =>
         [\A p \in Processes :
            pc[p] = "seal" /\ pc'[p] # "seal" /\ store' # store
               => store[Name[Chain[at[p]]]] = None \/ p \in raced]_vars
  BY DEF CareInv, Careful, NameAt
<1>2. Spec => []TypeOK
  BY TypeCorrect
<1> QED BY <1>1, <1>2, HandInit, HandStep, CareInit, CareStep, PTL DEF Spec, NothingOverwritten

\* Of two tokens that differ and were one credential, a migration stores neither.
THEOREM RefusesToGuess == Spec => []NeverGuesses
<1>1. CareInv => NeverGuesses
  BY DEF CareInv, Careful, NameAt, Conflict, NeverGuesses
<1>2. Spec => []TypeOK
  BY TypeCorrect
<1> QED BY <1>1, <1>2, HandInit, HandStep, CareInit, CareStep, PTL DEF Spec
=============================================================================
