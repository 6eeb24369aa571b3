------------------------ MODULE ConfigSnapshot_proofs ------------------------
(***************************************************************************)
(* Proofs about ConfigSnapshot, for any number of threads, fields and      *)
(* contents, any READER_MAX and any width of the sequence number.          *)
(***************************************************************************)
EXTENDS ConfigSnapshot, FiniteSetTheorems, TLAPS

(***************************************************************************)
(* The inductive invariant.  Its parts say what each place of the writer   *)
(* knows about the two slots, and what a pin guarantees to its reader.     *)
(***************************************************************************)
HolderAt(pcs) == wlock \in Threads /\ pc[wlock] \in pcs

PublishedPcs == {"even", "release", "live", "reapply"} \cup ReadPcs

\* Only the holder of g_snap_wlock is inside the writer, and it is busy.
Lock ==
    /\ \A t \in Threads : pc[t] \in WriterPcs => wlock = t
    /\ ~HolderAt({"idle"})

\* A slot is reserved exactly while the holder fills and publishes it.
ReservedByHolder ==
    \A s \in Slots : state[s] = Reserved <=> HolderAt(FillingPcs) /\ s = nxt

\* The holder fills the other slot, then owns the active one.
SlotRoles ==
    /\ HolderAt({"reserve", "odd", "fill"}) => nxt = 1 - active
    /\ HolderAt({"even", "release"}) => nxt = active

\* The copy into the reserved slot is complete up to wtodo.
Filled ==
    /\ HolderAt({"reserve", "odd", "fill"}) =>
          \A f \in Fields \ wtodo : snap[nxt][f] = cfg
    /\ HolderAt({"reserve", "odd", "fill"} \cup PublishedPcs) => cfg \in Configs

\* From the flip on, the active slot is what the holder published.
Published ==
    /\ HolderAt(PublishedPcs) => snap[active] = Image(cfg)
    /\ HolderAt(PublishedPcs \ {"even"}) => token = cfg
    /\ inited => \E c \in Configs : snap[active] = Image(c)
    /\ inited /\ (wlock = NoThread \/ HolderAt({"load"})) =>
          snap[active] = Image(token)

\* Reads happen only once the snapshot is live.
ReadsAreLive ==
    /\ \A t \in Threads : pc[t] \in ReadPcs => inited
    /\ HolderAt({"reapply"}) => inited

\* What a reader has copied is still in the slot it has pinned.
CopyFaithful ==
    \A t \in Threads :
        /\ pc[t] = "copy" =>
              /\ \E c \in Configs : snap[act[t]] = Image(c)
              /\ \A f \in Fields : out[t][f] \in {Unset, snap[act[t]][f]}
              /\ wlock = t => act[t] = active
        /\ pc[t] # "copy" => out[t] = Image(Unset)

Inv == /\ TypeOK
       /\ Lock
       /\ PinsCounted
       /\ ReservedByHolder
       /\ SlotRoles
       /\ Filled
       /\ Published
       /\ ReadsAreLive
       /\ CopyFaithful

USE DEF Goto, shared, readerLocals, writerLocals, Slots, Reserved, Values, Image,
        LoadingPcs, PinnedPcs, ReadPcs, FillingPcs, WriterPcs, PublishedPcs, HolderAt


-----------------------------------------------------------------------------
(* The pins.                                                               *)

LEMMA PinnedFinite == ASSUME NEW s PROVE IsFiniteSet(PinnedAt(s))
<1>1. PinnedAt(s) \subseteq Threads
  BY DEF PinnedAt
<1> QED
  BY <1>1, ThreadsAssumption, FS_Subset

\* A pinned slot is not reserved, and its word can be decremented.
LEMMA PinHolds ==
  ASSUME TypeOK, PinsCounted, NEW t \in Threads, pc[t] \in PinnedPcs
  PROVE  /\ state[act[t]] # Reserved
         /\ state[act[t]] = Cardinality(PinnedAt(act[t]))
         /\ state[act[t]] - 1 = Cardinality(PinnedAt(act[t]) \ {t})
         /\ state[act[t]] - 1 \in 0..ReaderMax
<1>1. act[t] \in Slots /\ t \in PinnedAt(act[t])
  BY DEF TypeOK, PinnedAt
<1>2. state[act[t]] # Reserved /\ state[act[t]] = Cardinality(PinnedAt(act[t]))
  BY <1>1 DEF PinsCounted
<1>3. Cardinality(PinnedAt(act[t]) \ {t}) = Cardinality(PinnedAt(act[t])) - 1
  BY <1>1, PinnedFinite, FS_RemoveElement
<1>4. Cardinality(PinnedAt(act[t]) \ {t}) \in Nat
  BY PinnedFinite, FS_RemoveElement, FS_CardinalityType
<1> QED
  BY <1>1, <1>2, <1>3, <1>4, ReaderMaxAssumption DEF TypeOK

\* Steps that neither pin nor unpin nor touch a word.
LEMMA PinsKept ==
  ASSUME TypeOK, PinsCounted, state' = state,
         \A u \in Threads : (pc'[u] \in PinnedPcs <=> pc[u] \in PinnedPcs)
                            /\ (pc[u] \in PinnedPcs => act'[u] = act[u])
  PROVE  PinsCounted'
<1>1. ASSUME NEW s \in Slots PROVE PinnedAt(s)' = PinnedAt(s)
  BY DEF PinnedAt
<1> QED
  BY <1>1 DEF PinsCounted

LEMMA UnpinStep ==
  ASSUME TypeOK, PinsCounted, NEW t \in Threads, pc[t] \in PinnedPcs, Unpin(t),
         pc' = [pc EXCEPT ![t] = pc'[t]], pc'[t] \notin PinnedPcs,
         \A u \in Threads \ {t} : act'[u] = act[u]
  PROVE  PinsCounted'
<1> PICK a \in Slots : a = act[t]
  BY DEF TypeOK
<1>1. PinnedAt(a)' = PinnedAt(a) \ {t}
  BY DEF PinnedAt, TypeOK
<1>2. ASSUME NEW s \in Slots, s # a PROVE PinnedAt(s)' = PinnedAt(s)
  BY <1>2 DEF PinnedAt, TypeOK
<1>3. state' = [state EXCEPT ![a] = state[a] - 1]
  BY DEF Unpin
<1>4. state'[a] = Cardinality(PinnedAt(a)') /\ state'[a] # Reserved
  BY <1>1, <1>3, PinHolds, ReaderMaxAssumption DEF TypeOK
<1>5. ASSUME NEW s \in Slots, s # a PROVE state'[s] = state[s]
  BY <1>3, <1>5 DEF TypeOK
<1> QED
  BY <1>2, <1>4, <1>5 DEF PinsCounted

LEMMA PinStep ==
  ASSUME TypeOK, PinsCounted, NEW t \in Threads, Pin(t)
  PROVE  PinsCounted'
<1> PICK a \in Slots : a = act[t]
  BY DEF TypeOK
<1>1. PinnedAt(a)' = PinnedAt(a) \cup {t} /\ t \notin PinnedAt(a)
  BY DEF PinnedAt, Pin, TypeOK
<1>2. ASSUME NEW s \in Slots, s # a PROVE PinnedAt(s)' = PinnedAt(s)
  BY <1>2 DEF PinnedAt, Pin, TypeOK
<1>3. Cardinality(PinnedAt(a)') = Cardinality(PinnedAt(a)) + 1
  BY <1>1, PinnedFinite, FS_AddElement
<1>4. state[a] = Cardinality(PinnedAt(a))
  BY ReaderMaxAssumption DEF Pin, TypeOK, PinsCounted
<1>5. state'[a] = state[a] + 1 /\ state'[a] # Reserved
  BY <1>4, ReaderMaxAssumption DEF Pin, TypeOK
<1>6. ASSUME NEW s \in Slots, s # a PROVE state'[s] = state[s]
  BY <1>6 DEF Pin, TypeOK
<1> QED
  BY <1>2, <1>3, <1>4, <1>5, <1>6 DEF PinsCounted

LEMMA ReserveStep ==
  ASSUME TypeOK, PinsCounted, NEW t \in Threads, Reserve(t)
  PROVE  PinsCounted'
<1>1. ASSUME NEW s \in Slots PROVE PinnedAt(s)' = PinnedAt(s)
  BY DEF PinnedAt, Reserve, TypeOK
<1>2. Cardinality(PinnedAt(nxt)) = 0
  BY ReaderMaxAssumption DEF Reserve, TypeOK, PinsCounted
<1>3. PinnedAt(nxt) = {}
  BY <1>2, PinnedFinite, FS_EmptySet
<1> QED
  BY <1>1, <1>3 DEF PinsCounted, Reserve, TypeOK

LEMMA ReleaseStep ==
  ASSUME TypeOK, PinsCounted, NEW t \in Threads, Release(t), state[nxt] = Reserved
  PROVE  PinsCounted'
<1>1. ASSUME NEW s \in Slots PROVE PinnedAt(s)' = PinnedAt(s)
  BY DEF PinnedAt, Release, TypeOK
<1>2. PinnedAt(nxt) = {}
  BY DEF PinsCounted, TypeOK
<1>3. Cardinality(PinnedAt(nxt)) = 0
  BY <1>2, FS_EmptySet
<1> QED
  BY <1>1, <1>3, ReaderMaxAssumption DEF PinsCounted, Release, TypeOK

-----------------------------------------------------------------------------
(* The other parts, action by action.                                      *)

InvRest == Lock /\ ReservedByHolder /\ SlotRoles /\ Filled /\ Published
           /\ ReadsAreLive /\ CopyFaithful

LEMMA InvInit == Init => Inv
<1> SUFFICES ASSUME Init PROVE Inv
  OBVIOUS
<1>1. TypeOK
  <2>1. 0 \in 0..(SeqMod - 1) /\ 0 \in 0..Reserved /\ 0 \in 0..MaxReappliers
    BY SeqModAssumption, ReaderMaxAssumption, MaxReappliersAssumption
  <2> QED
    BY <2>1 DEF Init, TypeOK
<1>2. PinsCounted
  <2>1. ASSUME NEW s \in Slots PROVE PinnedAt(s) = {}
    BY DEF Init, PinnedAt
  <2> QED
    BY <2>1, FS_EmptySet, ReaderMaxAssumption DEF Init, PinsCounted
<1>3. InvRest
  BY ReaderMaxAssumption, ThreadsAssumption
  DEF Init, InvRest, Lock, ReservedByHolder, SlotRoles, Filled, Published, ReadsAreLive,
      CopyFaithful
<1> QED
  BY <1>1, <1>2, <1>3 DEF Inv, InvRest

LEMMA BeginKeepsRest ==
  ASSUME Inv, NEW t \in Threads, Begin(t)
  PROVE  InvRest'
<1> USE ThreadsAssumption, ConfigsAssumption
    DEF Inv, InvRest, TypeOK, Lock, ReservedByHolder, SlotRoles, Filled, Published,
        ReadsAreLive, CopyFaithful
<1>1. CASE Call(t)
  BY <1>1 DEF Call, BeginRead
<1>2. CASE Register(t)
  <2>1. /\ pc' = pc /\ wlock' = wlock /\ active' = active /\ state' = state /\ snap' = snap
        /\ token' = token /\ inited' = inited /\ act' = act /\ out' = out
        /\ nxt' = nxt /\ cfg' = cfg /\ wtodo' = wtodo
    BY <1>2 DEF Register
  <2>2. Lock' /\ ReservedByHolder' /\ SlotRoles' /\ Filled'
    BY <2>1
  <2>3. Published' /\ ReadsAreLive' /\ CopyFaithful'
    BY <2>1
  <2> QED
    BY <2>2, <2>3
<1>3. CASE LockForReload(t)
  BY <1>3 DEF LockForReload
<1>4. ASSUME NEW c \in Configs, InitSnapshot(t, c) PROVE InvRest'
  BY <1>4 DEF InitSnapshot, BeginPublish
<1> QED
  BY <1>1, <1>2, <1>3, <1>4 DEF Begin

LEMMA ReadStepKeepsRest ==
  ASSUME Inv, NEW t \in Threads, ReadStep(t)
  PROVE  InvRest'
<1> USE ThreadsAssumption, ConfigsAssumption, ReaderMaxAssumption
    DEF Inv, InvRest, TypeOK, Lock, ReservedByHolder, SlotRoles, Filled, Published,
        ReadsAreLive, CopyFaithful
<1>1. CASE LoadSeq(t)
  BY <1>1 DEF LoadSeq
<1>2. CASE LoadActive(t)
  BY <1>2 DEF LoadActive
<1>3. CASE LoadState(t)
  BY <1>3 DEF LoadState
<1>4. CASE Bounce(t)
  BY <1>4 DEF Bounce
<1>5. CASE Saturated(t)
  BY <1>5 DEF Saturated, EndRead
<1>6. CASE Pin(t)
  BY <1>6 DEF Pin
<1>7. CASE PinFails(t)
  BY <1>7 DEF PinFails
<1>8. CASE CheckSeq(t)
  BY <1>8 DEF CheckSeq
<1>9. CASE CheckActive(t)
  BY <1>9 DEF CheckActive
<1>10. CASE Retry(t)
  <2>1. act[t] \in Slots /\ state[act[t]] # Reserved /\ state[act[t]] - 1 \in 0..ReaderMax
    BY <1>10, PinHolds DEF Retry
  <2>2. /\ state' = [state EXCEPT ![act[t]] = state[act[t]] - 1]
        /\ \A s \in Slots : state'[s] = Reserved <=> state[s] = Reserved
    BY <1>10, <2>1 DEF Retry, Unpin
  <2> QED
    BY SMTT(30), <1>10, <2>2 DEF Retry, Unpin
<1>11. ASSUME NEW f \in Fields, Copy(t, f) PROVE InvRest'
  <2>1. Lock' /\ ReservedByHolder' /\ SlotRoles' /\ Filled' /\ Published' /\ ReadsAreLive'
    BY SMTT(30), <1>11 DEF Copy
  <2>2. CopyFaithful'
    BY SMTT(30), <1>11 DEF Copy
  <2> QED
    BY <2>1, <2>2
<1>12. CASE Return(t)
  <2>1. act[t] \in Slots /\ state[act[t]] # Reserved /\ state[act[t]] - 1 \in 0..ReaderMax
    BY <1>12, PinHolds DEF Return
  <2>2. /\ state' = [state EXCEPT ![act[t]] = state[act[t]] - 1]
        /\ \A s \in Slots : state'[s] = Reserved <=> state[s] = Reserved
    BY <1>12, <2>1 DEF Return, Unpin
  <2>3. Lock' /\ ReservedByHolder' /\ SlotRoles' /\ Filled' /\ Published' /\ ReadsAreLive'
    BY SMTT(30), <1>12, <2>2 DEF Return, Unpin, EndRead
  <2>4. CopyFaithful'
    BY SMTT(30), <1>12 DEF Return, Unpin, EndRead
  <2> QED
    BY <2>3, <2>4
<1> HIDE DEF Inv, InvRest, TypeOK, Lock, ReservedByHolder, SlotRoles, Filled, Published,
             ReadsAreLive, CopyFaithful
<1> QED
  BY <1>1, <1>2, <1>3, <1>4, <1>5, <1>6, <1>7, <1>8, <1>9, <1>10, <1>11, <1>12
  DEF ReadStep

\* The reload is over: nobody holds the lock, the token tells the active slot.
LEMMA EndReloadKeepsRest ==
  ASSUME Inv, NEW t \in Threads, EndReload(t)
  PROVE  InvRest'
<1>1. /\ wlock = t /\ pc[t] = "reapply" /\ wlock' \notin Threads /\ wlock' = NoThread
      /\ pc' = [pc EXCEPT ![t] = "idle"]
      /\ active' = active /\ state' = state /\ snap' = snap /\ token' = token
      /\ inited' = inited /\ act' = act /\ out' = out
  BY ThreadsAssumption DEF EndReload, Unlock, Inv, Lock
<1>2. /\ pc'[t] = "idle"
      /\ \A u \in Threads : u # t => pc'[u] = pc[u]
  BY <1>1 DEF Inv, TypeOK
<1>3. Lock'
  BY <1>1, <1>2 DEF Inv, Lock
<1>4. ReservedByHolder' /\ SlotRoles' /\ Filled'
  BY <1>1 DEF Inv, ReservedByHolder, SlotRoles, Filled
<1>5. Published'
  BY <1>1 DEF Inv, Published
<1>6. ReadsAreLive'
  BY <1>1, <1>2 DEF Inv, ReadsAreLive
<1>7. CopyFaithful'
  <2>1. ASSUME NEW u \in Threads, pc'[u] = "copy"
        PROVE  /\ \E c \in Configs : snap'[act'[u]] = Image(c)
               /\ \A f \in Fields : out'[u][f] \in {Unset, snap'[act'[u]][f]}
               /\ wlock' = u => act'[u] = active'
    <3>1. pc[u] = "copy"
      BY <1>2, <2>1
    <3> QED
      BY <1>1, <3>1 DEF Inv, CopyFaithful
  <2>2. ASSUME NEW u \in Threads, pc'[u] # "copy" PROVE out'[u] = Image(Unset)
    BY <1>1, <1>2, <2>2 DEF Inv, CopyFaithful
  <2> QED
    BY <2>1, <2>2 DEF CopyFaithful
<1> QED
  BY <1>3, <1>4, <1>5, <1>6, <1>7 DEF InvRest

LEMMA WriteStepKeepsRest ==
  ASSUME Inv, NEW t \in Threads, WriteStep(t)
  PROVE  InvRest'
<1> USE ThreadsAssumption, ConfigsAssumption, ReaderMaxAssumption
    DEF Inv, InvRest, TypeOK, Lock, ReservedByHolder, SlotRoles, Filled, Published,
        ReadsAreLive, CopyFaithful
<1>1. CASE LoadFails(t)
  BY <1>1 DEF LoadFails, Unlock
<1>2. ASSUME NEW c \in Configs, LoadSame(t, c) PROVE InvRest'
  BY <1>2 DEF LoadSame, Unlock
<1>3. ASSUME NEW c \in Configs, LoadNew(t, c) PROVE InvRest'
  BY <1>3 DEF LoadNew, BeginPublish
<1>4. CASE Reserve(t)
  BY SMTT(30), <1>4 DEF Reserve
<1>5. CASE MarkOdd(t)
  BY <1>5 DEF MarkOdd
<1>6. ASSUME NEW f \in Fields, Fill(t, f) PROVE InvRest'
  \* The slot being filled is pinned by nobody and is not the active one.
  <2>1. \A u \in Threads : pc[u] = "copy" => act[u] # nxt
    BY <1>6 DEF Fill, PinsCounted, PinnedAt
  <2> QED
    BY SMTT(30), <1>6, <2>1 DEF Fill
<1>7. CASE Flip(t)
  <2>1. wlock = t /\ snap[nxt] = Image(cfg) /\ cfg \in Configs
    BY <1>7 DEF Flip
  <2>2. nxt = 1 - active /\ active' = nxt /\ snap' = snap /\ cfg' = cfg
    BY <1>7, <2>1 DEF Flip
  <2>3. Lock' /\ ReservedByHolder' /\ SlotRoles' /\ Filled' /\ ReadsAreLive' /\ CopyFaithful'
    BY <1>7, <2>1, <2>2 DEF Flip
  <2>4. Published'
    BY <1>7, <2>1, <2>2 DEF Flip
  <2> QED
    BY <2>3, <2>4
<1>8. CASE MarkEven(t)
  BY <1>8 DEF MarkEven
<1>9. CASE Release(t)
  BY SMTT(30), <1>9 DEF Release
<1>10. CASE GoLive(t)
  <2>1. wlock = t /\ snap[active] = Image(cfg) /\ cfg \in Configs /\ token = cfg
    BY <1>10 DEF GoLive
  <2>2. Lock' /\ ReservedByHolder' /\ SlotRoles' /\ Filled' /\ ReadsAreLive' /\ CopyFaithful'
    BY <1>10, <2>1 DEF GoLive
  <2>3. Published'
    BY <1>10, <2>1 DEF GoLive
  <2> QED
    BY <2>2, <2>3
<1>11. CASE Reapply(t)
  BY SMTT(30), <1>11 DEF Reapply, BeginRead
<1>12. CASE EndReload(t)
  BY <1>12, EndReloadKeepsRest
<1> HIDE DEF Inv, InvRest, TypeOK, Lock, ReservedByHolder, SlotRoles, Filled, Published,
             ReadsAreLive, CopyFaithful
<1> QED
  BY <1>1, <1>2, <1>3, <1>4, <1>5, <1>6, <1>7, <1>8, <1>9, <1>10, <1>11, <1>12
  DEF WriteStep

-----------------------------------------------------------------------------
(* Types.                                                                  *)

LEMMA TypeStep ==
  ASSUME Inv, NEW t \in Threads, Begin(t) \/ ReadStep(t) \/ WriteStep(t)
  PROVE  TypeOK'
<1> TypeOK
  BY DEF Inv
<1> USE DEF TypeOK
<1>1. CASE Call(t)
  BY <1>1, WantsAssumption DEF Call, BeginRead
<1>2. CASE Register(t)
  BY <1>2, MaxReappliersAssumption DEF Register
<1>3. CASE LockForReload(t)
  BY <1>3 DEF LockForReload
<1>4. ASSUME NEW c \in Configs, InitSnapshot(t, c) PROVE TypeOK'
  BY <1>4, MaxReappliersAssumption DEF InitSnapshot, BeginPublish
<1>5. CASE LoadSeq(t)
  BY <1>5 DEF LoadSeq
<1>6. CASE LoadActive(t)
  BY <1>6 DEF LoadActive
<1>7. CASE LoadState(t)
  BY <1>7 DEF LoadState
<1>8. CASE Bounce(t)
  BY <1>8 DEF Bounce
<1>9. CASE Saturated(t)
  BY <1>9, SeqModAssumption, ReaderMaxAssumption DEF Saturated, EndRead
<1>10. CASE Pin(t)
  BY <1>10, ReaderMaxAssumption DEF Pin
<1>11. CASE PinFails(t)
  BY <1>11 DEF PinFails
<1>12. CASE CheckSeq(t)
  BY <1>12 DEF CheckSeq
<1>13. CASE CheckActive(t)
  BY <1>13 DEF CheckActive
<1>14. CASE Retry(t)
  <2>1. pc[t] \in PinnedPcs /\ PinsCounted
    BY <1>14 DEF Retry, Inv
  <2>2. act[t] \in Slots /\ state[act[t]] - 1 \in 0..ReaderMax
    BY <2>1, PinHolds
  <2>3. state' \in [Slots -> 0..Reserved]
    BY <1>14, <2>2, ReaderMaxAssumption DEF Retry, Unpin
  <2> QED
    BY <1>14, <2>3 DEF Retry, Unpin
<1>15. CASE Return(t)
  <2>1. pc[t] \in PinnedPcs /\ PinsCounted
    BY <1>15 DEF Return, Inv
  <2>2. act[t] \in Slots /\ state[act[t]] - 1 \in 0..ReaderMax
    BY <2>1, PinHolds
  <2>3. state' \in [Slots -> 0..Reserved]
    BY <1>15, <2>2, ReaderMaxAssumption DEF Return, Unpin
  <2> QED
    BY <1>15, <2>3, SeqModAssumption, ReaderMaxAssumption DEF Return, Unpin, EndRead
<1>16. ASSUME NEW f \in Fields, Copy(t, f) PROVE TypeOK'
  BY <1>16 DEF Copy
<1>17. CASE LoadFails(t)
  BY <1>17, MaxReappliersAssumption DEF LoadFails, Unlock
<1>18. ASSUME NEW c \in Configs, LoadSame(t, c) PROVE TypeOK'
  BY <1>18, MaxReappliersAssumption DEF LoadSame, Unlock
<1>19. ASSUME NEW c \in Configs, LoadNew(t, c) PROVE TypeOK'
  BY <1>19 DEF LoadNew, BeginPublish
<1>20. CASE Reserve(t)
  BY <1>20, ReaderMaxAssumption DEF Reserve
<1>21. CASE MarkOdd(t)
  BY <1>21, SeqModAssumption DEF MarkOdd
<1>22. ASSUME NEW f \in Fields, Fill(t, f) PROVE TypeOK'
  BY <1>22 DEF Fill, Inv, Lock, Filled
<1>23. CASE Flip(t)
  BY <1>23 DEF Flip
<1>24. CASE MarkEven(t)
  BY <1>24, SeqModAssumption DEF MarkEven
<1>25. CASE Release(t)
  BY <1>25, ReaderMaxAssumption DEF Release
<1>26. CASE GoLive(t)
  BY <1>26 DEF GoLive
<1>27. CASE Reapply(t)
  BY <1>27, WantsAssumption, MaxReappliersAssumption DEF Reapply, BeginRead
<1>28. CASE EndReload(t)
  BY <1>28, MaxReappliersAssumption DEF EndReload, Unlock
<1> QED
  BY <1>1, <1>2, <1>3, <1>4, <1>5, <1>6, <1>7, <1>8, <1>9, <1>10, <1>11, <1>12, <1>13, <1>14,
     <1>15, <1>16, <1>17, <1>18, <1>19, <1>20, <1>21, <1>22, <1>23, <1>24, <1>25, <1>26, <1>27, <1>28
  DEF Begin, ReadStep, WriteStep

LEMMA PinsStep ==
  ASSUME Inv, NEW t \in Threads, Begin(t) \/ ReadStep(t) \/ WriteStep(t)
  PROVE  PinsCounted'
<1> TypeOK /\ PinsCounted
  BY DEF Inv
<1>1. CASE Begin(t)
  BY <1>1, PinsKept
  DEF TypeOK, Begin, Call, BeginRead, Register, LockForReload, InitSnapshot, BeginPublish
<1>2. CASE LoadSeq(t) \/ LoadActive(t) \/ LoadState(t) \/ Bounce(t) \/ PinFails(t)
  BY <1>2, PinsKept DEF TypeOK, LoadSeq, LoadActive, LoadState, Bounce, PinFails
<1>3. CASE Saturated(t)
  BY <1>3, PinsKept DEF TypeOK, Saturated, EndRead
<1>4. CASE Pin(t)
  BY <1>4, PinStep
<1>5. CASE CheckSeq(t) \/ CheckActive(t)
  BY <1>5, PinsKept DEF TypeOK, CheckSeq, CheckActive
<1>6. CASE Retry(t)
  BY <1>6, UnpinStep DEF TypeOK, Retry
<1>7. CASE Return(t)
  BY <1>7, UnpinStep DEF TypeOK, Return, EndRead
<1>8. ASSUME NEW f \in Fields, Copy(t, f) PROVE PinsCounted'
  BY <1>8, PinsKept DEF TypeOK, Copy
<1>9. CASE LoadFails(t) \/ EndReload(t)
  BY <1>9, PinsKept DEF TypeOK, LoadFails, EndReload, Unlock
<1>10. ASSUME NEW c \in Configs, LoadSame(t, c) \/ LoadNew(t, c) PROVE PinsCounted'
  BY <1>10, PinsKept DEF TypeOK, LoadSame, LoadNew, Unlock, BeginPublish
<1>11. CASE Reserve(t)
  BY <1>11, ReserveStep
<1>12. CASE Release(t)
  BY <1>12, ReleaseStep DEF Inv, Release, Lock, SlotRoles, ReservedByHolder, TypeOK
<1>13. ASSUME NEW f \in Fields, Fill(t, f) PROVE PinsCounted'
  BY <1>13, PinsKept DEF TypeOK, Fill
<1>14. CASE MarkOdd(t) \/ Flip(t) \/ MarkEven(t) \/ GoLive(t)
  BY <1>14, PinsKept DEF TypeOK, MarkOdd, Flip, MarkEven, GoLive
<1>15. CASE Reapply(t)
  BY <1>15, PinsKept DEF TypeOK, Reapply, BeginRead
<1> QED
  BY <1>1, <1>2, <1>3, <1>4, <1>5, <1>6, <1>7, <1>8, <1>9, <1>10, <1>11, <1>12, <1>13,
     <1>14, <1>15
  DEF ReadStep, WriteStep

-----------------------------------------------------------------------------

LEMMA InvNext == Inv /\ [Next]_vars => Inv'
<1> SUFFICES ASSUME Inv, [Next]_vars PROVE Inv'
  OBVIOUS
<1>1. ASSUME NEW t \in Threads, Begin(t) \/ ReadStep(t) \/ WriteStep(t) PROVE Inv'
  <2>1. TypeOK' /\ PinsCounted'
    BY <1>1, TypeStep, PinsStep
  <2>2. InvRest'
    BY <1>1, BeginKeepsRest, ReadStepKeepsRest, WriteStepKeepsRest
  <2> QED
    BY <2>1, <2>2 DEF Inv, InvRest
<1>2. CASE UNCHANGED vars
  BY <1>2
  DEF vars, Inv, TypeOK, PinsCounted, PinnedAt, Lock, ReservedByHolder, SlotRoles, Filled,
      Published, ReadsAreLive, CopyFaithful
<1> QED
  BY <1>1, <1>2 DEF Next

LEMMA Invariance == Spec => []Inv
BY InvInit, InvNext, PTL DEF Spec

\* Every variable keeps the kind of value the code gives it.
THEOREM TypeCorrect == Spec => []TypeOK
<1>1. Inv => TypeOK
  BY DEF Inv
<1> QED
  BY <1>1, Invariance, PTL

\* The admission word of a slot is exactly its number of pins, or reserved and unpinned.
THEOREM PinsAreCounted == Spec => []PinsCounted
<1>1. Inv => PinsCounted
  BY DEF Inv
<1> QED
  BY <1>1, Invariance, PTL

\* No reader touches the slot a writer fills: no data race on g_snap.
THEOREM RaceFree == Spec => []NoRace
<1>1. Inv => NoRace
  <2> SUFFICES ASSUME Inv, NEW t \in Threads, NEW u \in Threads,
                      pc[t] = "fill", pc[u] = "copy"
               PROVE  act[u] # nxt
    BY DEF NoRace
  <2>1. nxt \in Slots /\ state[nxt] = Reserved
    BY DEF Inv, TypeOK, Lock, ReservedByHolder
  <2> QED
    BY <2>1 DEF Inv, PinsCounted, PinnedAt
<1> QED
  BY <1>1, Invariance, PTL

\* A reader never mixes two configurations, whatever is published meanwhile.
THEOREM ReadsAreWhole == Spec => []NoTornRead
<1>1. Inv => NoTornRead
  <2> SUFFICES ASSUME Inv, NEW t \in Threads, pc[t] = "copy"
               PROVE  \E c \in Configs : \A f \in Fields \ todo[t] : out[t][f] \in {c, Unset}
    BY DEF NoTornRead
  <2>1. PICK c \in Configs : snap[act[t]] = Image(c)
    BY DEF Inv, CopyFaithful
  <2>2. \A f \in Fields : out[t][f] \in {c, Unset}
    BY <2>1 DEF Inv, CopyFaithful
  <2> QED
    BY <2>2
<1> QED
  BY <1>1, Invariance, PTL

\* The no-op guard of a reload never skips a content that is not the published one.
THEOREM NoopGuardIsSound == Spec => []TokenCurrent
<1>1. Inv => TokenCurrent
  BY DEF Inv, TokenCurrent, Published, Lock
<1> QED
  BY <1>1, Invariance, PTL

\* A re-applier reads the configuration whose publication triggered it.
THEOREM ReappliersSeeNew == Spec => []ReapplierSeesNew
<1>1. Inv => ReapplierSeesNew
  BY DEF Inv, ReapplierSeesNew, Published, CopyFaithful
<1> QED
  BY <1>1, Invariance, PTL

-----------------------------------------------------------------------------
(* Saturation needs more threads than pins.                                *)

LEMMA RoomForOne ==
  ASSUME Inv, Cardinality(Threads) <= ReaderMax,
         NEW t \in Threads, pc[t] \notin PinnedPcs, NEW s \in Slots
  PROVE  state[s] # ReaderMax
<1>1. PinnedAt(s) \subseteq Threads \ {t}
  BY DEF PinnedAt
<1>2. Cardinality(Threads \ {t}) = Cardinality(Threads) - 1 /\ IsFiniteSet(Threads \ {t})
  BY ThreadsAssumption, FS_RemoveElement
<1>3. Cardinality(PinnedAt(s)) <= Cardinality(Threads \ {t})
  BY <1>1, <1>2, FS_Subset
<1>4. Cardinality(PinnedAt(s)) \in Nat /\ Cardinality(Threads) \in Nat
  BY PinnedFinite, ThreadsAssumption, FS_CardinalityType
<1> QED
  BY <1>2, <1>3, <1>4, ReaderMaxAssumption DEF Inv, PinsCounted

\* With at most READER_MAX threads, no read fails for lack of a pin.
THEOREM NoCallSaturates == Spec => []NeverSaturated
<1>1. Init => NeverSaturated
  BY DEF Init, NeverSaturated
<1>2. Inv /\ NeverSaturated /\ [Next]_vars => NeverSaturated'
  <2> SUFFICES ASSUME Inv, NeverSaturated, [Next]_vars, Cardinality(Threads) <= ReaderMax,
                      NEW u \in Threads, pc'[u] = "admit"
               PROVE  st'[u] # ReaderMax
    BY DEF NeverSaturated
  <2> TypeOK
    BY DEF Inv
  <2>0. pc[u] = "admit" => st[u] # ReaderMax
    BY DEF NeverSaturated
  <2>1. CASE pc[u] = "admit" /\ st'[u] = st[u]
    BY <2>0, <2>1
  <2>2. CASE LoadState(u) \/ PinFails(u)
    <3>1. pc[u] \notin PinnedPcs /\ act[u] \in Slots /\ st'[u] = state[act[u]]
      BY <2>2 DEF LoadState, PinFails, TypeOK
    <3> QED
      BY <3>1, RoomForOne
  <2>3. ASSUME NEW t \in Threads, Begin(t)
        PROVE  pc[u] = "admit" /\ st'[u] = st[u]
    BY <2>3
    DEF TypeOK, Begin, Call, BeginRead, Register, LockForReload, InitSnapshot, BeginPublish
  <2>4. ASSUME NEW t \in Threads, ReadStep(t)
        PROVE  (pc[u] = "admit" /\ st'[u] = st[u]) \/ LoadState(u) \/ PinFails(u)
    <3>1. CASE LoadSeq(t) \/ LoadActive(t) \/ Bounce(t) \/ Pin(t) \/ CheckSeq(t)
      BY <3>1 DEF TypeOK, LoadSeq, LoadActive, Bounce, Pin, CheckSeq
    <3>2. CASE CheckActive(t) \/ Retry(t)
      BY <3>2 DEF TypeOK, CheckActive, Retry
    <3>3. CASE Saturated(t) \/ Return(t)
      BY <3>3 DEF TypeOK, Saturated, Return, EndRead
    <3>4. ASSUME NEW f \in Fields, Copy(t, f) PROVE pc[u] = "admit" /\ st'[u] = st[u]
      BY <3>4 DEF Copy
    <3>5. CASE LoadState(t)
      BY <3>5 DEF TypeOK, LoadState
    <3>6. CASE PinFails(t)
      BY <3>6 DEF TypeOK, PinFails
    <3> QED
      BY <2>4, <3>1, <3>2, <3>3, <3>4, <3>5, <3>6 DEF ReadStep
  <2>5. ASSUME NEW t \in Threads, WriteStep(t)
        PROVE  pc[u] = "admit" /\ st'[u] = st[u]
    <3>1. CASE LoadFails(t) \/ EndReload(t) \/ (\E c \in Configs : LoadSame(t, c) \/ LoadNew(t, c))
      BY <3>1 DEF TypeOK, LoadFails, EndReload, LoadSame, LoadNew, Unlock, BeginPublish
    <3>2. CASE Reserve(t) \/ MarkOdd(t) \/ (\E f \in Fields : Fill(t, f)) \/ Flip(t)
      BY <3>2 DEF TypeOK, Reserve, MarkOdd, Fill, Flip
    <3>3. CASE MarkEven(t) \/ Release(t) \/ GoLive(t) \/ Reapply(t)
      BY <3>3 DEF TypeOK, MarkEven, Release, GoLive, Reapply, BeginRead
    <3> QED
      BY <2>5, <3>1, <3>2, <3>3 DEF WriteStep
  <2>6. CASE UNCHANGED vars
    BY <2>6, <2>0 DEF vars
  <2> QED
    BY <2>1, <2>2, <2>3, <2>4, <2>5, <2>6 DEF Next
<1> QED
  BY <1>1, <1>2, Invariance, PTL DEF Spec

-----------------------------------------------------------------------------
(* The refinement of AtomicConfig.                                         *)

LEMMA RefinesInit == Init => Abstract!Init
BY DEF Init, Abstract!Init, Abstract!Blank, Abstract!Image, phaseBar, valBar

LEMMA RefinesBegin ==
  ASSUME Inv, NEW t \in Threads, Begin(t)
  PROVE  [Abstract!Next]_(Abstract!vars)
<1> TypeOK
  BY DEF Inv
<1> USE DEF TypeOK, phaseBar, valBar
<1>1. CASE Call(t)
  <2>1. Abstract!Call(t)
    BY <1>1 DEF Call, BeginRead, Abstract!Call
  <2> QED
    BY <2>1 DEF Abstract!Next
<1>2. CASE Register(t)
  BY <1>2 DEF Register, Abstract!vars
<1>3. CASE LockForReload(t)
  BY <1>3 DEF LockForReload, Abstract!vars
<1>4. ASSUME NEW c \in Configs, InitSnapshot(t, c) PROVE UNCHANGED Abstract!vars
  BY <1>4 DEF InitSnapshot, BeginPublish, Abstract!vars
<1> QED
  BY <1>1, <1>2, <1>3, <1>4 DEF Begin

LEMMA RefinesRead ==
  ASSUME Inv, NEW t \in Threads, ReadStep(t)
  PROVE  [Abstract!Next]_(Abstract!vars)
<1> TypeOK /\ ReadsAreLive /\ CopyFaithful
  BY DEF Inv
<1> USE DEF TypeOK, phaseBar, valBar
<1>1. CASE LoadSeq(t) \/ LoadActive(t) \/ LoadState(t)
  BY <1>1 DEF LoadSeq, LoadActive, LoadState, Abstract!vars
<1>2. CASE Bounce(t) \/ PinFails(t) \/ CheckSeq(t)
  BY <1>2 DEF Bounce, PinFails, CheckSeq, Abstract!vars
<1>3. CASE Pin(t)
  BY <1>3 DEF Pin, Abstract!vars
<1>4. CASE Retry(t)
  BY <1>4 DEF Retry, Unpin, Abstract!vars
<1>5. CASE Saturated(t)
  <2>1. Abstract!GiveUp(t)
    BY <1>5 DEF Saturated, EndRead, CopyFaithful, Abstract!GiveUp, Abstract!Done,
                Abstract!Blank, Abstract!Image
  <2> QED
    BY <2>1 DEF Abstract!Next
<1>6. CASE CheckActive(t) /\ active # act[t]
  BY <1>6 DEF CheckActive, Abstract!vars
<1>7. CASE CheckActive(t) /\ active = act[t]
  \* The read takes effect here.
  <2>1. Abstract!Take(t)
    BY <1>7 DEF CheckActive, Abstract!Take
  <2> QED
    BY <2>1 DEF Abstract!Next
<1>8. ASSUME NEW f \in Fields, Copy(t, f) PROVE Abstract!Next
  <2>1. Abstract!Deliver(t)
    BY <1>8 DEF Copy, Abstract!Deliver
  <2> QED
    BY <2>1 DEF Abstract!Next
<1>9. CASE Return(t)
  <2>1. Abstract!Return(t)
    BY <1>9 DEF Return, Unpin, EndRead, Abstract!Return, Abstract!Done, Abstract!Blank,
                Abstract!Image
  <2> QED
    BY <2>1 DEF Abstract!Next
<1> QED
  BY <1>1, <1>2, <1>3, <1>4, <1>5, <1>6, <1>7, <1>8, <1>9 DEF ReadStep

LEMMA RefinesWrite ==
  ASSUME Inv, NEW t \in Threads, WriteStep(t)
  PROVE  [Abstract!Next]_(Abstract!vars)
<1> TypeOK /\ Lock
  BY DEF Inv
<1> USE DEF TypeOK, phaseBar, valBar
<1>1. CASE LoadFails(t) \/ EndReload(t)
  BY <1>1 DEF LoadFails, EndReload, Unlock, Abstract!vars
<1>2. ASSUME NEW c \in Configs, LoadSame(t, c) \/ LoadNew(t, c)
      PROVE  UNCHANGED Abstract!vars
  BY <1>2 DEF LoadSame, LoadNew, Unlock, BeginPublish, Abstract!vars
<1>3. CASE Reserve(t) \/ MarkOdd(t) \/ MarkEven(t) \/ Release(t)
  BY <1>3 DEF Reserve, MarkOdd, MarkEven, Release, Abstract!vars
<1>4. ASSUME NEW f \in Fields, Fill(t, f) PROVE UNCHANGED Abstract!vars
  \* The inactive slot changes, and nobody is copying out of it.
  <2>1. nxt # active /\ nxt \in Slots
    BY <1>4 DEF Fill, Inv, SlotRoles, Lock
  <2>2. \A u \in Threads : pc[u] = "copy" => act[u] # nxt
    BY <1>4 DEF Fill, Inv, PinsCounted, PinnedAt, ReservedByHolder, Lock
  <2>3. snap'[active] = snap[active]
        /\ \A u \in Threads : pc[u] = "copy" => snap'[act[u]] = snap[act[u]]
    BY <1>4, <2>1, <2>2 DEF Fill
  <2> QED
    BY <1>4, <2>3 DEF Fill, Abstract!vars
<1>5. CASE Flip(t)
  \* The register changes here.
  <2>1. snap[nxt] = Image(cfg) /\ cfg \in Configs
    BY <1>5 DEF Flip, Inv, Filled, Lock
  <2>2. Abstract!Publish(cfg)
    BY <1>5, <2>1 DEF Flip, Abstract!Publish, Abstract!Image
  <2> QED
    BY <2>1, <2>2 DEF Abstract!Next
<1>6. CASE GoLive(t)
  <2>1. Abstract!GoLive
    BY <1>6 DEF GoLive, Abstract!GoLive
  <2> QED
    BY <2>1 DEF Abstract!Next
<1>7. CASE Reapply(t)
  <2>1. Abstract!Call(t)
    BY <1>7 DEF Reapply, BeginRead, Abstract!Call
  <2> QED
    BY <2>1 DEF Abstract!Next
<1> QED
  BY <1>1, <1>2, <1>3, <1>4, <1>5, <1>6, <1>7 DEF WriteStep

\* The double buffer behaves as one register: every read takes one configuration that was
\* current at an instant of the call, and a publication is seen whole or not at all.
THEOREM Refinement == Spec => ReadsAreAtomic
<1>1. Inv /\ [Next]_vars => [Abstract!Next]_(Abstract!vars)
  <2> SUFFICES ASSUME Inv, [Next]_vars PROVE [Abstract!Next]_(Abstract!vars)
    OBVIOUS
  <2>1. ASSUME NEW t \in Threads, Begin(t) \/ ReadStep(t) \/ WriteStep(t)
        PROVE  [Abstract!Next]_(Abstract!vars)
    BY <2>1, RefinesBegin, RefinesRead, RefinesWrite
  <2>2. CASE UNCHANGED vars
    BY <2>2 DEF vars, Abstract!vars, phaseBar, valBar
  <2> QED
    BY <2>1, <2>2 DEF Next
<1> QED
  BY <1>1, RefinesInit, Invariance, PTL DEF Spec, ReadsAreAtomic, Abstract!Spec
=============================================================================
