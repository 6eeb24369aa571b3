--------------------------- MODULE ConfigSnapshot ---------------------------
(***************************************************************************)
(* The live configuration of src/modules/config/config.c: a two-slot       *)
(* double buffer.  A publisher, serialized by g_snap_wlock, fills the      *)
(* inactive slot and flips the active index; readers pin the active slot   *)
(* through its admission word, check that no publication raced them, copy, *)
(* and unpin.                                                              *)
(*                                                                         *)
(* One action is one atomic access of the code (or a run of accesses to    *)
(* state only the lock holder touches).  The copies in and out of a slot   *)
(* are one action per field, in any order, so that a reader and a writer   *)
(* that shared a slot would be seen to.                                    *)
(***************************************************************************)
EXTENDS Integers, FiniteSets

CONSTANTS
    Threads,      \* threads of the server: each may read, reload or register
    Fields,       \* fields of config_t
    Configs,      \* contents a loaded configuration can have
    Wants,        \* field sets a call copies: all (get) or one (read_field)
    Unset,        \* zero bytes: static g_snap and a calloc'd output
    NoToken,      \* g_snap_token = 0
    NoThread,     \* g_snap_wlock is free
    ReaderMax,    \* CONFIG_SNAPSHOT_READER_MAX
    SeqMod,       \* the unsigned g_snap_seq wraps at this value
    MaxReappliers \* CONFIG_MAX_REAPPLIERS

ASSUME ThreadsAssumption == IsFiniteSet(Threads) /\ NoThread \notin Threads
ASSUME ConfigsAssumption == Unset \notin Configs /\ NoToken \notin Configs
ASSUME WantsAssumption == Wants \subseteq (SUBSET Fields)
ASSUME ReaderMaxAssumption == ReaderMax \in Nat \ {0}
ASSUME SeqModAssumption == SeqMod \in Nat \ {0} /\ SeqMod % 2 = 0
ASSUME MaxReappliersAssumption == MaxReappliers \in Nat

VARIABLES
    seq,       \* g_snap_seq
    active,    \* g_snap_active
    state,     \* g_snap_state: slot -> admission word
    snap,      \* g_snap: slot -> field -> content
    token,     \* g_snap_token; the hash is taken to tell contents apart
    inited,    \* g_snap_inited
    wlock,     \* holder of g_snap_wlock
    reappliers,\* g_reapplier_count
    pc,        \* thread -> where it is
    s0, act, st, todo, out,   \* locals of a read: first seq, slot seen, admission
                              \* word seen, fields left to copy, caller's buffer
    nxt, cfg, wtodo, left     \* locals of the lock holder: slot and content being
                              \* published, fields left to fill, re-appliers left

shared == <<seq, active, state, snap, token, inited, wlock, reappliers>>
readerLocals == <<s0, act, st, todo, out>>
writerLocals == <<nxt, cfg, wtodo, left>>
vars == <<shared, pc, readerLocals, writerLocals>>

Slots == {0, 1}
Reserved == ReaderMax + 1          \* the high bit: one above READER_MAX
Image(c) == [f \in Fields |-> c]   \* a slot that holds exactly one configuration
Values == Configs \cup {Unset}

LoadingPcs  == {"seq", "active", "state", "admit"}
PinnedPcs   == {"seq1", "active1", "retry", "copy"}
ReadPcs     == LoadingPcs \cup PinnedPcs
FillingPcs  == {"odd", "fill", "even", "release"}
WriterPcs   == {"load", "reserve", "live", "reapply"} \cup FillingPcs

Init ==
    /\ seq = 0
    /\ active = 0
    /\ state = [s \in Slots |-> 0]
    /\ snap = [s \in Slots |-> Image(Unset)]
    /\ token = NoToken
    /\ inited = FALSE
    /\ wlock = NoThread
    /\ reappliers = 0
    /\ pc = [t \in Threads |-> "idle"]
    /\ s0 = [t \in Threads |-> 0]
    /\ act = [t \in Threads |-> 0]
    /\ st = [t \in Threads |-> 0]
    /\ todo = [t \in Threads |-> {}]
    /\ out = [t \in Threads |-> Image(Unset)]
    /\ nxt = 0
    /\ cfg = NoToken
    /\ wtodo = {}
    /\ left = 0

Goto(t, l) == pc' = [pc EXCEPT ![t] = l]

-----------------------------------------------------------------------------
(* Readers: config_snapshot_get and config_snapshot_read_field.            *)

BeginRead(t) ==
    /\ inited              \* otherwise the call returns -1 at once
    /\ Goto(t, "seq")
    /\ \E w \in Wants : todo' = [todo EXCEPT ![t] = w]
    /\ UNCHANGED <<shared, s0, act, st, out, nxt, cfg, wtodo>>

\* Any thread may call an accessor ...
Call(t) == pc[t] = "idle" /\ BeginRead(t) /\ UNCHANGED left

\* An odd sequence number is a publication in progress: the reader spins.
LoadSeq(t) ==
    /\ pc[t] = "seq"
    /\ seq % 2 = 0
    /\ s0' = [s0 EXCEPT ![t] = seq]
    /\ Goto(t, "active")
    /\ UNCHANGED <<shared, act, st, todo, out, writerLocals>>

LoadActive(t) ==
    /\ pc[t] = "active"
    /\ act' = [act EXCEPT ![t] = active]
    /\ Goto(t, "state")
    /\ UNCHANGED <<shared, s0, st, todo, out, writerLocals>>

LoadState(t) ==
    /\ pc[t] = "state"
    /\ st' = [st EXCEPT ![t] = state[act[t]]]
    /\ Goto(t, "admit")
    /\ UNCHANGED <<shared, s0, act, todo, out, writerLocals>>

\* Back to the caller, or to the reload whose re-appliers made this read.
\* The locals are dead from here on: give them one value.
EndRead(t) ==
    /\ Goto(t, IF wlock = t THEN "reapply" ELSE "idle")
    /\ s0' = [s0 EXCEPT ![t] = 0]
    /\ act' = [act EXCEPT ![t] = 0]
    /\ st' = [st EXCEPT ![t] = 0]
    /\ todo' = [todo EXCEPT ![t] = {}]
    /\ out' = [out EXCEPT ![t] = Image(Unset)]

\* Mutant: an attempt that never pinned unpins all the same.
BounceUnpins(t) ==
    /\ pc[t] = "admit"
    /\ st[t] = Reserved
    /\ state' = [state EXCEPT ![act[t]] = @ - 1]
    /\ Goto(t, "seq")
    /\ UNCHANGED <<seq, active, snap, token, inited, wlock, reappliers,
                   readerLocals, writerLocals>>

\* The slot is reserved for its writer: start over.
Bounce(t) ==
    /\ pc[t] = "admit"
    /\ st[t] = Reserved
    /\ Goto(t, "seq")
    /\ UNCHANGED <<shared, readerLocals, writerLocals>>

\* No room for another pin: return -1, output and admission word unchanged.
Saturated(t) ==
    /\ pc[t] = "admit"
    /\ st[t] = ReaderMax
    /\ EndRead(t)
    /\ UNCHANGED <<shared, writerLocals>>

Pin(t) ==
    /\ pc[t] = "admit"
    /\ st[t] < ReaderMax
    /\ state[act[t]] = st[t]
    /\ state' = [state EXCEPT ![act[t]] = st[t] + 1]
    /\ Goto(t, "seq1")
    /\ UNCHANGED <<seq, active, snap, token, inited, wlock, reappliers,
                   readerLocals, writerLocals>>

\* A failed compare-and-swap loads the word it found.
PinFails(t) ==
    /\ pc[t] = "admit"
    /\ st[t] < ReaderMax
    /\ state[act[t]] # st[t]
    /\ st' = [st EXCEPT ![t] = state[act[t]]]
    /\ UNCHANGED <<shared, pc, s0, act, todo, out, writerLocals>>

\* s1: a changed sequence number dooms the attempt whatever act1 is.
CheckSeq(t) ==
    /\ pc[t] = "seq1"
    /\ Goto(t, IF seq = s0[t] THEN "active1" ELSE "retry")
    /\ UNCHANGED <<shared, readerLocals, writerLocals>>

\* Mutant: act1 is not compared.
CheckActiveNot(t) ==
    /\ pc[t] = "active1"
    /\ Goto(t, "copy")
    /\ UNCHANGED <<shared, readerLocals, writerLocals>>

\* Mutant: the pin is given back before the copy.
CheckActiveUnpins(t) ==
    /\ pc[t] = "active1"
    /\ IF active = act[t]
         THEN Goto(t, "copy") /\ state' = [state EXCEPT ![act[t]] = @ - 1]
         ELSE Goto(t, "retry") /\ UNCHANGED state
    /\ UNCHANGED <<seq, active, snap, token, inited, wlock, reappliers,
                   readerLocals, writerLocals>>

\* act1.
CheckActive(t) ==
    /\ pc[t] = "active1"
    /\ Goto(t, IF active = act[t] THEN "copy" ELSE "retry")
    /\ UNCHANGED <<shared, readerLocals, writerLocals>>

\* atomic_fetch_sub on the admission word of the pinned slot.
Unpin(t) ==
    /\ state' = [state EXCEPT ![act[t]] = @ - 1]
    /\ UNCHANGED <<seq, active, snap, token, inited, wlock, reappliers, writerLocals>>

\* Mutant: the failed attempt keeps its pin.
RetryKeepsPin(t) ==
    /\ pc[t] = "retry"
    /\ Goto(t, "seq")
    /\ UNCHANGED <<shared, readerLocals, writerLocals>>

\* Mutant: the next attempt compares with the old sequence number.
RetryKeepsSeq(t) ==
    /\ pc[t] = "retry"
    /\ Unpin(t)
    /\ Goto(t, "active")
    /\ UNCHANGED readerLocals

Retry(t) ==
    /\ pc[t] = "retry"
    /\ Unpin(t)
    /\ Goto(t, "seq")
    /\ UNCHANGED readerLocals

Copy(t, f) ==
    /\ pc[t] = "copy"
    /\ f \in todo[t]
    /\ out' = [out EXCEPT ![t] = [@ EXCEPT ![f] = snap[act[t]][f]]]
    /\ todo' = [todo EXCEPT ![t] = @ \ {f}]
    /\ UNCHANGED <<shared, pc, s0, act, st, writerLocals>>

Return(t) ==
    /\ pc[t] = "copy"
    /\ todo[t] = {}
    /\ Unpin(t)
    /\ EndRead(t)

-----------------------------------------------------------------------------
(* The writer: config_snapshot_init, config_reload, config_snapshot_publish *)

\* config_reload_register_reapplier: silently ignored when the table is full.
Register(t) ==
    /\ pc[t] = "idle"
    /\ wlock = NoThread
    /\ reappliers < MaxReappliers
    /\ reappliers' = reappliers + 1
    /\ UNCHANGED <<seq, active, state, snap, token, inited, wlock, pc,
                   readerLocals, writerLocals>>

\* The entry of config_snapshot_publish: the slot that is not active.
BeginPublish(t, c) ==
    /\ nxt' = 1 - active
    /\ cfg' = c
    /\ wtodo' = Fields
    /\ Goto(t, "reserve")

\* config_snapshot_init: the token is cleared, no re-applier runs.
InitSnapshot(t, c) ==
    /\ pc[t] = "idle"
    /\ wlock = NoThread
    /\ wlock' = t
    /\ token' = NoToken
    /\ BeginPublish(t, c)
    /\ left' = 0
    /\ UNCHANGED <<seq, active, state, snap, inited, reappliers, readerLocals>>

\* config_reload, up to config_load_file.
LockForReload(t) ==
    /\ pc[t] = "idle"
    /\ wlock = NoThread
    /\ wlock' = t
    /\ Goto(t, "load")
    /\ UNCHANGED <<seq, active, state, snap, token, inited, reappliers,
                   readerLocals, writerLocals>>

Unlock(t) ==
    /\ wlock' = NoThread
    /\ Goto(t, "idle")
    /\ nxt' = 0 /\ cfg' = NoToken /\ wtodo' = {} /\ left' = 0

\* Either the file could not be loaded, or (Same) it holds what is published.
Same(c) == inited /\ token = c

LoadFails(t) ==
    /\ pc[t] = "load"
    /\ Unlock(t)
    /\ UNCHANGED <<seq, active, state, snap, token, inited, reappliers, readerLocals>>

LoadSame(t, c) ==
    /\ pc[t] = "load"
    /\ Same(c)
    /\ Unlock(t)
    /\ UNCHANGED <<seq, active, state, snap, token, inited, reappliers, readerLocals>>

LoadNew(t, c) ==
    /\ pc[t] = "load"
    /\ ~Same(c)
    /\ BeginPublish(t, c)
    /\ left' = reappliers
    /\ UNCHANGED <<shared, readerLocals>>

\* Mutant: the reservation does not wait for the pinned readers.
ReserveBlindly(t) ==
    /\ pc[t] = "reserve"
    /\ state' = [state EXCEPT ![nxt] = Reserved]
    /\ Goto(t, "odd")
    /\ UNCHANGED <<seq, active, snap, token, inited, wlock, reappliers,
                   readerLocals, writerLocals>>

\* The compare-and-swap 0 -> RESERVED; the writer spins while it fails.
Reserve(t) ==
    /\ pc[t] = "reserve"
    /\ state[nxt] = 0
    /\ state' = [state EXCEPT ![nxt] = Reserved]
    /\ Goto(t, "odd")
    /\ UNCHANGED <<seq, active, snap, token, inited, wlock, reappliers,
                   readerLocals, writerLocals>>

MarkOdd(t) ==
    /\ pc[t] = "odd"
    /\ seq' = (seq + 1) % SeqMod
    /\ Goto(t, "fill")
    /\ UNCHANGED <<active, state, snap, token, inited, wlock, reappliers,
                   readerLocals, writerLocals>>

Fill(t, f) ==
    /\ pc[t] = "fill"
    /\ f \in wtodo
    /\ snap' = [snap EXCEPT ![nxt] = [@ EXCEPT ![f] = cfg]]
    /\ wtodo' = wtodo \ {f}
    /\ UNCHANGED <<seq, active, state, token, inited, wlock, reappliers, pc,
                   readerLocals, nxt, cfg, left>>

\* Mutant: the index of the slot that was not filled.
FlipToOther(t) ==
    /\ pc[t] = "fill"
    /\ wtodo = {}
    /\ active' = 1 - nxt
    /\ Goto(t, "even")
    /\ UNCHANGED <<seq, state, snap, token, inited, wlock, reappliers,
                   readerLocals, writerLocals>>

Flip(t) ==
    /\ pc[t] = "fill"
    /\ wtodo = {}
    /\ active' = nxt
    /\ Goto(t, "even")
    /\ UNCHANGED <<seq, state, snap, token, inited, wlock, reappliers,
                   readerLocals, writerLocals>>

\* Mutant: the token of the first publication stays.
MarkEvenOldToken(t) ==
    /\ pc[t] = "even"
    /\ token' = IF token = NoToken THEN cfg ELSE token
    /\ seq' = (seq + 1) % SeqMod
    /\ Goto(t, "release")
    /\ UNCHANGED <<active, state, snap, inited, wlock, reappliers,
                   readerLocals, writerLocals>>

\* The token is read and written under the lock only.
MarkEven(t) ==
    /\ pc[t] = "even"
    /\ token' = cfg
    /\ seq' = (seq + 1) % SeqMod
    /\ Goto(t, "release")
    /\ UNCHANGED <<active, state, snap, inited, wlock, reappliers,
                   readerLocals, writerLocals>>

Release(t) ==
    /\ pc[t] = "release"
    /\ state' = [state EXCEPT ![nxt] = 0]
    /\ Goto(t, "live")
    /\ UNCHANGED <<seq, active, snap, token, inited, wlock, reappliers,
                   readerLocals, writerLocals>>

GoLive(t) ==
    /\ pc[t] = "live"
    /\ inited' = TRUE
    /\ Goto(t, "reapply")
    /\ UNCHANGED <<seq, active, state, snap, token, wlock, reappliers,
                   readerLocals, writerLocals>>

\* ... and so does each re-applier, on the reloading thread, under the lock.
Reapply(t) ==
    /\ pc[t] = "reapply"
    /\ left > 0
    /\ left' = left - 1
    /\ BeginRead(t)

EndReload(t) ==
    /\ pc[t] = "reapply"
    /\ left = 0
    /\ Unlock(t)
    /\ UNCHANGED <<seq, active, state, snap, token, inited, reappliers, readerLocals>>

-----------------------------------------------------------------------------

ReadStep(t) ==
    \/ LoadSeq(t) \/ LoadActive(t) \/ LoadState(t)
    \/ Bounce(t) \/ Saturated(t) \/ Pin(t) \/ PinFails(t)
    \/ CheckSeq(t) \/ CheckActive(t) \/ Retry(t)
    \/ (\E f \in Fields : Copy(t, f)) \/ Return(t)

WriteStep(t) ==
    \/ LoadFails(t) \/ \E c \in Configs : LoadSame(t, c) \/ LoadNew(t, c)
    \/ Reserve(t) \/ MarkOdd(t) \/ (\E f \in Fields : Fill(t, f)) \/ Flip(t)
    \/ MarkEven(t) \/ Release(t) \/ GoLive(t) \/ Reapply(t) \/ EndReload(t)

Begin(t) ==
    \/ Call(t) \/ Register(t) \/ LockForReload(t)
    \/ \E c \in Configs : InitSnapshot(t, c)

Next == \E t \in Threads : Begin(t) \/ ReadStep(t) \/ WriteStep(t)

Spec == Init /\ [][Next]_vars

(***************************************************************************)
(* Threads that are inside a call keep running (the OS schedules them; a   *)
(* spinning writer yields).  Nobody is obliged to start a call.            *)
(***************************************************************************)
Fairness == \A t \in Threads : WF_vars(ReadStep(t)) /\ WF_vars(WriteStep(t))

LiveSpec == Spec /\ Fairness

-----------------------------------------------------------------------------
(* What the protocol must keep.                                            *)

\* Every variable holds a value of the kind the code gives it.
TypeOK ==
    /\ seq \in 0..(SeqMod - 1)
    /\ active \in Slots
    /\ state \in [Slots -> 0..Reserved]
    /\ snap \in [Slots -> [Fields -> Values]]
    /\ token \in Configs \cup {NoToken}
    /\ inited \in BOOLEAN
    /\ wlock \in Threads \cup {NoThread}
    /\ reappliers \in 0..MaxReappliers
    /\ pc \in [Threads -> {"idle"} \cup ReadPcs \cup WriterPcs]
    /\ s0 \in [Threads -> 0..(SeqMod - 1)]
    /\ act \in [Threads -> Slots]
    /\ st \in [Threads -> 0..Reserved]
    /\ todo \in [Threads -> SUBSET Fields]
    /\ out \in [Threads -> [Fields -> Values]]
    /\ nxt \in Slots
    /\ cfg \in Configs \cup {NoToken}
    /\ wtodo \in SUBSET Fields
    /\ left \in 0..MaxReappliers

PinnedAt(s) == {t \in Threads : pc[t] \in PinnedPcs /\ act[t] = s}

(***************************************************************************)
(* The admission word is exact: unless a writer has reserved the slot, it  *)
(* counts the threads between their pin and their unpin, and a reserved    *)
(* slot has none ("one atomic admission word closes the delayed-pin        *)
(* TOCTOU").  A pin leaked or released twice, on any path through the      *)
(* retries, breaks it for good.                                            *)
(***************************************************************************)
PinsCounted ==
    \A s \in Slots : IF state[s] = Reserved
                        THEN PinnedAt(s) = {}
                        ELSE state[s] = Cardinality(PinnedAt(s))

(***************************************************************************)
(* No thread copies out of the slot that is being filled ("fill the slot   *)
(* no reader is on"): both are plain, non-atomic accesses, so this is      *)
(* absence of a data race on g_snap.                                       *)
(***************************************************************************)
NoRace ==
    \A t, u \in Threads : pc[t] = "fill" /\ pc[u] = "copy" => act[u] # nxt

(***************************************************************************)
(* What a read has put in the caller's buffer comes from one published     *)
(* configuration, however many publications happened during the call.      *)
(***************************************************************************)
NoTornRead ==
    \A t \in Threads : pc[t] = "copy" =>
        \E c \in Configs : \A f \in Fields \ todo[t] : out[t][f] \in {c, Unset}

(***************************************************************************)
(* config_reload's no-op guard compares with the token instead of the      *)
(* content.  Whenever it can be consulted, the token tells what the active *)
(* slot holds, all of it; a reload skipped because of it loses nothing.    *)
(***************************************************************************)
TokenCurrent ==
    \A t \in Threads : pc[t] = "load" /\ inited => snap[active] = Image(token)

(***************************************************************************)
(* "Publish BEFORE running the re-appliers: they read config through       *)
(* accessors, which must already see the new snapshot": a re-applier reads *)
(* nothing but the configuration its reload published.                     *)
(***************************************************************************)
ReapplierSeesNew ==
    \A t \in Threads : pc[t] = "copy" /\ wlock = t =>
        snap[act[t]] = Image(cfg)

(***************************************************************************)
(* A reader meets READER_MAX only when that many other threads hold pins:  *)
(* with fewer threads than that, no call ever fails for saturation.        *)
(***************************************************************************)
NeverSaturated ==
    Cardinality(Threads) <= ReaderMax =>
        \A t \in Threads : pc[t] = "admit" => st[t] # ReaderMax

(***************************************************************************)
(* A publisher that waits for pinned readers is not starved by them: the   *)
(* slot it waits for is not the active one, so no reader comes back to it. *)
(***************************************************************************)
PublishCompletes ==
    \A t \in Threads : pc[t] = "reserve" ~> pc[t] = "reapply"

(***************************************************************************)
(* Readers are lock-free: once publications stop, either all calls end or  *)
(* calls keep returning.  (One call can lose the compare-and-swap to other *)
(* readers for ever, and all of them can wait on endless publications.)    *)
(***************************************************************************)
ReadReturns == \E t \in Threads : Return(t) \/ Saturated(t)
ReadersProgress ==
    <>[](\A t \in Threads : pc[t] \notin WriterPcs)
        => \/ []<>(\A t \in Threads : pc[t] \notin ReadPcs)
           \/ []<><<ReadReturns>>_vars

-----------------------------------------------------------------------------
(* The protocol implements one register read and written atomically.  The  *)
(* register changes at Flip; a read takes effect at the load of act1 that  *)
(* finds the pinned slot still active.                                     *)

phaseBar == [t \in Threads |-> IF pc[t] = "copy" THEN "taken"
                               ELSE IF pc[t] \in ReadPcs THEN "called" ELSE "idle"]
valBar == [t \in Threads |-> IF pc[t] = "copy" THEN snap[act[t]] ELSE Image(Unset)]

Abstract == INSTANCE AtomicConfig WITH current <- snap[active], live <- inited,
                                       phase <- phaseBar, val <- valBar
ReadsAreAtomic == Abstract!Spec
=============================================================================
