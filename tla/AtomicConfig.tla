---------------------------- MODULE AtomicConfig ----------------------------
(***************************************************************************)
(* What the live configuration promises to a caller, without slots, pins   *)
(* or a sequence number: one register holding one complete configuration.  *)
(* A read takes the register's content at ONE instant between its call and *)
(* its return, and everything it puts in the caller's buffer comes from    *)
(* that instant.  A publication replaces the register in one step.         *)
(*                                                                         *)
(* The buffer itself is filled field by field: it belongs to the caller,   *)
(* who does not look at it before the call returns.                        *)
(***************************************************************************)
EXTENDS Integers

CONSTANTS Threads,  \* threads that read
          Fields,   \* fields of a configuration
          Configs,  \* contents a configuration can have
          Wants,    \* the sets of fields one call may ask for
          Unset     \* content of memory nobody has filled (static or calloc'd zeros)

VARIABLES
    current,  \* the register: one value per field
    live,     \* a first configuration has been published
    phase,    \* thread -> "idle", "called" or "taken"
    val,      \* thread -> the content taken by its read
    todo,     \* thread -> fields its read still has to deliver
    out       \* thread -> the caller's buffer

vars == <<current, live, phase, val, todo, out>>

Image(c) == [f \in Fields |-> c]
Blank == Image(Unset)

Init == /\ current = Blank
        /\ live = FALSE
        /\ phase = [t \in Threads |-> "idle"]
        /\ val = [t \in Threads |-> Blank]
        /\ todo = [t \in Threads |-> {}]
        /\ out = [t \in Threads |-> Blank]

Publish(c) == /\ current' = Image(c)
              /\ UNCHANGED <<live, phase, val, todo, out>>

GoLive == /\ live' = TRUE
          /\ UNCHANGED <<current, phase, val, todo, out>>

Call(t) == /\ live
           /\ phase[t] = "idle"
           /\ phase' = [phase EXCEPT ![t] = "called"]
           /\ \E w \in Wants : todo' = [todo EXCEPT ![t] = w]
           /\ UNCHANGED <<current, live, val, out>>

\* The instant the read takes effect.
Take(t) == /\ phase[t] = "called"
           /\ phase' = [phase EXCEPT ![t] = "taken"]
           /\ val' = [val EXCEPT ![t] = current]
           /\ UNCHANGED <<current, live, todo, out>>

Deliver(t) == /\ phase[t] = "taken"
              /\ \E f \in todo[t] :
                    /\ out' = [out EXCEPT ![t] = [@ EXCEPT ![f] = val[t][f]]]
                    /\ todo' = [todo EXCEPT ![t] = @ \ {f}]
              /\ UNCHANGED <<current, live, phase, val>>

Done(t) == /\ phase' = [phase EXCEPT ![t] = "idle"]
           /\ val' = [val EXCEPT ![t] = Blank]
           /\ todo' = [todo EXCEPT ![t] = {}]
           /\ out' = [out EXCEPT ![t] = Blank]
           /\ UNCHANGED <<current, live>>

Return(t) == phase[t] = "taken" /\ todo[t] = {} /\ Done(t)

\* The bounded failure: no content taken, nothing delivered.
GiveUp(t) == phase[t] = "called" /\ Done(t)

Next == \/ \E c \in Configs : Publish(c)
        \/ GoLive
        \/ \E t \in Threads :
              Call(t) \/ Take(t) \/ Deliver(t) \/ Return(t) \/ GiveUp(t)

Spec == Init /\ [][Next]_vars
=============================================================================
