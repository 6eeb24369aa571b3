---------------------------- MODULE LegacyMigration ----------------------------
(***************************************************************************)
(* Credentials that an older aimee.yaml holds in plain text, and their     *)
(* migration into the secret store (config_migrate_legacy_credentials),    *)
(* which every server process runs when it starts: load the file, hand     *)
(* each credential to the store unless the store has one under its name,   *)
(* save the file, which config_save writes without credentials.  A crash   *)
(* may come between any two steps, and the next start migrates again.      *)
(*                                                                         *)
(* The store is outside the module: present() asks it, the injected writer *)
(* writes it, and runtime_secret_get reads it.  It is taken to be durable, *)
(* and to be asked (a caller may pass no present()).  The file is replaced *)
(* in one step (AtomicReplace).  Of the credentials with a name of their   *)
(* own, and of the additional bearer tokens, there is one each.            *)
(***************************************************************************)
EXTENDS Integers, Sequences

CONSTANTS
    Processes, \* server processes with this file and this store
    Values,    \* credentials
    None,      \* no credential
    Legacy,    \* what the file may hold at first
    Sealed,    \* what the store may hold at first
    Edits,     \* changes of the file by hand: field, credential
    Requests,  \* credentials set by a request: name, credential
    MaxFiles   \* bound on the versions of the file

\* The order in which they are migrated.
Chain == <<"proxy_token", "kb_api_bearer_token", "kb_client_bearer_token",
           "server_api_bearer_token", "server_api_bearer_extra">>
Fields == {Chain[i] : i \in 1..Len(Chain)}
\* The names in the store; the two tokens of the knowledge base share one.
Name == [proxy_token |-> "AIMEE_PROXY_TOKEN",
         kb_api_bearer_token |-> "AIMEE_KB_API_BEARER_TOKEN",
         kb_client_bearer_token |-> "AIMEE_KB_API_BEARER_TOKEN",
         server_api_bearer_token |-> "AIMEE_API_BEARER_TOKEN",
         server_api_bearer_extra |-> "AIMEE_API_BEARER_TOKEN_EXTRA_0"]
Names == {Name[x] : x \in Fields}

Contents == [Fields -> Values \cup {None}]
Records == [Names -> Values \cup {None}]

ASSUME MigrationAssumption ==
    /\ None \notin Values \cup Processes
    /\ Legacy \subseteq Contents
    /\ Sealed \subseteq Records
    /\ Edits \subseteq Fields \X (Values \cup {None})
    /\ Requests \subseteq Names \X Values
    /\ MaxFiles \in Nat \ {0}

VARIABLES
    file,    \* [id, creds]: the version of the file, its credentials
    store,   \* name -> what the store has under it
    pc,      \* process -> "idle", "ask", "seal" or "save"
    at,      \* process -> place in Chain
    cfg,     \* process -> the credentials it loaded
    failed,  \* process -> the writer has failed
    src,     \* process -> version of the file it loaded
    revoked, \* processes whose load dropped the additional tokens
    raced    \* processes about to seal a name that another step has stored

vars == <<file, store, pc, at, cfg, failed, src, revoked, raced>>

Empty == [x \in Fields |-> None]

Init ==
    /\ \E c \in Legacy : file = [id |-> 1, creds |-> c]
    /\ store \in Sealed
    /\ pc = [p \in Processes |-> "idle"]
    /\ at = [p \in Processes |-> 1]
    /\ cfg = [p \in Processes |-> Empty]
    /\ failed = [p \in Processes |-> FALSE]
    /\ src = [p \in Processes |-> 1]
    /\ revoked = {}
    /\ raced = {}

Replace(creds) ==
    /\ file.id < MaxFiles
    /\ file' = [id |-> file.id + 1, creds |-> creds]

\* v goes into the store under n; p is the process that puts it there, if one does.
Put(n, v, p) ==
    /\ store' = [store EXCEPT ![n] = v]
    /\ raced' = (raced \ {p}) \cup {q \in Processes \ {p} : pc[q] = "seal" /\ Name[Chain[at[q]]] = n}

-----------------------------------------------------------------------------
(* config_migrate_legacy_credentials.                                      *)

\* The additional tokens were enrolled under the primary in the file; another
\* primary in the store revokes them.
Revokes == /\ store["AIMEE_API_BEARER_TOKEN"] # None
           /\ store["AIMEE_API_BEARER_TOKEN"] # file.creds["server_api_bearer_token"]

\* config_load_file; config_parse_server_api puts the store's primary over the file's.
Loaded ==
    [x \in Fields |->
        IF x = "server_api_bearer_token" /\ store["AIMEE_API_BEARER_TOKEN"] # None
        THEN store["AIMEE_API_BEARER_TOKEN"]
        ELSE IF x = "server_api_bearer_extra" /\ Revokes THEN None
        ELSE file.creds[x]]

\* Two tokens that were one credential differ, and the store does not know better.
Ambiguous(c) ==
    /\ c["kb_api_bearer_token"] # None /\ c["kb_client_bearer_token"] # None
    /\ c["kb_api_bearer_token"] # c["kb_client_bearer_token"]
    /\ store["AIMEE_KB_API_BEARER_TOKEN"] = None

\* Mutant: the tokens are not compared.
BeginAnyway(p) ==
    /\ pc[p] = "idle"
    /\ pc' = [pc EXCEPT ![p] = "ask"]
    /\ cfg' = [cfg EXCEPT ![p] = Loaded]
    /\ src' = [src EXCEPT ![p] = file.id]
    /\ revoked' = IF Revokes THEN revoked \cup {p} ELSE revoked
    /\ UNCHANGED <<file, store, at, failed, raced>>

\* A file that does not load, or is ambiguous, is left alone.
Begin(p) ==
    /\ pc[p] = "idle"
    /\ ~Ambiguous(Loaded)
    /\ pc' = [pc EXCEPT ![p] = "ask"]
    /\ cfg' = [cfg EXCEPT ![p] = Loaded]
    /\ src' = [src EXCEPT ![p] = file.id]
    /\ revoked' = IF Revokes THEN revoked \cup {p} ELSE revoked
    /\ UNCHANGED <<file, store, at, failed, raced>>

\* The migration is over, or the process is.
End(p) ==
    /\ pc' = [pc EXCEPT ![p] = "idle"]
    /\ at' = [at EXCEPT ![p] = 1]
    /\ cfg' = [cfg EXCEPT ![p] = Empty]
    /\ failed' = [failed EXCEPT ![p] = FALSE]
    /\ src' = [src EXCEPT ![p] = 1]
    /\ revoked' = revoked \ {p}

\* Mutant: a writer that fails does not keep the file from being saved.
AdvanceAnyway(p, fails) ==
    IF at[p] < Len(Chain)
    THEN /\ pc' = [pc EXCEPT ![p] = "ask"]
         /\ at' = [at EXCEPT ![p] = at[p] + 1]
         /\ failed' = [failed EXCEPT ![p] = fails]
         /\ UNCHANGED <<cfg, src, revoked>>
    ELSE IF cfg[p] = Empty THEN End(p)
    ELSE pc' = [pc EXCEPT ![p] = "save"] /\ UNCHANGED <<at, cfg, failed, src, revoked>>

\* Mutant: one field too many.
AdvanceBeyond(p, fails) ==
    /\ at' = [at EXCEPT ![p] = at[p] + 1]
    /\ pc' = [pc EXCEPT ![p] = IF at[p] <= Len(Chain) THEN "ask" ELSE "save"]
    /\ failed' = [failed EXCEPT ![p] = fails]
    /\ UNCHANGED <<cfg, src, revoked>>

\* On to the next field; in the end the file is saved if all of its credentials
\* are in the store, and there are any.
Advance(p, fails) ==
    IF at[p] < Len(Chain)
    THEN /\ pc' = [pc EXCEPT ![p] = "ask"]
         /\ at' = [at EXCEPT ![p] = at[p] + 1]
         /\ failed' = [failed EXCEPT ![p] = fails]
         /\ UNCHANGED <<cfg, src, revoked>>
    ELSE IF fails \/ cfg[p] = Empty THEN End(p)
    ELSE pc' = [pc EXCEPT ![p] = "save"] /\ UNCHANGED <<at, cfg, failed, src, revoked>>

\* The process has nothing to hand over for this field, or has stopped to.
Skips(p, x) == cfg[p][x] = None \/ (failed[p] /\ x = "server_api_bearer_extra")

\* Mutant: the store is asked for the shared name only.
AskShared(p) ==
    /\ pc[p] = "ask"
    /\ LET x == Chain[at[p]]
       IN  IF Skips(p, x) \/ (Name[x] = "AIMEE_KB_API_BEARER_TOKEN" /\ store[Name[x]] # None)
           THEN Advance(p, failed[p])
           ELSE pc' = [pc EXCEPT ![p] = "seal"] /\ UNCHANGED <<at, cfg, failed, src, revoked>>
    /\ UNCHANGED <<file, store, raced>>

\* present(): what the store has under the name stays.
Ask(p) ==
    /\ pc[p] = "ask"
    /\ LET x == Chain[at[p]]
       IN  IF Skips(p, x) \/ store[Name[x]] # None
           THEN Advance(p, failed[p])
           ELSE pc' = [pc EXCEPT ![p] = "seal"] /\ UNCHANGED <<at, cfg, failed, src, revoked>>
    /\ UNCHANGED <<file, store, raced>>

\* writer()
Seal(p) ==
    /\ pc[p] = "seal"
    /\ LET x == Chain[at[p]]
       IN  \/ Put(Name[x], cfg[p][x], p) /\ Advance(p, failed[p])
           \/ raced' = raced \ {p} /\ Advance(p, TRUE) /\ UNCHANGED store
    /\ UNCHANGED file

\* config_save of what was loaded, without the credentials.
Save(p) ==
    /\ pc[p] = "save"
    /\ Replace(Empty) \/ UNCHANGED file
    /\ End(p)
    /\ UNCHANGED <<store, raced>>

Crash(p) ==
    /\ pc[p] # "idle"
    /\ End(p)
    /\ raced' = raced \ {p}
    /\ UNCHANGED <<file, store>>

-----------------------------------------------------------------------------

Others == UNCHANGED <<pc, at, cfg, failed, src, revoked>>

\* An editor, or a config_set that had read the file before, changes a credential.
Edit(x, v) ==
    /\ Replace([file.creds EXCEPT ![x] = v])
    /\ Others /\ UNCHANGED <<store, raced>>

\* A generated setter of any other setting: config_load, config_save.
Setter ==
    /\ Replace(Empty)
    /\ Others /\ UNCHANGED <<store, raced>>

\* config_set, and the setters, of a credential: config_secret_store.
StoreSecret(n, v) ==
    /\ Put(n, v, None)
    /\ Others /\ UNCHANGED file

Next ==
    \/ \E p \in Processes : Begin(p) \/ Ask(p) \/ Seal(p) \/ Save(p) \/ Crash(p)
    \/ \E e \in Edits : Edit(e[1], e[2])
    \/ Setter
    \/ \E r \in Requests : StoreSecret(r[1], r[2])

Spec == Init /\ [][Next]_vars

-----------------------------------------------------------------------------
(* Properties.                                                             *)

\* The file, the store, and where the migrations are, stay in their types.
TypeOK ==
    /\ file \in [id : 1 .. MaxFiles, creds : Contents]
    /\ store \in Records
    /\ pc \in [Processes -> {"idle", "ask", "seal", "save"}]
    /\ at \in [Processes -> 1 .. Len(Chain)]
    /\ cfg \in [Processes -> Contents]
    /\ failed \in [Processes -> BOOLEAN]
    /\ src \in [Processes -> 1 .. MaxFiles]
    /\ revoked \subseteq Processes
    /\ raced \subseteq Processes

\* A migration takes a credential out of the file only when the store has one under
\* its name, whatever failed or crashed before and whoever migrates as well; unless
\* the file is no longer the one it loaded, or the credential is an additional
\* token whose primary the store has replaced.
ScrubsOnlySealed ==
    [][\A p \in Processes :
         pc[p] = "save" /\ file' # file /\ src[p] = file.id
            => \A x \in Fields :
                  file.creds[x] # None
                     => \/ store[Name[x]] # None
                        \/ x = "server_api_bearer_extra" /\ p \in revoked]_vars

\* "`present` lets the credential store remain authoritative": a migration never
\* replaces what the store has, but for what was put there between its present()
\* and its writer().
NothingOverwritten ==
    [][\A p \in Processes :
         pc[p] = "seal" /\ pc'[p] # "seal" /\ store' # store
            => store[Name[Chain[at[p]]]] = None \/ p \in raced]_vars

\* "refuse rather than guess": of two tokens that were one credential and differ,
\* none is put in the store by a migration that loaded both.
NeverGuesses ==
    \A p \in Processes :
        pc[p] = "seal" /\ Name[Chain[at[p]]] = "AIMEE_KB_API_BEARER_TOKEN"
            => \/ cfg[p]["kb_api_bearer_token"] \in {None, cfg[p]["kb_client_bearer_token"]}
               \/ cfg[p]["kb_client_bearer_token"] = None
=============================================================================
