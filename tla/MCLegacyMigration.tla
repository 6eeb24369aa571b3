-------------------------- MODULE MCLegacyMigration --------------------------
(* LegacyMigration on aimee-server and aimee-kb, which start on one file. *)
EXTENDS LegacyMigration, TLC
CONSTANTS v1, v2
Symmetry == Permutations(Processes)
\* The file has the proxy's token, v1 or nothing in the other fields, and may have
\* another token of the knowledge base's client; the store is new.
SomeLegacy == {c \in Contents : /\ c["proxy_token"] = v1
                               /\ \A x \in Fields \ {"kb_client_bearer_token"} : c[x] # v2}
NewStore == {[n \in Names |-> None]}
SomeEdits == {<<"kb_api_bearer_token", v2>>, <<"server_api_bearer_token", v2>>,
              <<"server_api_bearer_extra", v1>>}
SomeRequests == {<<"AIMEE_KB_API_BEARER_TOKEN", v2>>, <<"AIMEE_API_BEARER_TOKEN", v2>>}
=============================================================================
