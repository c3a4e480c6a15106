---------------------------- MODULE ClientRegistry ----------------------------
(***************************************************************************)
(* The registered clients (core/client_composite.go): loaded from a file   *)
(* and an API into one map, reloaded when a webhook asks for it            *)
(* (webhooks.go), and consulted by /authorize and by the token endpoint's  *)
(* service grants (clientCredentials in routes.go and the validators of    *)
(* core/token_validator.go). Reloads overlap: each reads the file, then    *)
(* the API, and then puts the map it built in place of the old one.        *)
(*                                                                         *)
(* What a source says changes over time; version v of the file is          *)
(* FileAt[v]. A client is abstracted to what decides how it may be used.   *)
(***************************************************************************)
EXTENDS Naturals, FiniteSets

CONSTANTS
    ClientIds,
    NoClient,
    LastEdit,       \* how often each source will be edited
    FileAt, ApiAt,  \* what the sources say in each version
    HasApi,         \* ClientStoreAPIURL is set
    Reloads,        \* slots for reloads in flight
    TokenRequests,  \* bound on the token requests in flight
    UsesPfasGrant, UsesIAMGrant

(* The grant types a client may list, and those a request may name.        *)
Grants == {"basic", "client_credentials", "pfas", "iam"}

(* web: it has redirect URIs.                                              *)
Entry == [web : BOOLEAN, grants : SUBSET Grants]
Client == [web : BOOLEAN, service : BOOLEAN, grants : SUBSET Grants]

Versions == 0 .. LastEdit

ASSUME ClientRegistryAssumption ==
    /\ LastEdit \in Nat
    /\ NoClient \notin Entry /\ NoClient \notin Client
    /\ FileAt \in [Versions -> [ClientIds -> Entry \cup {NoClient}]]
    /\ ApiAt \in [Versions -> [ClientIds -> Entry \cup {NoClient}]]
    /\ HasApi \in BOOLEAN /\ TokenRequests \in Nat
    /\ UsesPfasGrant \in BOOLEAN /\ UsesIAMGrant \in BOOLEAN

VARIABLES
    file, api,  \* the version each source is at
    clients,    \* the map
    pc,         \* the next step of each reload
    gotFile,    \* the versions it has read
    gotApi,
    clean,      \* whether it began after the last edit
    refetched,  \* whether the last one to succeed did
    begun,      \* the clients logins were begun for
    admitted,   \* the token requests validated and not yet answered
    granted     \* the service sessions created, as [id, grant]

reloadVars == <<pc, gotFile, gotApi, clean>>
vars == <<file, api, clients, reloadVars, refetched, begun, admitted, granted>>

-----------------------------------------------------------------------------
(* Mutant of FileClient: whether it is a service is not worked out. *)
FileClientAsIs(e) == e

FileClient(e) == [web |-> e.web, service |-> ~e.web, grants |-> e.grants]

ApiClient(e) == [web |-> e.web, service |-> TRUE, grants |-> e.grants]

(* Mutant of Load: a later source replaces what an earlier one said. *)
LoadLastWins(f, a) ==
    [id \in ClientIds |->
        IF HasApi /\ a[id] # NoClient THEN ApiClient(a[id])
        ELSE IF f[id] # NoClient THEN FileClient(f[id]) ELSE NoClient]

(* Of two clients with one id, the first source's is kept.                 *)
Load(f, a) ==
    [id \in ClientIds |->
        IF f[id] # NoClient THEN FileClient(f[id])
        ELSE IF HasApi /\ a[id] # NoClient THEN ApiClient(a[id]) ELSE NoClient]

(* Mutant of GrantTypes: whoever has a secret may use any grant. *)
AnyGrantType(c) == IF c.grants = {} THEN {} ELSE Grants

(* A client that still lists "basic" may use "client_credentials".         *)
GrantTypes(c) ==
    c.grants \cup (IF "basic" \in c.grants THEN {"client_credentials"} ELSE {})

ValidateCredentials(id, grant, secret) ==
    /\ clients[id] # NoClient
    /\ clients[id].service
    /\ grant \in GrantTypes(clients[id])
    /\ grant \in {"pfas", "iam"} \/ secret

Init ==
    /\ file = 0 /\ api = 0
    /\ clients = Load(FileAt[0], ApiAt[0])
    /\ pc = [r \in Reloads |-> "idle"]
    /\ gotFile = [r \in Reloads |-> 0]
    /\ gotApi = [r \in Reloads |-> 0]
    /\ clean = [r \in Reloads |-> FALSE]
    /\ refetched = TRUE
    /\ begun = {} /\ admitted = {} /\ granted = {}

Edit ==
    /\ \/ file < LastEdit /\ file' = file + 1 /\ UNCHANGED api
       \/ api < LastEdit /\ api' = api + 1 /\ UNCHANGED file
    /\ clean' = [r \in Reloads |-> FALSE]
    /\ refetched' = FALSE
    /\ UNCHANGED <<clients, pc, gotFile, gotApi, begun, admitted, granted>>

(* A reload that cannot read or validate a source ends without a trace.    *)
ReadFile(r) ==
    /\ pc[r] = "idle"
    /\ pc' = [pc EXCEPT ![r] = "read_api"]
    /\ gotFile' = [gotFile EXCEPT ![r] = file]
    /\ clean' = [clean EXCEPT ![r] = TRUE]
    /\ UNCHANGED <<file, api, clients, gotApi, refetched, begun, admitted,
                   granted>>

ReadApi(r) ==
    /\ pc[r] = "read_api"
    /\ \/ /\ pc' = [pc EXCEPT ![r] = "swap"]
          /\ gotApi' = [gotApi EXCEPT ![r] = api]
       \/ /\ pc' = [pc EXCEPT ![r] = "idle"]
          /\ UNCHANGED gotApi
    /\ UNCHANGED <<file, api, clients, gotFile, clean, refetched, begun,
                   admitted, granted>>

(* Mutant of Swap: new clients are added to the map, none is removed. *)
SwapAdding(r) ==
    /\ pc[r] = "swap"
    /\ pc' = [pc EXCEPT ![r] = "idle"]
    /\ clients' = [id \in ClientIds |->
                      LET new == Load(FileAt[gotFile[r]], ApiAt[gotApi[r]])[id]
                      IN  IF new = NoClient THEN clients[id] ELSE new]
    /\ refetched' = clean[r]
    /\ UNCHANGED <<file, api, gotFile, gotApi, clean, begun, admitted, granted>>

Swap(r) ==
    /\ pc[r] = "swap"
    /\ pc' = [pc EXCEPT ![r] = "idle"]
    /\ clients' = Load(FileAt[gotFile[r]], ApiAt[gotApi[r]])
    /\ refetched' = clean[r]
    /\ UNCHANGED <<file, api, gotFile, gotApi, clean, begun, admitted, granted>>

(* /authorize: the client is known and the redirect URI one of its own.    *)
Authorize(id) ==
    /\ clients[id] # NoClient
    /\ clients[id].web
    /\ begun' = begun \cup {id}
    /\ UNCHANGED <<file, api, clients, reloadVars, refetched, admitted, granted>>

Enabled(grant) ==
    /\ grant = "pfas" => UsesPfasGrant
    /\ grant = "iam" => UsesIAMGrant

(* The validators. What proves the client to them is its secret and scopes *)
(* (Basic), an introspected token that is active and has the scopes asked  *)
(* for (PFAS), or a signed token of the issuer within its time (IAM).      *)
BasicAuth(id, proof) == ValidateCredentials(id, "client_credentials", proof)

PfasAuth(id, proof) == ValidateCredentials(id, "pfas", FALSE) /\ proof

(* Mutant of IAMAuth: the issuer's word is enough. *)
IAMTrusting(id, proof) == proof

IAMAuth(id, proof) == proof /\ ValidateCredentials(id, "iam", FALSE)

(* A token request passes its validator. *)
ValidateToken(id, grant, proof) ==
    /\ Cardinality(admitted) < TokenRequests
    /\ Enabled(grant)
    /\ \/ grant \in {"basic", "client_credentials"} /\ BasicAuth(id, proof)
       \/ grant = "pfas" /\ PfasAuth(id, proof)
       \/ grant = "iam" /\ IAMAuth(id, proof)
    /\ admitted' = admitted \cup {[id |-> id, grant |-> grant]}
    /\ UNCHANGED <<file, api, clients, reloadVars, refetched, begun, granted>>

(* The authorizer is asked for the client's rights; if it answers, and the *)
(* session can be created, the client has it. The map is not looked at     *)
(* again.                                                                  *)
ClientCredentials(q) ==
    /\ q \in admitted
    /\ admitted' = admitted \ {q}
    /\ granted' \in {granted, granted \cup {q}}
    /\ UNCHANGED <<file, api, clients, reloadVars, refetched, begun>>

Next ==
    \/ Edit
    \/ \E r \in Reloads : ReadFile(r) \/ ReadApi(r) \/ Swap(r)
    \/ \E id \in ClientIds : Authorize(id)
    \/ \E id \in ClientIds, grant \in Grants, proof \in BOOLEAN :
          ValidateToken(id, grant, proof)
    \/ \E q \in admitted : ClientCredentials(q)

Spec == Init /\ [][Next]_vars

-----------------------------------------------------------------------------
TypeOK ==
    /\ file \in Versions /\ api \in Versions
    /\ clients \in [ClientIds -> Client \cup {NoClient}]
    /\ pc \in [Reloads -> {"idle", "read_api", "swap"}]
    /\ gotFile \in [Reloads -> Versions]
    /\ gotApi \in [Reloads -> Versions]
    /\ clean \in [Reloads -> BOOLEAN]
    /\ refetched \in BOOLEAN
    /\ begun \subseteq ClientIds
    /\ admitted \subseteq [id : ClientIds, grant : Grants]
    /\ granted \subseteq [id : ClientIds, grant : Grants]

(* "just a refetch should work for now": when the last reload to finish is *)
(* one that began after the last edit, the map says what the sources say,  *)
(* whatever other reloads are on their way. One that began before it can   *)
(* still finish later, and undo this.                                      *)
RefetchWorks ==
    refetched => clients = Load(FileAt[file], ApiAt[api])

Listed(source, id) == {source[v][id] : v \in Versions} \ {NoClient}

AlwaysInFile(id, web) ==
    \A v \in Versions : FileAt[v][id] # NoClient /\ FileAt[v][id].web = web

(* A client the file always has is used in one way only, whatever the API  *)
(* says of the same id: logins are begun for it or service sessions are    *)
(* created, never both.                                                    *)
WebOrService ==
    \A id \in ClientIds :
        (\E b \in BOOLEAN : AlwaysInFile(id, b))
        => id \notin begun \/ \A g \in granted : g.id # id

(* A grant that needs no secret is given to a client only if a source has  *)
(* listed that very grant for it: the allowance made for "basic" opens no  *)
(* other.                                                                  *)
SecretlessListed ==
    \A g \in granted :
        g.grant \in {"pfas", "iam"} =>
            \E e \in Listed(FileAt, g.id) \cup Listed(ApiAt, g.id) :
                g.grant \in e.grants

(* Of a client a reload has removed, only the token requests that passed   *)
(* their validator before can still become sessions, and no other joins    *)
(* them, though the authorizer is asked in between and the map not again.  *)
RemovedStaysOut ==
    [][\A id \in ClientIds, grant \in Grants :
          /\ clients[id] = NoClient
          /\ [id |-> id, grant |-> grant] \in (admitted \cup granted)'
          => [id |-> id, grant |-> grant] \in admitted \cup granted]_vars
=============================================================================
