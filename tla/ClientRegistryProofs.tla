------------------------- MODULE ClientRegistryProofs -------------------------
(***************************************************************************)
(* What holds of the registered clients whatever the sources say, however  *)
(* often they are edited and however many reloads overlap.                 *)
(***************************************************************************)
EXTENDS ClientRegistry, TLAPS

(* Every reload, and the first load, give well formed clients.             *)
LEMMA LoadType ==
    ASSUME NEW v \in Versions, NEW w \in Versions
    PROVE  Load(FileAt[v], ApiAt[w]) \in [ClientIds -> Client \cup {NoClient}]
<1> SUFFICES ASSUME NEW id \in ClientIds
             PROVE  Load(FileAt[v], ApiAt[w])[id] \in Client \cup {NoClient}
  BY DEF Load
<1>1. FileAt[v][id] \in Entry \cup {NoClient}
  BY ClientRegistryAssumption
<1>2. ApiAt[w][id] \in Entry \cup {NoClient}
  BY ClientRegistryAssumption
<1>3. \A e \in Entry : FileClient(e) \in Client /\ ApiClient(e) \in Client
  BY DEF Entry, Client, FileClient, ApiClient
<1>4. QED
  BY <1>1, <1>2, <1>3 DEF Load

(* Sources, reloads and the map are well formed in every reachable state.  *)
THEOREM TypeCorrect == Spec => []TypeOK
<1>1. 0 \in Versions
  BY ClientRegistryAssumption DEF Versions
<1>2. Init => TypeOK
  BY <1>1, LoadType DEF Init, TypeOK
<1>3. TypeOK /\ [Next]_vars => TypeOK'
  <2> SUFFICES ASSUME TypeOK, [Next]_vars PROVE TypeOK'
    OBVIOUS
  <2> USE DEF TypeOK
  <2>1. CASE Edit
    <3>1. LastEdit \in Nat
      BY ClientRegistryAssumption
    <3>2. file' \in Versions /\ api' \in Versions
      BY <2>1, <3>1 DEF Edit, Versions
    <3>3. QED
      BY <2>1, <3>2 DEF Edit
  <2>2. ASSUME NEW r \in Reloads, ReadFile(r) \/ ReadApi(r) PROVE TypeOK'
    BY <2>2 DEF ReadFile, ReadApi
  <2>3. ASSUME NEW r \in Reloads, Swap(r) PROVE TypeOK'
    BY <2>3, LoadType DEF Swap
  <2>4. ASSUME NEW id \in ClientIds, Authorize(id) PROVE TypeOK'
    BY <2>4 DEF Authorize, reloadVars
  <2>5. ASSUME NEW id \in ClientIds, NEW grant \in Grants,
               NEW proof \in BOOLEAN,
               ValidateToken(id, grant, proof)
        PROVE  TypeOK'
    BY <2>5 DEF ValidateToken, reloadVars
  <2>6. ASSUME NEW q \in admitted, ClientCredentials(q) PROVE TypeOK'
    BY <2>6 DEF ClientCredentials, reloadVars
  <2>7. CASE UNCHANGED vars
    BY <2>7 DEF vars, reloadVars
  <2>8. QED
    BY <2>1, <2>2, <2>3, <2>4, <2>5, <2>6, <2>7 DEF Next
<1>4. QED
  BY <1>2, <1>3, PTL DEF Spec

-----------------------------------------------------------------------------
(* The map is always what one file and one API version make together.      *)
Loaded == \E v \in Versions, w \in Versions : clients = Load(FileAt[v], ApiAt[w])

LEMMA AlwaysLoaded == Spec => []Loaded
<1>1. Init => Loaded
  BY ClientRegistryAssumption DEF Init, Loaded, Versions
<1>2. TypeOK /\ Loaded /\ [Next]_vars => Loaded'
  <2> SUFFICES ASSUME TypeOK, Loaded, [Next]_vars PROVE Loaded'
    OBVIOUS
  <2>1. ASSUME NEW r \in Reloads, Swap(r) PROVE Loaded'
    BY <2>1 DEF Swap, Loaded, TypeOK
  <2>2. CASE UNCHANGED clients
    BY <2>2 DEF Loaded
  <2>3. QED
    BY <2>1, <2>2 DEF Next, Edit, ReadFile, ReadApi, Authorize,
                      ValidateToken, ClientCredentials, vars
<1>3. QED
  BY <1>1, <1>2, TypeCorrect, PTL DEF Spec

(* A client the file always has is in the map as the file has it.          *)
LEMMA FileComesFirst ==
    ASSUME Loaded, NEW id \in ClientIds, NEW web \in BOOLEAN,
           AlwaysInFile(id, web)
    PROVE  clients[id].web = web /\ clients[id].service = ~web
<1>1. PICK v \in Versions, w \in Versions :
          clients = Load(FileAt[v], ApiAt[w])
  BY DEF Loaded
<1>2. clients[id] = FileClient(FileAt[v][id])
  BY <1>1 DEF Load, AlwaysInFile
<1>3. FileAt[v][id].web = web
  BY DEF AlwaysInFile
<1>4. QED
  BY <1>2, <1>3 DEF FileClient

UsedAsInFile ==
    \A id \in ClientIds, web \in BOOLEAN :
        AlwaysInFile(id, web) =>
            /\ id \in begun => web
            /\ \A g \in admitted \cup granted : g.id = id => ~web

(* A client of the file's is a web client or a service, never both,        *)
(* whatever the API says of its id.                                        *)
THEOREM OneUse == Spec => []WebOrService
<1>1. Init => UsedAsInFile
  BY DEF Init, UsedAsInFile
<1>2. Loaded /\ UsedAsInFile /\ [Next]_vars => UsedAsInFile'
  <2> SUFFICES ASSUME Loaded, UsedAsInFile, [Next]_vars PROVE UsedAsInFile'
    OBVIOUS
  <2>1. ASSUME NEW id \in ClientIds, Authorize(id) PROVE UsedAsInFile'
    <3>1. /\ clients[id].web /\ begun' = begun \cup {id}
          /\ UNCHANGED <<admitted, granted>>
      BY <2>1 DEF Authorize
    <3>2. \A web \in BOOLEAN : AlwaysInFile(id, web) => web
      BY <3>1, FileComesFirst
    <3>3. QED
      BY <3>1, <3>2 DEF UsedAsInFile, AlwaysInFile
  <2>2. ASSUME NEW id \in ClientIds, NEW grant \in Grants,
               NEW proof \in BOOLEAN,
               ValidateToken(id, grant, proof)
        PROVE  UsedAsInFile'
    <3>1. /\ clients[id].service
          /\ UNCHANGED <<begun, granted>>
          /\ admitted' = admitted \cup {[id |-> id, grant |-> grant]}
      BY <2>2 DEF ValidateToken, BasicAuth, PfasAuth, IAMAuth,
                      ValidateCredentials
    <3>2. \A web \in BOOLEAN : AlwaysInFile(id, web) => ~web
      BY <3>1, FileComesFirst
    <3>3. QED
      BY <3>1, <3>2 DEF UsedAsInFile, AlwaysInFile
  <2>3. ASSUME NEW q \in admitted, ClientCredentials(q)
        PROVE  UsedAsInFile'
    <3>1. begun' = begun /\ (admitted \cup granted)' \subseteq admitted \cup granted
      BY <2>3 DEF ClientCredentials
    <3>2. QED
      BY <3>1 DEF UsedAsInFile, AlwaysInFile
  <2>4. CASE UNCHANGED <<begun, admitted, granted>>
    BY <2>4 DEF UsedAsInFile, AlwaysInFile
  <2>5. QED
    BY <2>1, <2>2, <2>3, <2>4 DEF Next, Edit, ReadFile, ReadApi, Swap, vars
<1>3. UsedAsInFile => WebOrService
  BY DEF UsedAsInFile, WebOrService
<1>4. QED
  BY <1>1, <1>2, <1>3, AlwaysLoaded, PTL DEF Spec

-----------------------------------------------------------------------------
(* A token request that passed its validator is for such a grant too.      *)
AdmittedListed ==
    \A g \in admitted \cup granted :
        g.grant \in {"pfas", "iam"} =>
            \E e \in Listed(FileAt, g.id) \cup Listed(ApiAt, g.id) :
                g.grant \in e.grants

(* No client without the grant in one of its sources gets a service        *)
(* session for a grant that asks for no secret.                            *)
THEOREM GrantsListed == Spec => []SecretlessListed
<1>1. Init => AdmittedListed
  BY DEF Init, AdmittedListed
<1>2. Loaded /\ AdmittedListed /\ [Next]_vars => AdmittedListed'
  <2> SUFFICES ASSUME Loaded, AdmittedListed, [Next]_vars
               PROVE  AdmittedListed'
    OBVIOUS
  <2>1. ASSUME NEW id \in ClientIds, NEW grant \in Grants,
               NEW proof \in BOOLEAN,
               ValidateToken(id, grant, proof)
        PROVE  AdmittedListed'
    <3>1. /\ admitted' = admitted \cup {[id |-> id, grant |-> grant]}
          /\ granted' = granted
      BY <2>1 DEF ValidateToken
    <3>2. ASSUME grant \in {"pfas", "iam"}
          PROVE  \E e \in Listed(FileAt, id) \cup Listed(ApiAt, id) :
                    grant \in e.grants
      <4>1. grant # "basic" /\ grant # "client_credentials"
        BY <3>2
      <4>2. clients[id] # NoClient /\ grant \in GrantTypes(clients[id])
        BY <2>1, <3>2, <4>1 DEF ValidateToken, PfasAuth, IAMAuth,
                               ValidateCredentials
      <4>3. grant \in clients[id].grants
        BY <4>1, <4>2 DEF GrantTypes
      <4>4. PICK v \in Versions, w \in Versions :
                clients = Load(FileAt[v], ApiAt[w])
        BY DEF Loaded
      <4>5. CASE FileAt[v][id] # NoClient
        <5>1. clients[id] = FileClient(FileAt[v][id])
          BY <4>4, <4>5 DEF Load
        <5>2. grant \in FileAt[v][id].grants
          BY <4>3, <5>1 DEF FileClient
        <5>3. QED
          BY <4>5, <5>2 DEF Listed
      <4>6. CASE FileAt[v][id] = NoClient
        <5>1. ApiAt[w][id] # NoClient /\ clients[id] = ApiClient(ApiAt[w][id])
          BY <4>2, <4>4, <4>6 DEF Load
        <5>2. grant \in ApiAt[w][id].grants
          BY <4>3, <5>1 DEF ApiClient
        <5>3. QED
          BY <5>1, <5>2 DEF Listed
      <4>7. QED
        BY <4>5, <4>6
    <3>3. QED
      BY <3>1, <3>2 DEF AdmittedListed, Listed
  <2>2. ASSUME NEW q \in admitted, ClientCredentials(q)
        PROVE  AdmittedListed'
    <3>1. (admitted \cup granted)' \subseteq admitted \cup granted
      BY <2>2 DEF ClientCredentials
    <3>2. QED
      BY <3>1 DEF AdmittedListed, Listed
  <2>3. CASE UNCHANGED <<admitted, granted>>
    BY <2>3 DEF AdmittedListed, Listed
  <2>4. QED
    BY <2>1, <2>2, <2>3 DEF Next, Edit, ReadFile, ReadApi, Swap, Authorize, vars
<1>3. AdmittedListed => SecretlessListed
  BY DEF AdmittedListed, SecretlessListed
<1>4. QED
  BY <1>1, <1>2, <1>3, AlwaysLoaded, PTL DEF Spec

-----------------------------------------------------------------------------
(* A reload nobody edited a source under has read what the sources say.    *)
CleanReads ==
    \A r \in Reloads :
        clean[r] => /\ pc[r] # "idle" => gotFile[r] = file
                    /\ pc[r] = "swap" => gotApi[r] = api

(* When the last reload to finish began after the last edit, the map is up *)
(* to date, however many others are in flight.                             *)
THEOREM Refetched == Spec => []RefetchWorks
<1> DEFINE Inv == CleanReads /\ RefetchWorks
<1>1. Init => Inv
  BY DEF Init, CleanReads, RefetchWorks
<1>2. TypeOK /\ Inv /\ [Next]_vars => Inv'
  <2> SUFFICES ASSUME TypeOK, Inv, [Next]_vars PROVE Inv'
    OBVIOUS
  <2> USE DEF TypeOK, CleanReads, RefetchWorks
  <2>1. CASE Edit
    BY <2>1 DEF Edit
  <2>2. ASSUME NEW r \in Reloads, ReadFile(r) PROVE Inv'
    BY <2>2 DEF ReadFile
  <2>3. ASSUME NEW r \in Reloads, ReadApi(r) PROVE Inv'
    BY <2>3 DEF ReadApi
  <2>4. ASSUME NEW r \in Reloads, Swap(r) PROVE Inv'
    BY <2>4 DEF Swap
  <2>5. ASSUME NEW id \in ClientIds, Authorize(id) PROVE Inv'
    BY <2>5 DEF Authorize, reloadVars
  <2>6. ASSUME NEW id \in ClientIds, NEW grant \in Grants,
               NEW proof \in BOOLEAN,
               ValidateToken(id, grant, proof)
        PROVE  Inv'
    BY <2>6 DEF ValidateToken, reloadVars
  <2>7. ASSUME NEW q \in admitted, ClientCredentials(q) PROVE Inv'
    BY <2>7 DEF ClientCredentials, reloadVars
  <2>8. CASE UNCHANGED vars
    BY <2>8 DEF vars, reloadVars
  <2>9. QED
    BY <2>1, <2>2, <2>3, <2>4, <2>5, <2>6, <2>7, <2>8 DEF Next
<1>3. QED
  BY <1>1, <1>2, TypeCorrect, PTL DEF Spec

-----------------------------------------------------------------------------
(* A reload that removes a client leaves it what its requests in flight    *)
(* have been admitted to, and no more, until another brings it back.       *)
THEOREM Removal == Spec => RemovedStaysOut
<1> DEFINE Same(id, grant) ==
        /\ clients[id] = NoClient
        /\ [id |-> id, grant |-> grant] \in (admitted \cup granted)'
        => [id |-> id, grant |-> grant] \in admitted \cup granted
<1>1. [Next]_vars
        => [\A id \in ClientIds, grant \in Grants : Same(id, grant)]_vars
  <2> SUFFICES ASSUME Next, NEW id \in ClientIds, NEW grant \in Grants
               PROVE  Same(id, grant)
    OBVIOUS
  <2>1. ASSUME NEW d \in ClientIds, NEW g \in Grants, NEW proof \in BOOLEAN,
               ValidateToken(d, g, proof)
        PROVE  Same(id, grant)
    <3>1. clients[d] # NoClient
      BY <2>1 DEF ValidateToken, BasicAuth, PfasAuth, IAMAuth,
                  ValidateCredentials
    <3>2. /\ admitted' = admitted \cup {[id |-> d, grant |-> g]}
          /\ granted' = granted
      BY <2>1 DEF ValidateToken
    <3>3. QED
      BY <3>1, <3>2
  <2>2. ASSUME NEW q \in admitted, ClientCredentials(q)
        PROVE  Same(id, grant)
    BY <2>2 DEF ClientCredentials
  <2>3. CASE UNCHANGED <<admitted, granted>>
    BY <2>3
  <2>4. QED
    BY <2>1, <2>2, <2>3 DEF Next, Edit, ReadFile, ReadApi, Swap, Authorize
<1>2. QED
  BY <1>1, PTL DEF Spec, RemovedStaysOut
=============================================================================
