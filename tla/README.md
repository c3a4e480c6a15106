# lx-idauth in TLA+

lx-idauth is a Go library and service that logs people in through external
identity providers (OpenID Connect, WS-Federation), keeps their sessions, and
gives the applications that called it (its *clients*) a bearer token for a
session. These modules model what is hard to test in it: HTTP handlers that
overlap on one session, one browser or one code; three storage back ends that
behave differently; saves, audits and caches that fail half way or whose answer
is lost; processes that stop and are started again. Paths below
are relative to the source tree.

## 1. The system

| Part | State | Operations | Talks to |
|---|---|---|---|
| Session stores (`session.go`) | sessions in an in-memory cache, Redis or Postgres | Create, Get, Update, Extend, Delete, DeleteUserSession, DeleteExpiredSessions | handlers, cron job |
| Session endpoints (`routes.go`, `user_sessions.go`, middleware in `idauth.go`) | none of their own; the session the bearer middleware fetched | get, keep-alive, sign-out, accept terms, select role, revoke | session store, authorizer, audit |
| Login flow (`authorize`, `callback`, `oidcLogoutCallback`, `handleUserData`, `RedirectToCaller`) | the correlation of a browser, keyed by a cookie (`app/correlation.go`) | Set, Get, Delete | provider, authorizer, session store, audit, one-time tokens |
| One-time tokens (`app/oot.go`) | codes in a cache | GenerateToken, RedeemToken | `RedirectToCaller`, token endpoint |
| Client registry (`core/client_composite.go`) | a map of clients, replaced as a whole | load, reload (webhook), look-up | client file, client API |
| Service grants (`clientCredentials`, `core/token_validator.go`) | none | pick a validator, check the client | client registry, upstream issuers |
| Providers (`oidc.go`, `vpm.go`, `providers.go`) | the sign-out URL of the last callback | Authorize, Callback, GetSignoutURL | the identity provider |
| Authorizer, audit (`core/authorizer.go`, `core/audit.go`) | none | GetUserData, SaveEvent | HTTP services |
| Claim mapping, metadata, configuration, server command | none, or fixed at start | | |

What makes it hard:

- **Pointers or copies.** A handler works on the `*core.Session` or
  `*core.Correlation` a cache gave it. The in-memory cache gives every handler
  the same pointer, so each assignment is visible at once and never needs a
  save. Redis and Postgres give a private copy, so a handler changes nothing
  until it saves, and then overwrites what others saved meanwhile. The same
  line of code means two different things; every module with cached objects
  has a `View` and a `Write` that make the difference.
- **Upserts.** `Update` stores whatever it is given under its key, whether or
  not the key is still there.
- **Read, then delete.** `RedeemToken` is two cache calls.
- **State set early.** The session id is in the correlation before the
  session exists; a second callback of the browser acts on it.
- **Failures in the middle.** A login is a correlation, a session, perhaps a
  second write of the correlation, and an audit event. Each can fail, and each
  can be done although its caller is told it failed.
- **A process that stops.** It takes its requests with it at whatever step they
  are, and in memory the sessions, correlations and codes too; cookies and codes
  outside remain. Nothing is recovered at start, so what is left half done has
  to be harmless as it is.
- **Loose redirect URIs.** Any piece of a registered redirect URI is accepted in
  an `/authorize` request (`validRedirectURI`): two clients may use one URI, and
  one may be no URL at all, which only shows when the answer or the terms page is
  made from it, the session being open by then.
- **Time.** A cache entry lapses by when it was last *set*, the response by
  when the session was last *accessed*, the database job by its own rule.

What makes each part correct:

- sessions: the terms come before anything else; a role in use is a granted
  one; a deleted session stays deleted; a used session is kept, an unused one
  goes;
- codes: worth one access token, for the redirect URI they were made for;
- login: the answer goes to the client that asked, names a session that
  exists, happens once, and a failed login leaves nothing behind; a session that
  stays is in the audit log;
- clients: a reload makes the map what the sources say; a client is a web
  client or a service, and has the grants a source lists for it; a removed one
  gets nothing new.

The hazards, each at its line and with the properties that watch it, are in
`PROJECT.json`.

## 2. The modules

| Module | Models | Variables | Actions |
|---|---|---|---|
| `Sessions` | stores and session endpoints, all three back ends by `Backend` | `live`, `stored`, `age`: the store; `pc`, `held`, `copy`, `answer`, `pick`: the requests in flight; `issued`, `machine`: ids drawn | one per step of a handler between two calls others can see: `TermsAsk`, `TermsSettle`, `TermsSave` are `termsAccept`; `RoleCheck`, `RoleApply`, `RoleSave`, `RoleAudit` are `setSessionRole`; `Tick` and `DeleteExpiredSessions` are time and the cron job, `Crash` a process that stops |
| `OneTimeGrant` | what a code promises (abstract) | `issued`, `outstanding`, `delivered` | `Issue`, `Exchange`, `Withdraw` |
| `OneTimeTokens` | `app/oot.go` and `authorizationCode` | `store`; `phase`, `code`, `found` of each token request; `delivered` | `GenerateToken`, `GetToken`, `DeleteToken`, `Deliver`, `Refuse`, `Expire`, `Crash` |
| `SignIn` | the logins and the tokens together: `RedirectToCaller` makes a code of a login's answer, `authorizationCode` compares redirect URIs | those of `OneTimeTokens`; `begun`, `identified`, `loginOf`, `answered` of `LoginPromise`; `codeFor`, `access` | `LogIn`, `RedirectToCaller`, `RedeemToken`, `AuthorizationCode`, and those nobody notices |
| `LoginPromise` | what a login promises the clients (abstract) | `begun`, `identified`, `loginOf`, `live`, `givenUp`, `answered` | `Begin`, `Identify`, `Open`, `GiveUp`, `Answer`, `Refuse` |
| `LoginFlow` | the requests of one browser | `cookie`, `present`, `slot`: the cookie and the correlation cache; `live`: sessions; per request `carried`, `at`, `cor`, `base`, `found`, `sid`, ...; `outcome`: what became of each login, the audit log included; `answers` | `Authorize` ... `Forget`, in the order of the code; `BuildTOSRedirect` and `Redirect` are where a redirect URI that is no URL (`Unparsable`) shows; `Lapse`, `Crash` |
| `ClientRegistry` | reloads, and who may use what | `clients`; `file`, `api`: the versions of the sources; `gotFile`, `gotApi`: what a reload has read; `begun`, `granted`; `admitted`: the token requests between validator and session | `ReadFile`, `ReadApi`, `Swap`, `Authorize`, `ValidateToken`, `ClientCredentials`, `Edit` |
| `SessionsProofs`, `OneTimeTokensProofs`, `SignInProofs`, `LoginFlowProofs`, `ClientRegistryProofs` | typing, and the theorems it gives, of each component | | |
| `SessionUpdatesProofs` (extends `SessionsProofs`) | what overlapping updates cannot do to a session | | |
| `LoginPromiseProofs` (extends `LoginFlowProofs`), `LoginOutcomeProofs` (extends both) | what clients are told over a cache of copies; what becomes of a login, for the most part without overlap | | |
| `MCSessions`, `MCOneTimeTokens`, `MCSignIn`, `MCLoginFlow`, `MCClientRegistry` | constant values and symmetry | | |

How the state corresponds to the code:

- A handler's steps are cut where another request can see or change something:
  at every store or cache call, at every call to another service, and, for the
  shared objects of the in-memory cache, between groups of assignments. A
  request that has been answered returns to `idle` and resets its locals, so
  that states that differ only in dead variables are one.
- `Sessions.stored[s]` is what the store holds; with pointers it is the
  object itself, and stays with its holders after its key has gone. `copy[r]`
  is the private copy. `LoginFlow.slot` and `cor` are the same for
  correlations; `base` is the second object `Set` reads.
- Data is kept to what decides. A session is its state, terms, role list,
  current role and idle time. A correlation is its client, the flow it is for
  (standing for redirect URI, state, nonce and PKCE together), the session id,
  the error code and the terms redirect. A client is whether it has redirect
  URIs, whether it is a service, and its grants. Names, tokens, scopes,
  signatures and JSON are left out; a scope or secret that does not fit is a
  refusal.
- `SignIn` does not run `LoginFlow`: it takes the login at its word.
  `LoginFlow` is shown to implement `LoginPromise` (`ImplementsPromise`), and
  `SignIn` uses the actions of `LoginPromise` beside those of `OneTimeTokens`.
  Which sessions are open is left out there, as the token endpoint does not ask.
- A definition whose comment begins with "Mutant of" is a changed form of the
  one after it. No behaviour of the model uses it. Each shows, for the
  property named beside it in `PROJECT.json`, that the property would notice.

Taken from the code and worth knowing when reading a module:

- Neither provider's `Authorize` ever returns an error, so that branch of
  `authorize` is left out; `ManagedByProvider` is never set and
  `SessionCreated` never read back, so neither is modelled.
- A service session (`client_credentials` and the like) is authorized whatever
  the terms and the role list say. `machine` marks them, and properties about
  terms and roles are about people's sessions.
- `DeleteUserSession` on a cache does nothing and succeeds;
  `GetUserSessions` answers nil there, so self-service revocation ends in a
  panic: `RevokeCheck` only ends the request.
- `deleteFromCookie` deletes the slot the *request's* cookie named, not the one
  a `Set` may have made since (`LoginFlow!Forget`). A `Set` in a callback whose
  slot has lapsed makes a new slot without a session id (`StoreIn`).
- The Postgres functions are not in the repository. They are modelled from
  their names and their callers: an upsert, a delete by id, and a delete of
  sessions whose last access is `SessionTimeout` or more ago. The caches are
  the Azugo library's: by reference in memory, by value in Redis, an entry
  lapsing a fixed time after it was last set.
- `handleUserData` ends without an audit event when saving a correlation fails,
  the second time with the session left open (`LoginFlow!Set`).
- `SaveEvent` leaves an unsuccessful event for a login whose session could not be
  created; `outcome` records the successful ones only.
- A token request looks its client up once, in its validator, and asks the
  authorizer after that (`ValidateToken`, `ClientCredentials`).
- Client and redirect URI of an `/authorize` request are independent
  (`SignIn!ClientOf`, `SignIn!RedirectURI`): the URI is only looked for in the
  client's list, and other clients may have it in theirs. The token endpoint
  asks for no client, only for the URI, so `SignIn` says nothing of who presents
  a code.
- A redirect URI may be no URL (`LoginFlow!Unparsable`): `:8080/auth-done` is a
  piece of a registered one and does not parse. `handleUserData` then
  returns from `buildTOSRedirect` with the session created, not audited and not
  undone (`BuildTOSRedirect`), and `RedirectToCaller` returns before it answers
  or deletes anything (`Redirect`); the callback of an unknown provider deletes
  the correlation all the same.
- `termsAccept` believes the authorizer: an answer without an acceptance clears
  the one the session has (`TermsAsk`), and the no-op authorizer never answers
  one.
- A reload of the clients that fails leaves the map alone; the webhook answers
  200 all the same, which is not modelled.

## 3. What the runs check

Sizes are distinct states.

| Run | Instance | Shows |
|---|---|---|
| `SessionsMemory` (136 k) | 1 session, 2 requests, 2 roles, 4 role lists, timeout 2, in memory, restarts, fairness | `TypeOK`; `AgreementFirst`: no interleaving of terms, role and keep-alive gets past "req_agreement" without the terms; `GoneStaysGone`; `UnsavedSessionsGo` by the lapse of cache entries |
| `SessionsRedis` (1.4 M) | the same over Redis, saves failing | `AgreementFirst`; `RoleGranted`: check and change are made on one copy; `GoneStaysGone`; `KeptWhileUsed` |
| `SessionsPostgres` (473 k) | 1 session, 2 requests, timeout 1, clean-up on, saves failing, crashes, an authorizer that may deny an acceptance, fairness | `GoneStaysGone`; `UnsavedSessionsGo` by the clean-up job; `AcceptanceKept`: only a denial, or a request that read the session before the acceptance, takes it back, and no request joins those. A keep-alive does not: it reads the session again before it saves it |
| `TokensOverlapping` (918 k) | 3 logins of 2 clients, two of them with one redirect URI, 2 session ids, 2 codes, 3 redemptions with either redirect URI, crashes, caches whose writes fail but whose deletes work | `TypeOK`, `DeliveredIsSpent`, `SpentStaysSpent`; `AccessFollowsAnswer`: an access token is for a session that was answered to a flow with the URI presented, and that flow is of the session's client; `ImplementsGrant`: every step is one of `OneTimeGrant`, or the answer to a contended code |
| `LoginTabs` (1.4 M) | 2 logins, 2 clients, 2 requests at once, over Redis, caches and stores failing, answers lost, crashes | `TypeOK`, `ClientIsolation`, `NoEmptyCode`; `CodeAccountedFor`: a code for no session is for a login that is under way, or was given up or lost; `ImplementsPromise`: every step is one of `LoginPromise` |
| `LoginAlone` (490 k) | 3 logins, one with a redirect URI that is no URL, 2 clients, one request at a time, in memory, provider sign-out, audit failing or its answer lost, restarts | `CodeNamesSession`, `FailedLoginLeavesNothing`, `AnsweredOnce`, `TermsRedirect`; `AuditedLogins`: an open session nobody works on is in the log, but for the login whose terms page could not be made (`NoTermsPage`) |
| `Clients` (1.9 M) | 3 clients, 2 edits of each source, 2 reloads at once, 1 token request across them | `TypeOK`, `RefetchWorks`, `WebOrService`, `SecretlessListed`; `RemovedStaysOut` |

Five runs end in a counterexample. Each sets what a comment in the code says
against what the code does; the quotations are under "findings" in
`PROJECT.json`.

| Run | Comment | What happens |
|---|---|---|
| `SessionsRole` | `idauth.go:281` | the terms are accepted with one, blocked, role: authorized without a role |
| `SessionsExtend` | `session.go:135` | the entry lapses, the save fails, the keep-alive answers for a session that is nowhere |
| `TokensOnce` | `routes.go:213` | two redemptions read one code before either deletes it |
| `LoginBleed` | `app/correlation.go:64` | over Redis an abandoned login's callback writes its session id into the new login's slot |
| `LoginSignout` | `core/correlation.go:31` | over Redis the terms redirect does not survive the provider's sign-out |

### Bounds and assumptions

- One session is enough where requests meet on it; two sessions meet only in
  self-service revocation, which does to the other session what an
  administrator's deletion does to any.
- Two requests at once are enough for every hazard listed: each is one request
  acting on what it read before another changed it. Three redemptions are run so
  that one can begin while two contend.
- `Timeout` of 1 or 2 seconds gives an entry that is fresh, one about to lapse
  and one past its time; `idle` is counted to `Timeout + 1`, the first value
  for which the code answers a negative time to live. `delivered` is counted to
  2, which is all `RedeemedOnce` asks.
- The role lists are: none, one granted, one blocked, two granted. These take
  every branch of the code; a list of three is treated as one of two.
- The Sessions runs, but for `SessionsPostgres`, answer an acceptance of the
  terms with "accepted" (`TermsAnswers = {TRUE}`): the authorizer is told of it
  and is asked to confirm. Without that `AgreementFirst` and `RoleGranted` are
  not the service's to promise: an acceptance that is not confirmed replaces the
  role list and keeps the role. What holds when the authorizer may also deny is
  `AcceptanceKept`.
- `KeptWhileUsed` is about Redis. In memory an access is in the shared object
  before the save that makes the entry young again, and the entry may lapse in
  between. What the clean-up of the database takes is decided by a function that
  is not in the repository: `DeleteExpiredSessions` assumes its rule, and a
  property that repeats it would say nothing of the code.
- `RoleGranted` is about copies. In memory, an acceptance may replace the role
  list between a check and the assignment. `NoEmptyCode` likewise: in memory a
  new `/authorize` may empty the slot a callback is about to redirect with.
- A crash stops any set of the requests in flight at once, the processes of an
  installation being any partition of them. In memory there is one process, and
  all its requests and its caches go. It may happen at any step and any number
  of times. `LoginBleed` and `LoginSignout` leave crashes out: their
  counterexamples need none.
- A store or an audit service that fails may have done what it was asked
  (`CreateSession`, `SaveEvent`, `Create`). `LoginTabs` leaves the audit's
  failure out, as its properties hold of a login that is undone for whatever
  reason and the store's failure takes the same way out; `LoginAlone` has it.
- In `LoginTabs` every redirect URI is a URL: with one that is not, a request
  ends earlier and answers less, and the promise it makes is proved of any set
  of such flows (section 4).
- In `SignIn` a token request chooses the URI it presents when it is compared;
  the code reads it earlier, and looks at it there only.
- `TokenRequests` is 1: token requests do not touch each other, only the map.
- The serial login runs let the audit fail, but not the store or the caches: a
  session whose deletion fails too stays behind, and a correlation that cannot be
  saved ends in a code for no session (`routes.go:789`), so
  `FailedLoginLeavesNothing` would not hold of the one, nor `CodeNamesSession` of
  the other. What holds then is `CodeAccountedFor`.
- Symmetry is used for ids and requests, in runs of invariants and action
  properties only.
- The Login runs do not check for deadlock: a behaviour ends when the flows and
  ids of the instance are used up. All others do.

### Fairness

`Sessions!Fairness` is weak fairness of each request's own steps (a goroutine
that has begun runs on; its calls to other services return or fail, the HTTP
clients having time-outs), of the clock, and of the cron job where it is
enabled. No request has to arrive.

## 4. What is proved

tlapm checks every proof; they hold for every value of the constants that
satisfies the named assumptions.

- `SessionsProofs`
  - `TypeCorrect`. Besides types, `TypeOK` says that what is live was issued,
    that a request holds a session exactly while it is busy, and that a role
    about to be applied was picked.
  - `RemovalIsFinal` (`GoneStaysGone`). Only `Put` adds a key that was there
    before, and only requests in `Saving` put; `SaversFetched` shows that a
    request enters `Saving` only through the bearer middleware, which found the
    session.
  - `TermsFirst` (`AgreementFirst`), assuming `TermsAnswers = {TRUE}`.
    The property is not inductive: a private copy may be saved later, and with
    shared pointers `TermsAsk` and `TermsSettle` are two steps. The
    strengthening says it of every copy and of every shared object too, and
    that a request between the two steps has the terms accepted in its view.
- `SessionUpdatesProofs`
  - `RolesStayGranted` (`RoleGranted`), assuming `TermsAnswers = {TRUE}`. The
    strengthening (`ConsistentEverywhere`) says it of everything stored and of
    every private copy but those between `TermsAsk` and `TermsSettle`, whose list
    is the authorizer's last answer; and a role about to be applied is granted in
    the copy it was found in.
  - `AcceptanceIsFinal` (`AcceptanceKept`), with no assumption, for every back
    end and whatever the authorizer answers. The property is a step property and
    speaks of the requests that can undo an acceptance (`Unaware`), so typing is
    all the invariant it needs; the proof goes through the steps, apart for a
    shared object (`SharedRemains`), where no step but a denial clears
    the flag, and for copies (`CopiesRemain`), where `ExtendRead` and `Arrive` are
    the ones that could bring in a request that does not know of it.
  - `UsedSessionsStay` (`KeptWhileUsed`), with no assumption. What makes it hold
    is an invariant about time: an entry is never older than the last access its
    session records (`AgeWithinIdle`), since every save resets the age, to an
    object whose idle time may be stale but never negative.
- `OneTimeTokensProofs`
  - `TypeCorrect`, `NeverRegenerated` (`SpentStaysSpent`).
  - `SpentOnceDelivered` (`DeliveredIsSpent`), from the invariant that a request
    past its `DeleteToken` has no code in the store, given that deletes work.
  - `Redemption` (`ImplementsGrant`), given that deletes work: every step maps to
    a step of `OneTimeGrant` or to a stutter, a token a request has read counting
    as outstanding until it is answered; the one exception is a `Deliver` while
    another request holds the same code. A crash withdraws the codes that were
    only in the hands of the requests it stops, and in memory those of the store.
    `SerialRedemption` follows: with one redeemer the store implements
    `OneTimeGrant` as it stands.
- `SignInProofs`
  - `RunsTokens`: forget the logins, and `SignIn` is `OneTimeTokens`, step by
    step; so the theorems above hold of it (`SignInRedemption` is one).
  - `AccessIsTraced` (`AccessFollowsAnswer`), whatever fails and however the
    clients share redirect URIs. The property looks at what was delivered; the
    strengthening `Traceable` says of every code in the store or in the hand of
    a request that its session was answered to a flow with its redirect URI, a
    flow of the client the session was begun for. `RedirectToCaller` establishes
    it, by the promise of the login; what was answered stays answered, and an
    identified session keeps its login (`StaysAnswered`); no code comes back, so
    no stale request can be given another's session; `ValidRedirect` carries it
    over to the access token.
- `ClientRegistryProofs`
  - `TypeCorrect`.
  - `OneUse` (`WebOrService`) and `GrantsListed` (`SecretlessListed`), from
    the invariant that the map is always `Load` of some version of each source,
    and a history invariant on `begun`, `admitted` and `granted`: what a token
    request was admitted to stays right though the map moves on.
  - `Removal` (`RemovedStaysOut`).
  - `Refetched` (`RefetchWorks`), from the invariant that a reload marked clean has
    read the versions the sources are at.

- `LoginFlowProofs`
  - `TypeCorrect`. `TypeOK` also says that a cached correlation names the client
    of its flow; the invariant says it of the copies too (`Matched`), and that a
    request past its first step works on a slot (`Located`).
  - `Isolation` (`ClientIsolation`), with no assumption on the cache or on what
    fails. `ClientIsolation` only looks at answers; the strengthening `Honest`
    says of every correlation, in a slot, in a copy or about to be written back,
    that a session id in it was drawn for a flow of the correlation's client.
    The steps that could break it are `Set`, where `Merge` moves an id into an
    older correlation, but only one of the same client, and `DrawSessionId`,
    where the id must be new (`Grows`).

- `LoginPromiseProofs`: the cache holds copies; any number of requests of one
  browser overlap, and caches, store, audit and processes may fail.
  - `KeepsPromise` (`ImplementsPromise`), given copies (`~SharesPointers`): the
    initial state and every step of `LoginFlow` are those of `LoginPromise` or a
    stutter. `AccessIsTraced` rests on this when read as a statement about the whole
    service.
  - `NoCallerGetsEmptyCode` (`NoEmptyCode`) and `CodesAccountedFor`
    (`CodeAccountedFor`). The properties speak of copies only, so the theorems
    need no hypothesis.
  - All three from one inductive invariant, `Copies`. A request works on an id of
    its own (`OwnLogin`, `Distinct`), of which nothing is decided before the
    request decides it (`Undecided`), and whose session is there once it is
    audited (`Created`). The heart is `Known`: an id that can be seen anywhere,
    in the cache, in a copy about to be written back or in an answer, is
    accounted for; between its draw and the first `Set` only one request knows
    it. `Begun` says the same of flows, and a crash keeps it all because what a
    stopped request alone knew goes with it (`CrashLeaves`).
  - `AlwaysTakenBack`, the half of `FailedLoginsLeaveNothing` (below) that is about
    copies, from `Copies` and two more invariants: only a correlation about to
    be answered has an error (`Errors`), so no slot and no other request can; and
    the id of a login that was refused is not in the store and in no request's
    hand that could open it (`TakenBack`).
- `LoginOutcomeProofs`
  - `LoginsAreAudited` (`AuditedLogins`), where caches and session store answer
    and only an in-memory installation stops, for any number of requests at once:
    `Recorded` says where, in the request that opened it, a session that is not
    in the log yet is. The one exception, `NoTermsPage`, is in the property: the
    user owes the terms, the login was given up, and a flow of the client has a
    redirect URI that does not parse. `Traced` ties that to the login: the
    correlation a request works on is of the client its session was begun for.
    Where every redirect URI parses (`Unparsable = {}`) there is no exception.
  - `FailedLoginsLeaveNothing` (`FailedLoginLeavesNothing`), where the session
    store answers: over copies for any number of requests, whatever else fails
    or stops; in memory for requests that do not overlap.
  - Where a browser's requests do not overlap (`OneAtATime`), the caches answer and
    only an in-memory installation stops: `CodesNameSessions`
    (`CodeNamesSession`), `AnswersOnce` (`AnsweredOnce`) and, if the cache shares
    its objects or the provider has no sign-out callback, `TermsAreShown`
    (`TermsRedirect`). The session store may fail, before or after it has done
    what it was asked. The invariant, `Undisturbed`, follows the login of the one
    request through the handler: the slot of its cookie holds that login as far as
    the last `Set` took it (`Working`), its id is in no answer and opens no session
    before `CreateSession` (`Opening`), and what a later callback may find in a
    slot is a login nobody has been answered for (`Settled`).

Why the hypotheses are there: for each, TLC finds the property violated on an
instance of one or two requests that drops it.

| Theorem | Does not hold |
|---|---|
| `LoginsAreAudited` | where `Delete` fails in an undo; where the second `Set` fails, after the session was created; over copies, when a process stops before the audit |
| `CodesNameSessions`, `AnswersOnce`, `TermsAreShown` | with overlap: a second callback of the browser finds the id before its session exists, or answers once more; where a call to the correlation cache fails; over copies, when a process stops half way and the browser tries again: the cache has an id whose login was not finished, or was answered |
| `TermsAreShown` | over copies with a sign-out callback: the run `LoginSignout` |
| `FailedLoginsLeaveNothing` | where `Delete` fails in an undo; in memory with overlap, as two callbacks share one correlation |

What holds where these fail is what `LoginPromiseProofs` shows.
The theorems also cover what the runs do not: `LoginAlone` is run in memory, with
a store that answers, and its properties are proved over copies as well.

The proofs take the drawn ids from one source: `Slots`, `Flows` and `SessionIds`
are assumed disjoint (they are ULIDs and request states, never compared with
one another), which `drawn` needs to hold them all.

Only model-checked: the liveness property `UnsavedSessionsGo`, which the prover
cannot treat (fairness, ENABLED), and the counterexamples. Every other property of a passing run is a theorem.

## 5. What is not modelled

Provider protocols, provider selection, the shared redirect URL of a provider
(`oidc.go:82`: always of the same value), the sign-out URL a provider object
remembers of its last callback (`oidc.go:106`, `vpm.go:115`: no document says whose
a browser may be sent to, and nothing but its next page depends on it), the
authorizer's and the audit
service's HTTP exchange and error parsing, what an upstream issuer vouches for,
what a claim mapping script computes, metadata, configuration and start-up, the
server command, and what responses contain. One process per client map: that a
reload reaches only the process that is called is not modelled, nor what the
reload webhook answers. `PROJECT.json` says of each why.

## 6. Plan

Order of work; the first thirteen are done.

1. `Sessions`, with proofs of typing, finality of removal, terms first.
2. `OneTimeGrant`, `OneTimeTokens`, with the refinement proved.
3. `LoginFlow`, overlapping and serial.
4. `ClientRegistry`, with proofs.
5. Findings against the comments, one run each.
6. `LoginFlowProofs`: typing and `ClientIsolation`.
7. Crashes, restarts and lost answers in `Sessions`, `OneTimeTokens`, `LoginFlow`.
8. The audit log, and redirect URIs that are no URL, in `LoginFlow`.
9. `LoginPromise`, which `LoginFlow` implements, and `SignIn`, which composes it
   with `OneTimeTokens`; `SignInProofs`.
10. Token requests across a reload, in `ClientRegistry`.
11. `SessionUpdatesProofs`: roles, acceptance and expiry under overlapping updates.
12. `LoginPromiseProofs`: the promise of a login over copies, from `Copies`.
13. `LoginOutcomeProofs`: the audit log, failed logins, and logins that nothing
    disturbs.
14. `KeepsPromise` for the in-memory cache, where a request's correlation may be
    replaced under it: which of the promise is left, and its refinement.
15. Audit events other than the login's: what is audited of a change that fails.
