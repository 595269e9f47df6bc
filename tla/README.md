# A TLA+ model of mcp-auth-demo

The repository is a set of example MCP servers and clients, each with another
way to authenticate. What they keep over several requests, tokens, sessions,
caches, key sets and store files, and what their steps do to each other, is modelled
here, checked with TLC and, where that is possible, proved with TLAPS.

## The system

| Component | State it keeps | Operations | Interacts with |
|---|---|---|---|
| Embedded authorization server (`examples/03-oauth-embedded-as/provider.ts`, `pages.ts`) | in-memory maps: clients, pending transactions, codes, spent codes, access tokens, refresh tokens | register, authorize, sign in, consent, code grant (two calls), refresh grant, verify, revoke, prune | called by the SDK's `/authorize`, `/token`, `/register`, `/revoke` handlers, by the browser through the pages, and by the bearer guard of the session endpoint |
| MCP session endpoint (`src/shared/http.ts`) | sessions: subject, last activity, open streams | POST, GET, DELETE, sweep | bearer guards of every example are awaited before its handlers |
| Introspection cache (`examples/07`) | promise and deadline per token hash | look up, answer, fail, prune | Keycloak introspection endpoint, after discovery |
| Auth gateway (`examples/09`) | requests being proxied; assertion ids already seen | verify, sign, proxy, relay, abort; verify and remember, trust headers | the gateway signs and forwards, the internal server verifies |
| Token exchange (`examples/10`) | exchanged token and deadline per subject token | look up, exchange, evict, call the API | Keycloak token endpoint, the downstream API |
| CLI OAuth client (`src/shared/client/oauth-cli.ts`, and its twin `examples/11/client.py`) | store file, callback listener, state, PKCE verifier | connect, register, refresh, redirect, callback, timeout, cancel, finish, save | authorization servers, the browser, other processes through the store file and the callback port |
| Keycloak facade (`examples/06`) | clients registered through it | registration, passthrough | Keycloak |
| Local issuer (`examples/02`) | key pair on disk, key published | load, rotate, publish, mint | file system, the resource server's key cache |
| Resource servers (`examples/01`, `02`, `04`, `05`, `08`, `11`) | key table, cached key sets, TLS connections | verify a key, a certificate or a token; run a tool if its scope allows | JWKS endpoints, the session endpoint |
| Smoke test runner (`scripts/smoke.ts`, `spawnExample` of `src/shared/testing.ts`) | results, the current example, child processes and their ports, a token store per example | start servers, run client steps, probe, stop, report, `--keep` | servers and clients of all examples as processes, earlier invocations through ports left in use |
| Keycloak helpers (`src/shared/keycloak.ts`) | discovery promise | discover, introspect, exchange, revoke, log out | Keycloak |

What is hard in this code is not any one handler but their sequence. Node runs
a handler up to its next `await` without interruption; what interleaves is the
rest: two token requests between the challenge and the exchange of one code,
pages left open in a browser while the transaction changes, refreshes and
revocations of one family, entries that expire between being read and being
used (with deadlines compared by `<` in some places and `<=` in others, in
milliseconds in some and in seconds in others), answers that are shared, late or lost,
processes that share a file or a port, processes that hang or outlive the one that
started them, keys that change under a cache, and restarts that forget everything while clients and browsers forget nothing. `PROJECT.json` lists
these hazards at the lines where they bite.

The properties that make each component correct:

* *Embedded server*: codes and refresh tokens are redeemed once; a revoked
  family is gone and stays gone; a family has one current refresh token; tokens
  stay within a consent, and a consent within the rights of the user; a code is
  redeemed only by the client, verifier and redirect URI it is bound to;
  replays are recognised; nothing is lost except for a stated reason.
* *Session endpoint*: a session is used by one principal; an idle session is
  swept in the end, one in use is not; a closed session is not found again.
* *Introspection cache*: bounded revocation latency; one call in flight for a
  token; a good token is refused only because of an answer that could not be read, and for one
  negative window at most; no entry is lost to pruning or to an older call.
* *Gateway*: an assertion is accepted at most once, whatever the order and the clock; the
  internal server serves the caller the gateway verified.
* *Token exchange*: the API answers only about the caller, and only for an exchanged
  token; no cached token is used after it or its subject token has expired; a logged-out
  user's tokens are soon of no use.
* *CLI client*: a login redeems only the code of its own state; the port is released in the
  end; the store keeps the newest token; no family is burned by ordinary runs; every run ends.
* *Resource servers*: no broken credential gets in; a tool runs only with its right; a
  withdrawn key is soon out of use; a good token is not called bad because of an outage.
* *Smoke test*: no server or client survives its place; a green run left nothing out and met
  the servers it had started; a run in which nothing went wrong is green; every run ends, unless
  it waits for one of the two things it has no timer for.

## Modules

| Module | What it is |
|---|---|
| `EmbeddedAS.tla` | the embedded authorization server: state, actions, properties, inductive invariant |
| `GrantChain.tla` | abstract specification of what the server promises: offers, each redeemed once for one successor of its family, or withdrawn |
| `MCEmbeddedAS.tla` | instances for TLC: users, requests, symmetry |
| `EmbeddedAS_proofs.tla` | theorems about `EmbeddedAS` and their proofs |
| `McpSessions.tla` | the stateful session endpoint: state, actions, fairness, properties, inductive invariant |
| `MCMcpSessions.tla` | instances for TLC |
| `McpSessions_proofs.tla` | theorems about `McpSessions` and their proofs |
| `JwtPolicy.tla` | what claims entitle to: the rules of `jwt.ts` and of the role policy in `keycloak.ts`, shared by the four modules below |
| `IntrospectionCache.tla` | example 07: the cache of introspection answers and calls in flight |
| `RevocationOracle.tla` | abstract specification of what 07 promises: a verifier that sees every token at once, but for a bounded delay and a bounded time of wrong blame |
| `AuthGateway.tla` | example 09: gateway and internal server together, with the assertions between them |
| `ExchangeCache.tla` | example 10: the MCP server's tools, its cache and the downstream API together |
| `DelegationOracle.tla` | abstract specification of what 10 promises: answers about the caller alone, on a delegation obtained in time and of bounded life |
| `ResourceServers.tla` | examples 01, 02, 04, 05, 08 and 11, with the local issuer and the key caches |
| `CliOAuth.tla` | the TypeScript and the Python client, several processes of them, against the servers of 03, 06 and Keycloak |
| `SmokeMatrix.tla`, `SmokeRunner.tla` | the table of the smoke test, whole; its runner, the processes and several invocations |
| `IntrospectionCache_proofs.tla`, `AuthGateway_proofs.tla`, `ExchangeCache_proofs.tla`, `ResourceServers_proofs.tla`, `CliOAuth_proofs.tla`, `SmokeRunner_proofs.tla` | theorems about them and their proofs |
| `MCIntrospectionCache.tla`, `MCAuthGateway.tla`, `MCExchangeCache.tla`, `MCResourceServers.tla`, `MCCliOAuth.tla`, `MCSmokeRunner.tla` | instances for TLC |

`EmbeddedAS` and `McpSessions` do not share state: they meet where the guard of the
endpoint asks the server about a token, which `McpSessions` has as the free choice between
`GuardRefuses` and the handlers. `CliOAuth` composes the clients with what a server is to
them: codes, registrations and families of refresh tokens. It states in a few lines what
`EmbeddedAS` has in full: a rotated token that comes back burns its family.

### EmbeddedAS and the code

The state is that of `DemoAuthorizationServer`: each `Map` is a set of records
that hold their key as a field (`txns`, `codes`, `usedCodes`, `accessTokens`,
`refreshTokens`), `clients` is the set of registered ids, `now` is the clock in
ticks and `NowSec` the same clock in seconds, with `TicksPerSec` ticks to the
second, so that both kinds of deadline and their rounding are there. Three
variables stand for what is outside the provider: `consentPages` (pages left
open in browsers), `inflight` (code requests for which the SDK has the challenge
and not yet called the exchange) and `drawn` (what `randomId()` has returned).
Four are history, read by properties only, never by a guard of the code's
actions: `approvals`, `issued`, `ended` and `reused`.

Each provider method runs without an `await` inside, so each is one action:

| Action | Code |
|---|---|
| `RegisterClient` | `clientsStore.registerClient` |
| `Authorize` | `authorize`, with its `prune` and both refusals |
| `ExpireTxn` | `pending` on an expired transaction, whichever page asked |
| `Authenticate`, `ConsentView`, `Decide` | `POST /login`, `GET /consent`, `POST /consent` with the methods they call |
| `PresentCode` | first half of the code grant: `challengeForAuthorizationCode` |
| `PkceFails` | the SDK's PKCE check refuses (external code) |
| `ExchangeCode` | second half: `exchangeAuthorizationCode` |
| `RefreshToken` | `exchangeRefreshToken` |
| `VerifyExpired` | `verifyAccessToken` deletes an expired token; accepting one changes nothing and is the operator `Accepted` |
| `RevokeAccess`, `RevokeRefresh` | `revokeToken` |
| `Tick`, `Restart` | time; the process starts again |

Abstractions. The access and the refresh token of one call of `issueTokens`
share an identifier, and a family is named by the first pair in it (the code
draws three random strings; nothing compares them across maps). Hashing is
equality: a verifier is its challenge. Of a user, the model keeps the
scopes they may grant; a wrong password or csrf changes no state and is
left out. The SDK's own checks of the client and the redirect URI at
`/authorize` are external: the model takes any combination for which the client
is registered. The clock does not go backwards.

`GrantChain` forgets all of this but the offers: a consent makes one, a
redemption replaces one by a successor with a new identifier in the same family,
and any may be withdrawn for ever. The refinement mapping takes the codes and the
refresh tokens that are not rotated as the offers, and what `randomId()` has returned
as the identifiers known.

### McpSessions and the code

`sessions` is the map of `mountMcp`; the fields of its `Session` objects are
functions of the session id (`subject`, `age`, `streams`), because the close handlers
of a session's streams hold the object after the map has forgotten it. `age` is
`Date.now() - lastSeen`, capped just over the limit. `requests` are the requests
the server is working on, and `timer` is the time since the sweeper ran. `lost` is
history.

| Action | Code |
|---|---|
| `ArriveFirst`, `Arrive` | a request reaches the guards, which are awaited |
| `GuardRefuses` | 401 or 403 of the guard, 415 or 400 of the POST handler, an `initialize` the transport refuses |
| `HangUpEarly` | the client of a GET closes the connection before the handler runs |
| `Initialize` | the POST handler on an `initialize` request, with `onsessioninitialized` |
| `SessionRefused` | `sessionFor` answers 404 or 403 |
| `Use` | a POST in a session, or a DELETE the transport refuses |
| `Get` | the GET handler: counter, close handler, and the transport, which opens the stream or refuses it |
| `Delete` | the DELETE handler with `onsessionclosed` and `onclose` |
| `HangUp`, `End` | the close event of a stream, caused by the client or by the server |
| `Tick`, `Sweep` | time; the interval timer |

Abstractions. The transport is external: of a POST it only matters that it
arrived, and that a transport closes its streams when it is closed. The restart of
the process is the initial state again. The mode without sessions keeps no state
between requests.

### JwtPolicy

Claims are a record; `TokenScopes` and `KeycloakEffectiveScopes` are the two scope
policies, and `JwtVerdict` is `createJwtVerifier` behind the SDK's bearer guard, with the
order of its refusals: no keys, bad token or no expiry, missing scope, expiry. What jose
checks is `JwtVerified`, with its tolerance, which the guard does not have.

### IntrospectionCache and the code

An entry of the map is an object that its call writes to after the map has let go of it,
so `calls` are the entries and `cache` holds references to them. A call goes through
discovery (one promise for all), the POST, the moment Keycloak looks at the token, and
the arrival of the answer; each can fail, and the times of both requests are limited.

| Action | Code |
|---|---|
| `LookupHit`, `LookupMiss` | `lookup` with a good entry or without, with `prune` |
| `Discovered`, `DiscoveryFails` | `discoverKeycloak` |
| `Introspect` | Keycloak's endpoint looks at the token |
| `Settle`, `Fail` | the two continuations of `introspectFn(...).then`, and the verdict of every request that waits |
| `SettleUnread` | the first continuation, on what `readJson` makes of a 200 it cannot read: `{}`, a token that is not active |
| `RevokeToken`, `AdminLogoutUser` | `revokeToken`, `adminLogoutUser` (`revoke.ts`) |

`answered` holds the verdicts given in the last step. Requests that await one promise
continue together and are not told apart; that a request asks again is a further look-up.
Slots of calls are used again once nothing refers to the call (`Collected`, the garbage
collector), and are interchangeable.

`unreadAt` is history: when an answer about a token could not be read, for as long as that
may count.

`RevocationOracle` has no cache and no calls: tokens end, a word on a token may be unreadable,
and answers are given. It may grant a token for `Delay` after its end, and may call a token
invalid only when it is, or for `Blame` after an unreadable word on it. The mapping takes
`revokedAt` as the ends, the expiry of tokens that were issued for this server as `until`
(`Until`), `unreadAt` as the unreadable words, `answered` as the answers, `Ttl + PostMax`
as the delay and `NegativeTtl` as the time of blame.

### AuthGateway and the code

A slot of `requests` is a request through the gateway: guard, signing, upstream
request, relay. `handling` is what the internal server has, on its own clock: requests
from the gateway, and copies sent to its port directly. `asserted` is what each assertion
says and `seen` the replay memory.

| Action | Code |
|---|---|
| `Arrive`, `GuardRefuses` | `requireBearerAuth` of `buildGatewayApp` |
| `Sign`, `Forward` | `makeProxyHandler`: `signAssertion`, awaited; then the headers, the upstream request and the close listener |
| `HangUp` | the client closes the connection |
| `Receive`, `SendCopy` | a request at the internal port |
| `TrustGatewayAssertion`, `TrustForwardedHeaders` | the two modes of the internal server; `verifyAssertion` from where `jwtVerify` returns is one piece |
| `Finish`, `Vanish`, `RelayHead`, `RelayEnd`, `UpstreamError` | the response, its relay, and 502 |
| `RestartInternal` | the process starts again, with an empty replay memory |

An assertion id stands for the signed assertion; it is forged or not. Of the headers, those
that name an identity are kept. The MCP session behind the internal server's guard is
that of `McpSessions`.

### ExchangeCache and the code

`calls` are the tool calls; `cache` is the map of `exchangedTokenFor`, with the tokens
themselves as records of claims, so that the downstream API decides about them with
`JwtVerdict`.

| Action | Code |
|---|---|
| `Arrive` | the bearer guard lets the request in |
| `ProfileHit`, `ProfileMiss` | `exchangedTokenFor` up to its `await`, with the sweep |
| `Issue`, `Settle`, `ExchangeFails` | Keycloak's answer to `exchangeToken`; the rest of the function; the errors |
| `SettleUnread` | the rest of the function when `readJson` could not read the answer: no token (`Undefined`), kept for `Fallback` and sent as it is |
| `Passthrough` | `downstream_passthrough` |
| `ProfileReturns`, `PassthroughReturns` | `httpGetJson`, the API's verdict (`buildDownstreamApp`), and what the tool makes of it |
| `LogOut` | Keycloak ends a user's sessions |

`DelegationOracle` has slots for calls and nothing else: a call is asked with a credential,
may obtain a delegation while the credential is good, and is answered about that user or
refused. A delegation lasts `Delay` at most, counted from when it is obtained or from the end
of the user's sessions, whichever is earlier; it may be lost on its way. In the mapping
(`Asked`), a call of `downstream_profile` is delegated from `Issue`, or a `ProfileHit` on a real
token, until it returns or its answer proves unreadable; a call of `downstream_passthrough`
never is. The credential is the caller's token with its expiry, and the delay is the longest
lifetime of an exchanged token.

### ResourceServers and the code

A behaviour is about one server, named by its example. The JWT examples share one
verifier with a cached key set; `cache` is jose's, `pinned` the second cache of
PyJWKClient, `fetch` the request for the keys. The local issuer is a published key and a
key file that several processes (`loaders`: `issuer.ts`, `mint.ts`) read and write.

| Action | Code |
|---|---|
| `LoadKeys`, `Persist`, `Listen`, `MintDone` | `loadIssuerKeys` up to the generated key, `persist`, `listen` on the issuer's port, `mint.ts` |
| `ArriveJwt` | `verifyAccessToken` (or `verify_token`) up to its answer, or to a request for the keys |
| `FetchRead`, `FetchSettles`, `FetchFails` | the JWKS endpoint answers; the waiting requests go on; they fail |
| `ArriveApiKey`, `RemoveKey` | `lookupApiKey` per request; the table changes |
| `Handshake`, `ArriveMtls` | the TLS handshake; `certAuth` on a request of the connection |
| `CallTool` | `requireScope`, `service_only` |
| `Stop`, `RealmUp`, `Tick`, `Finish` | the JWKS endpoint goes and comes back, Keycloak rotates, time, the end of a request |

Tokens are what `mint.ts` and `POST /token` make, broken variants included, or what the
realm issues, forgeries of it included (`Forged`: no signature, or claims that were changed under
one); only tokens that name a key that exists, or the broken ones, are presented. How jose and PyJWKClient keep
keys is external, taken from their use: an age, a cooldown, one request shared by all who
wait in TypeScript; no cooldown and pinned keys in Python.

### CliOAuth and the code

`procs` are processes of either kind, with what they hold in memory; `store` has one file
for each kind and `port` the one callback port. A login is a number that stands for its
state, verifier, code and family of tokens. `tabs` are the authorization URLs shown, to
any of which the user may come back. `chain` and `fresh` are the servers' side.

| Action | Code |
|---|---|
| `Start`, `LogOut`, `Exit`, `Crash` | a run of a client, `--logout`, its ends |
| `Connect`, `Use` | `connectWithOAuth`, and the demo calls that meet a 401 |
| `Register`, `AuthFails`, `Refresh`, `RefreshFirst` | what the SDK's `auth()` does, with `saveClientInformation`, `saveTokens` and `invalidateCredentials`, and the server's side |
| `BeginLogin`, `Bind`, `BindFails`, `AwaitCallback` | `state`, `redirectToAuthorization` with the listener, `waitForCallback` |
| `Browse` | the browser, and `CallbackListener.handle` (or `do_GET`) at whoever owns the port |
| `TakeCallback`, `Timeout`, `Exchange` | the rest of the login |
| `Expire`, `Restart` | an access token expires; the server restarts |

Every save can be cut short by a crash, which leaves a file that does not parse, and
every answer can be lost after the server acted. `excused` remembers that this, or an
overlap of two runs, has happened.

### SmokeRunner and the code

`SmokeMatrix` is the table `EXAMPLES`: per example its ports, whether it needs Keycloak, and its
steps with the exit code and the users that each has to show. `pc` is where the script is,
`rows` its results. Every process belongs to the invocation (`run`) that started it and is
booting, up, hung (it never comes up), stuck (it holds its port and answers nothing) or gone
(`status`); `signal` is what `stop()` has sent it. Ports have one
listener, and a client cannot tell whose. `store` is the token store of the example.

| Action | Code |
|---|---|
| `Invoke`, `PassOver`, `Begin`, `SetUp`, `SetUpFails` | the arguments and `isKeycloakUp()`, the early `continue`s of the loop, store directory, `setup` |
| `Spawn`, `SpawnFails`, `Ready`, `MomentOver` | `spawnExample`, `waitForHttp` or 1500 ms for https; the start row |
| `EarlyExit`, `WaitTimesOut`, `StopFailed` | its failures: the child is gone, or it is stopped first |
| `StartClient`, `ClientTimer`, `StepDone` | `runClient` with its 120 s, the exit code and the `RESULT` line |
| `ProbePasses`, `ProbeFails`, `NoProbe` | `expect401` |
| `StopServer`, `ServerStopped`, `KillTimer`, `NextExample` | the `finally` block and `stop()` |
| `LoopDone`, `Report`, `Interrupt` | exit codes 0 and 1; Ctrl-C |
| `StaticClient`, `StoredToken`, `RevokedToken`, `OpenBrowser`, `LoggedIn`, `LoginHangs`, `LogoutClient`, `RevokeClient`, `ClientErrs`, `ClientHangs` | what the clients of the examples do of it all: credential, store, browser, exit code |
| `Bind`, `BootFails`, `Crash`, `ServerHangs`, `Terminated`, `OrphanEnds`, `BrowserCloses` | processes |

What a client does follows from its step, the store and whoever listens; whatever else goes
wrong with a process, a crash, a hang, a slow start, an interrupt, is a fault, and
`MaxFaults` bounds them. `dirty` remembers that an invocation ended with processes alive.
`EXPECT_ADMIN` is not kept: the user decides it.

### Plan

Done, in this order: `EmbeddedAS` with `GrantChain` and its proofs; `McpSessions` with
its proofs; `IntrospectionCache`, `AuthGateway`, `ExchangeCache`, `ResourceServers` and
`CliOAuth`, checked with TLC; then the proofs of these five; `SmokeRunner` with its proofs;
the abstract specifications of the two caches, `RevocationOracle` and `DelegationOracle`, with
the proofs that the caches implement them.

To come: an abstract specification of the session endpoint and of the gateway, in the same
style.

## Runs

| Run | Checks | Distinct states |
|---|---|---|
| `tokens` | `EndedStaysDead`, `ReplayRecognisable`, `NoResurrection`, `ImplementsChain` | about 150,000 |
| `consent` | `TypeOK`, `WithinConsent`, `RedeemedByOwner`, `NothingLost` | about 723,000 |
| `replay` | `ReuseRevokes`, which is violated | stops at the violation |
| `tabs` | `ConsentAsShown`, which is violated | stops at the violation |
| `sessions` | `TypeOK`, `StreamsCounted`, `StreamsBelong`, `UsedSessionsStay`, `AbandonedAreSwept` | about 578,000 |
| `leak` | `CrashedAreSwept`, which is violated | 234 |
| `caching` | `TypeOK`, `OneCall`, `GoodEntriesStay`, `ImplementsOracle` | about 437,000 |
| `proxy` | `TypeOK`, `AcceptedOnce`, `ServedAsVerified` | about 2,216,000 |
| `cli_runs` | `TypeOK`, `PortReleased`, `RightCode`, `NewestStored`, `BurnedOnlyByLoss`, `EveryRunEnds` | about 439,000 |
| `exchange_tools` | `TypeOK`, `LiveKept`, `ImplementsDelegation` | about 662,000 |
| `verify` | `TypeOK`, `WithdrawnInTime`, `RefusedHonestly`, `Entitled` | about 3,814,000 |
| `smoke_rows` | `TypeOK`, `NothingLeftRunning`, `ProbeVouches`, `GreenIsComplete`, `HealthyIsGreen`, `InvocationEnds` | about 256,000 |

Three of the runs check that a module implements its abstract specification. Some properties
of the same modules follow from that and are not checked once more, but are conjuncts of the
inductive invariants and theorems of their own: `SingleUse` and `OneLiveRefresh`
(`GrantChain` redeems an offer once, for one successor), `FreshGrants` and
`HonestRefusals` (`RevocationOracle`), `OnBehalf` and `CachedInTime` (`DelegationOracle`).

The bounds, and why they are enough:

* `tokens` has one transaction and one code, two slots for code requests (an
  interleaving of more adds only further losers), and three token pairs, so that
  a family has a root, a rotated token and a current one. Ticks are half
  seconds, so deadlines in ticks and in seconds differ by the rounding; the
  clock runs to 5, past the deadline of every record but those issued last.
  A code lives 1 tick and a spent code is remembered for 1 tick, an
  access token lives 1 s and a refresh token 2 s: the order of the code's
  10 minutes, 15 minutes and 24 hours. Requests include the right one
  and each way to be wrong in one field.
* `consent` has both users and two clients that differ in everything, of which one
  registers first; two transactions, two codes and two token pairs, so that two families
  stand beside each other and a refresh follows an exchange. One request asks for all
  scopes (partly granted to one user), the other for the scope only one user may grant,
  and there are an unknown scope, a foreign resource and every wrong token request. One
  tick of time lets codes and tokens expire.
* `sessions` has two principals, two session ids and two requests at a time: enough for
  two streams of one session, for a stream beside a DELETE by its owner or a
  stranger, and for a request whose session goes while it waits. Limit and
  interval are one tick each; a session is over the limit at two. `MaxStreams`
  bounds the counter, which only grows past the number of requests by lost GETs.
  No symmetry, because liveness is checked.
* `leak` has one of each.
* `caching` has two tokens, one that is good (with or without an expiry)
  and one that lacks the scope or is unknown; three calls, so that a call can replace a
  failed or late one of the same token beside one of the other; and a pruning threshold of
  one, so that it is reached. Answers are kept 2 ticks or 1, a POST takes up to 2 and
  discovery 1, an in-flight entry lasts 2: a call can outlast its entry, as it can in the code when
  discovery and the POST are both slow. Five ticks leave time for a second window. The three
  slots of calls are symmetric.
* `proxy` has one request through the gateway and one copy at a time (slots are used again),
  two assertions, and three tokens: with and without the admin role, and for another audience. An
  assertion lives 2 ticks, with a tolerance of 1 and a gateway clock 1 ahead, so that the
  replay window of 4 just covers it: one tick less and `AcceptedOnce` fails.
* `exchange_tools` has two calls, which are symmetric, and a token for each of two users,
  which expire at different times; exchanged tokens live 1 or 2 ticks, so that either may
  expire first, also after both users are logged out; the sweep begins at one entry. An entry
without a token is kept for 1 tick, less than its caller's token has left or as long, and the clock
runs to 3, when everything that was issued to a user in time has expired or is about to.
* `verify` has every server but 04, which is 05 without `service_only`; two requests,
  which share a request for the keys; two keys, so that one rotation happens; one loader, since
  a second issuer is a loader beside the published key. Keys are kept 2 ticks, the
  cooldown and the request are 1 each, and tokens live past the withdrawal.
* `cli_runs` has two processes: two TypeScript ones that share a store, with a registered
  or the configured client against the embedded server, or one of each kind against the facade
  and Keycloak. Two runs, two logins, two registrations, one refresh of a family and one
  restart of the server are enough to replay a rotated token, to come back to an old tab,
  and to meet a forgotten client.
* `smoke_rows` has six rows of the table: an example with two servers (02), a login after
  another's logout (04), one whose directory is missing (05), a login that is revoked (07), https
  with a setup and no probe (08), and Python, with a logout (11). Two invocations, each of one half
  of the rows, with and without `--keep` and Keycloak, and one fault anywhere: the second
  invocation meets what the first left, on the same rows or on others.
  `MCSmokeRunner` also assumes (`WholeTable`, which TLC evaluates) that the whole table is as
  the proofs need it.
* In `EmbeddedAS`, identifiers (`Txns`, `Codes`, `Pairs`, `Requests`) are symmetric: no action or
  property tells one from another. The pools bound how often `randomId()` is
  called, the bound `MaxTime` how far the clock goes; no other counter exists.

Deadlock is checked where the model never stops: servers that can be restarted
(`EmbeddedAS`, `AuthGateway`), sessions, and tokens that can be revoked
(`IntrospectionCache`). It is not in `exchange_tools` and `verify`, where everything has
expired at `MaxTime`, nor in `cli_runs` and `smoke_rows`, whose processes end.

`EmbeddedAS` has no fairness: whether anybody ever signs in or presents a code
is not the server's to decide, and no liveness property is stated for it. The same
holds for the caches and the gateway.

`FairSpec` of `McpSessions` assumes that time passes, that the interval timer
fires when it is due, and that a response the server has ended is closed in
the end. Node's timers and sockets do all three; nothing is assumed of clients, who
may hold a stream open, stay away or send requests for ever.

`FairSpec` of `CliOAuth` assumes that each process goes on with its own steps (`Run`): the
event loop runs what is ready, a request is answered or fails, and the timer of a
wait for the callback fires when nothing else happens. `EveryRunEnds` rests on that timer: the
user need not answer, the port may stay busy and servers may restart. Where the
bound `MaxLogins` keeps a process from another login, it ends as after a discovery that fails.

`FairSpec` of `SmokeRunner` assumes that the script goes on, its timers included, that clients
that are not hung get on, that a server that boots comes to its `listen()`, and that
SIGKILL works; SIGTERM may be ignored. Nothing is assumed of the two waits that have no timer
in the code: `setup` (08's `gen-certs.sh`) may never return, and a server that is stuck may
never answer the negative probe (`rawRequest` has no timeout). `InvocationEnds` names them: every
invocation ends, or is at one of these two for good (`Stalled`). Everywhere else a server may
hang, ignore SIGTERM or come up too late, and the invocation still ends.

### What the violations show

* `replay`: the header of `provider.ts` promises that reuse of a code revokes
  every token issued from it. Spent codes are looked up when the challenge is
  read only. When a second request with the same code has passed that point
  before the first redeems the code, it is answered `invalid_grant` in
  `exchangeAuthorizationCode`, and the tokens of the first stay valid. The code is
  still redeemed only once (`ImplementsChain` holds).
* `tabs`: the header of `pages.ts` says the consent page shows as whom access is
  granted. The form of the page names the transaction only: when another user
  signs in to the same transaction in a second tab, the page still open in the
  first grants the rights of the second user.
* `leak`: the comment on the sweeper says sessions must not pile up when clients
  crash. A GET whose client hangs up while the guard is awaited is counted all the same,
  and its close handler is registered on a response that is closed already: the
  counter never comes down and the sweeper leaves the session alone for good.
  `AbandonedAreSwept` shows it is the only way: every other session is swept.

### What the code does not keep

Three more promises of the repository do not hold. Each is stated in its module as the
repository has it, and is no property of a run; as an INVARIANT of the module's run TLC
refutes it within a few steps. What the code keeps instead is what the runs check.

* `RevokedWithinWindow` (`IntrospectionCache`). The documentation of 07 and `server.ts:44` say
  the TTL is the worst-case revocation delay. The window begins when the answer arrives
  (`server.ts:136`), so that a token that is revoked after Keycloak has looked at it, and before
  the answer is there, is granted for the rest of the call and a full window. `ImplementsOracle`
  has what holds: the `Delay` of `RevocationOracle` is `Ttl + PostMax`.
* `OutagesNeverBlamed` (`IntrospectionCache`). `server.ts:67-70` says an outage is never blamed on
  the client and never cached. A 200 whose body is cut or is not JSON is no error to
  `readJson` (`keycloak.ts:138`): it becomes `{}`, a token that is not active, which is kept for the
  negative window and answered 401. What holds: only such an answer does this, and only for
  `NegativeTtl`, the `Blame` of `RevocationOracle`. The same line makes an unreadable answer to
  the exchange of 10 a token that is `Undefined`, which is kept and sent; by `ImplementsDelegation`
  the API refuses it.
* `HungUpStops` (`AuthGateway`). `gateway.ts:141` says a client that hung up ends the talk with the
  backend. When the client leaves while the assertion is being signed, the close event is
  over before `makeProxyHandler` listens for it, and the request is forwarded and runs to its end.

The first two are recorded with the run `caching`, the third as a hazard without a property.

## Proofs

`EmbeddedAS_proofs.tla` proves, for all values of the constants that satisfy
`ConstantsOK` and `RequestsOK` (identifiers of different kinds differ, lifetimes are
natural numbers, requests have the shape the SDK's parsers give them):

| Theorem | Property |
|---|---|
| `TypeCorrect` | `TypeOK` |
| `InductiveInvariant` | `IInv` |
| `RedemptionIsSingleUse` | `SingleUse` |
| `RevocationIsFinal` | `EndedStaysDead` |
| `RotationIsLinear` | `OneLiveRefresh` |
| `ConsentBoundsTokens` | `WithinConsent` |
| `CodesAreBound` | `RedeemedByOwner` |
| `ReplaysAreRecognised` | `ReplayRecognisable` |
| `AccessNeverResurrects` | `NoResurrection` |
| `TokensAreNotLost` | `NothingLost` |
| `ServerImplementsChain` | `ImplementsChain` |

The argument. None of the safety properties is inductive alone. `IInv` joins them
with what they rest on: every identifier in circulation was drawn (`DrawnIds`), so
a fresh one is in no record and no history; maps have one record for a key
(`UniqueKeys`); a code in the map and a refresh token not rotated were not redeemed
(`Unredeemed`); a code record, and a challenge read from it, agree with the consent
(`CodesApproved`), which is what carries the challenge across the await; a
refresh record keeps the family and deadline it was given (`IssuedRecords`); and
`Remembered` adds the exact deadlines to `ReplayRecognisable`.

Most actions only take records away. The operator `Forgets` says what they have in
common: maps shrink, records of families that ended go, what else goes has expired.
`ForgettingStep` proves once that such a step keeps `IInv`, and one lemma per action
that the action is one. Three kinds of steps remain that add something: an accepted
consent (`ConsentStep`), a successful exchange (`ExchangeStep`) and a successful refresh
(`RefreshStep`). `StepKinds` says there are no others. The action properties follow
from `IInv` and the same case split. So does the refinement: a step that forgets
withdraws offers (`ForgettingWithdraws`), and the three others make or redeem one
(`ConsentOffers`, `ExchangeRedeems`, `RefreshRedeems`).

`McpSessions_proofs.tla` proves, from `ConstantsOK` and `NoRequestOK` (finitely many
requests at a time; an empty slot is no request):

| Theorem | Property |
|---|---|
| `SessionsInvariant` | `IInv` |
| `TypeCorrect` | `TypeOK` |
| `CounterIsSafe` | `StreamsCounted` |
| `StreamsAreOwned` | `StreamsBelong` |
| `SessionsInUseStay` | `UsedSessionsStay` |

`StreamsCounted` compares a counter with the size of a set, so the proof follows the
set: opening adds one request to `Open(id)`, closing takes one out, and nothing
else touches it (`QuietRequest`, `QuietSteps`, `ClosedKeeps`). It needs
`RequestsKnown`: without it a request could name a session id before it is minted,
and `Initialize` could reset the counter of open streams. That the counter stays a
natural number follows because the stream being closed is in the set. `UsedSessionsStay`
follows from the counter: the sweeper looks at `streams`, the property at the
streams themselves.

`IntrospectionCache_proofs.tla` assumes `CacheConstants` (the times are natural numbers,
a token has one user). It proves `CacheInvariant` and from it:

| Theorem | Property |
|---|---|
| `TypeCorrect` | `TypeOK` |
| `RevocationIsBounded` | `FreshGrants` |
| `RefusalsAreHonest` | `HonestRefusals` |
| `CallsAreShared` | `OneCall` |
| `EntriesStay` | `GoodEntriesStay` |
| `CacheImplementsOracle` | `ImplementsOracle` |

A grant is compared with a revocation that happened some time before, so the invariant
follows a call from its POST to the end of its entry: `EntryOK` says at every stage what
a positive answer can still be worth if its token was revoked meanwhile, and adds up to
`Ttl + PostMax`; of a negative answer it says that its token was dead, or that the answer could
not be read and the entry ends within `NegativeTtl` of that. `OneCall` rests on the last line of `EntryOK`, a call in flight is in the
map until `InFlight` has passed, which pruning and older calls must not break
(`PrunedKeeps`, `EntriesStep`).

For the refinement, `Asked` sorts the steps: time passes, tokens end, or answers are given,
after an unreadable word on one token or not, while the clock and Keycloak stand still. A token is valid for the oracle exactly when
Keycloak would honour it (`LivesAlike`), and what `FreshGrants`, `LiveGrants` and
`HonestRefusals` say of the answers of a step is what the oracle allows (`GrantedAlike`).

`AuthGateway_proofs.tla` assumes `GatewayConstants` (kinds of values differ) and
`WindowCovers`: lifetime, tolerance and clock skew fit in the replay window. The code has
60 s for the window against 30 s and 5 s, so this is an assumption about the skew alone.

| Theorem | Property |
|---|---|
| `GatewayInvariant` | `IInv` |
| `TypeCorrect` | `TypeOK` |
| `AssertionsAreGoodOnce` | `AcceptedOnce` |
| `ServedAsCaller` | `ServedAsVerified` |

`AcceptedOnce` needs that what was accepted is remembered or is too old to come back
(`AcceptedRemembered`), which needs that a jti is forgotten no earlier than its assertion
expires (`MemoryCovers`), and this is where `WindowCovers` enters. `ServedAsVerified` goes from
the request served to its assertion (`ServedIsAsserted`) to a token that was verified
(`AssertionsStated`), and to the token of the very request (`RequestsSigned`).

`ExchangeCache_proofs.tla` assumes `ExchangeConstants`, `CallersAudience` (the realm issues the
callers' tokens for the MCP server alone) and `NothingElse` (`None` is no value of another
kind).

| Theorem | Property |
|---|---|
| `ExchangeInvariant` | `IInv` |
| `TypeCorrect` | `TypeOK` |
| `OnBehalfOfCaller` | `OnBehalf` |
| `CacheInTime` | `CachedInTime` |
| `LiveEntriesKept` | `LiveKept` |
| `ToolsImplementDelegation` | `ImplementsDelegation` |

The invariant says of each entry and of each call under way whose token it has, if it has one
(`CachedFor` for the `Real` entries, `Carried`): what is stored is what was bought, or nothing
(`Stored`). That the API never answers on a caller's own token follows from
`CallersAudience`, with which the API refuses all of them (`CallersRefused`).

For the refinement the invariant has `TokensInTime`: a token in the cache or on its way was
issued to a user whose sessions had not ended, so that it expires within one lifetime of now
and of the log-out. Both ways to a token are a delegation then (`ObtainDelegates`, from
the cache by `ProfileHitDelegates`, from Keycloak by `IssueDelegates`); an unreadable answer
loses it (`UnreadLoses`); waiting, storing and passing on cannot be seen, nor a hit on an entry
without a token (`OthersStutter`); every return is an answer in time or a refusal
(`ReturnSeen`, `ProfileAnswers`, `FailureRefuses`, `PassthroughRefused`).

`ResourceServers_proofs.tla` assumes `ServerConstants`, `RealmIssues` (what Keycloak issues is
a well-formed token, signed with the key it names) and `NothingElse`. Of what is presented as a token
of the realm nothing is assumed: it may be forged.

| Theorem | Property |
|---|---|
| `ServersInvariant` | `IInv` |
| `TypeCorrect` | `TypeOK` |
| `WithdrawnKeysAge` | `WithdrawnInTime` |
| `OnlyEntitled` | `Entitled` |
| `RefusalsAreHonest` | `RefusedHonestly` |

`KeysInTime` says that the request under way has a key that was published when it was made
or later, and the cached key one that was published at most `FetchMax` before it was stored;
with the age of the cache this is the bound of `WithdrawnInTime`. `AroundStep` proves once
that keys may be made, published and withdrawn, `VerifierStep` that requests may go on. What
a request gets is the matter of `GrantedIsSound` and `BrokenRefused`: every variant of
`mint.ts`, and every forgery of a token of the realm (`ForgedFromRealm`), fails one of the checks
of a verdict, whatever keys are at hand. `KnownCallers`
carries the result over the time between the verdict and the tool.

`CliOAuth_proofs.tla` assumes `Bounds` (which setups there are) and `NothingElse`.

| Theorem | Property |
|---|---|
| `ClientsInvariant` | `IInv` |
| `TypeCorrect` | `TypeOK` |
| `PortIsReleased` | `PortReleased` |
| `OwnCodeExchanged` | `RightCode` |
| `NewestIsStored` | `NewestStored` |
| `OrderlyRunsBurnNothing` | `BurnedOnlyByLoss` |

`Saneness` ties a process to the URL it has shown and to the answer it has heard, from
which `RightCode` follows. `LoginsApart` and `FamiliesApart` keep logins, and the token
families bought with them, from being those of two processes or of both kinds of client:
without it a run of the Python client could spoil a TypeScript family. `OrderlyRuns` is
the heart of the last two theorems: as long as nothing was lost and no runs overlapped, at
most one TypeScript process runs, the store has what it has in memory or was emptied, and
either is the newest of its family. The steps are grouped by what they do to the server
(`QuietStep`, `GrantStep`, `RefusedStep`, `RefreshedStep`, `LostStep`, `BuyStep`).

`SmokeRunner_proofs.tla` assumes `SmokeConstants` (what a table is made of) and `TableIsRight`:
the ports of an example differ, and the author of the table reckoned right, that is, each step,
if the ones before it left the stores as `Reckoned` says, shows what the table expects and
leaves them as `Reckoned` says next. `WholeTable` of `MCSmokeRunner` has TLC evaluate this on
all twelve examples.

| Theorem | Property |
|---|---|
| `RunnerInvariant` | `IInv` |
| `TypeCorrect` | `TypeOK` |
| `NothingIsLeftRunning` | `NothingLeftRunning` |
| `ProbesVouch` | `ProbeVouches` |
| `GreenRunsAreComplete` | `GreenIsComplete` |
| `HealthyRunsAreGreen` | `HealthyIsGreen` |

Each says that something holds along a run with failures anywhere, so the invariant says where the
runner is: `OnlySupervised` names for every phase the processes that may be alive; `InOrder`
that servers and rows come in the order of the table; `OwnServer` that the main port is this
invocation's or, after a crash, nobody's, in which case no probe passes; `Progress` that what lies
behind has passed or has failed the run. `OnTrack` is the induction over a run without
faults: servers that were waited for are up and stay up, nobody is signalled, and the store is as
reckoned. A crash, a timer or an interrupt is a fault, so the proof has to show that a healthy
run never takes one of these steps (`HealthyNext`).

All these bounds on counters and time (`MaxTime`, `MaxKids`, `MaxLogins`, ...) are constants of
the theorems too: they hold for every value of them.

Only model-checked: the liveness of the sweeper, `AbandonedAreSwept`, of the clients,
`EveryRunEnds`, and of the smoke test, `InvocationEnds`, which are out of the prover's reach.
Every other property of a passing run is a theorem. That the stores come out as `Reckoned`
says, an induction over the steps of the table, is evaluated by TLC and assumed by the proofs.
Each `IInv` was first checked with TLC on the instances of the passing runs. The violations are
counterexamples and have nothing to prove.

## What is not modelled

Rate limits, HTML, logging, password hashing, the metadata documents (`prm.ts`) and the
environment (`env.ts`): configuration and wording, read once. The plumbing of `http.ts`
(Host check, body parser, error pages, the banner) and its mode without sessions keep
nothing between requests. The SDK, jose, PyJWKClient and Keycloak appear only as the code
here calls them, and are marked external in `PROJECT.json`. They answer with what they mean to
send, late, cut short or not at all: Keycloak's JSON is always an object (what cannot be parsed is
modelled), and a document at the JWKS endpoint that can be parsed is a key set.

Of `testing.ts` the test doubles and the raw HTTP and Keycloak helpers are left out, which only
tests use. Left out altogether: `browser-login.py`, of which the models know that it answers
a login, and the tooling of the course (`serve-course.ts` and the rendering scripts).

Two things have no property because the code promises nothing about them. What a stream
opened with a token carries after the token has expired: the code checks on every request
only. And the reuse of a code after the ten minutes for which it is remembered: it is
answered as unknown, and the tokens issued from it stay.
